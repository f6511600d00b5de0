-------------------------- MODULE HeredocTextProofs --------------------------
(***************************************************************************)
(* What Heredoc's operators on text compute, for every text: the scanner   *)
(* of the reader and the lexer are folds over a line; what one piece does  *)
(* to both is proved once and carried over a text by induction on its      *)
(* length.                                                                 *)
(***************************************************************************)
EXTENDS Heredoc, FiniteSetTheorems, SequenceTheorems, WellFoundedInduction, TLAPS

-------------------------------------------------------------------------------
(* Induction up to a length.                                               *)

\* A nonempty set of natural numbers has a least one.
LEMMA LeastIndex ==
    ASSUME NEW T \in SUBSET Nat, T # {}
    PROVE  \E x \in T : \A y \in T : x <= y
<1> DEFINE R == OpToRel(<, Nat)
<1>1. \E x \in T : \A y \in T : ~ (<<y, x>> \in R)
  BY NatLessThanWellFounded, WFMin
<1>2. R = {p \in Nat \X Nat : p[1] < p[2]}
  BY DEF OpToRel
<1> HIDE DEF R
<1>3. PICK x \in T : \A y \in T : ~ (<<y, x>> \in R)
  BY <1>1
<1>4. ASSUME NEW y \in T PROVE x <= y
  <2>1. x \in Nat /\ y \in Nat
    OBVIOUS
  <2>2. ~ (y < x)
    BY <1>2, <1>3, <2>1
  <2> QED
    BY <2>1, <2>2
<1> QED
  BY <1>4

\* What holds at 0 and passes from each number below m to the next holds up to m.
LEMMA UpTo ==
    ASSUME NEW m \in Nat, NEW S, 0 \in S,
           \A i \in 0..m : i < m /\ i \in S => i + 1 \in S
    PROVE  \A i \in 0..m : i \in S
<1> DEFINE T == {i \in 0..m : i \notin S}
<1>1. SUFFICES ASSUME T # {} PROVE FALSE
  OBVIOUS
<1>2. PICK x \in T : \A y \in T : x <= y
  <2>1. T \in SUBSET Nat
    OBVIOUS
  <2> HIDE DEF T
  <2> QED
    BY <1>1, <2>1, LeastIndex
<1>3. x \in Nat /\ x # 0 /\ x - 1 \in 0..m /\ x - 1 < m
  BY <1>2
<1>4. x - 1 \notin T
  BY <1>2, <1>3
<1>5. x \in S
  BY <1>3, <1>4
<1> QED
  BY <1>2, <1>5

\* f goes from d by steps.
Folds(f, n, D, d, step) ==
    f \in [0..n -> D] /\ f[0] = d /\ \A i \in 1..n : f[i] = step[<<f[i - 1], i>>]

\* A value and a step in D define a function on 0..n.
LEMMA Recursion ==
    ASSUME NEW n \in Nat, NEW D, NEW d \in D, NEW step \in [D \X (1..n) -> D]
    PROVE  \E f : Folds(f, n, D, d, step)
<1> DEFINE Good(k) == {f \in [0..k -> D] :
                         f[0] = d /\ \A i \in 1..k : f[i] = step[<<f[i - 1], i>>]}
           S == {k \in 0..n : Good(k) # {}}
<1>1. 0 \in S
  <2>1. [i \in 0..0 |-> d] \in Good(0)
    OBVIOUS
  <2> QED
    BY <2>1
<1>2. ASSUME NEW k \in 0..n, k < n, k \in S PROVE k + 1 \in S
  <2>1. PICK f : f \in Good(k)
    BY <1>2
  <2> DEFINE g == [i \in 0..(k + 1) |-> IF i = k + 1 THEN step[<<f[k], k + 1>>] ELSE f[i]]
  <2>2. k \in Nat /\ k + 1 \in 1..n
    BY <1>2
  <2>3. f \in [0..k -> D] /\ f[0] = d /\ \A i \in 1..k : f[i] = step[<<f[i - 1], i>>]
    BY <2>1
  <2>4. f[k] \in D /\ step[<<f[k], k + 1>>] \in D
    BY <2>2, <2>3
  <2>5. g \in [0..(k + 1) -> D]
    BY <2>2, <2>3, <2>4
  <2>6. g[0] = d /\ \A i \in 0..k : g[i] = f[i]
    BY <2>2, <2>3
  <2>7. ASSUME NEW i \in 1..(k + 1) PROVE g[i] = step[<<g[i - 1], i>>]
    <3>1. CASE i = k + 1
      <4>1. g[i] = step[<<f[k], k + 1>>] /\ i - 1 = k /\ g[k] = f[k]
        BY <2>2, <2>6, <3>1
      <4> HIDE DEF g
      <4> QED
        BY <3>1, <4>1
    <3>2. CASE i # k + 1
      <4>1. i \in 1..k /\ i \in 0..k /\ i - 1 \in 0..k
        BY <2>2, <3>2
      <4> QED
        BY <2>3, <2>6, <4>1
    <3> QED
      BY <3>1, <3>2
  <2>8. g \in Good(k + 1)
    BY <2>5, <2>6, <2>7
  <2>9. k + 1 \in 0..n
    BY <2>2
  <2> HIDE DEF Good, g
  <2> QED
    BY <2>8, <2>9
<1>3. n \in S
  <2> HIDE DEF S
  <2> QED
    BY <1>1, <1>2, UpTo
<1> QED
  BY <1>3 DEF Folds

-------------------------------------------------------------------------------
(* The ranges of the scanner and the lexer.                                *)

Chars == [t : Pieces \cup {"\n"}, at : Places]

Scans == [sq : BOOLEAN, dq : BOOLEAN, depth : Nat, bs : BOOLEAN, pending : Seq(Redirs),
          halt : BOOLEAN, open : BOOLEAN]

\* a word is open only after an operator
ScanOK(c) == c \in Scans /\ (c.open => c.pending # << >>)

Lexes == [q : Quotes \cup {"none"}, sub : Nat, note : BOOLEAN, open : BOOLEAN,
          out : Seq(Tokens)]

Kinds == {"w", "op", "(", ")", "semi", "|", "\\", "\n"}

\* a comment begins, and a word is open after an operator, only outside quotes
LexOK(l) ==
    /\ l \in Lexes
    /\ l.note => l.q = "none" /\ l.sub = 0
    /\ l.open => /\ l.q = "none" /\ l.sub = 0 /\ ~l.note
                 /\ l.out # << >> /\ l.out[Len(l.out)].k = "op"

\* What goes on in the last of ops changes only its delimiter.
LEMMA GrownIs ==
    ASSUME NEW R, NEW ops \in Seq(R), ops # << >>, NEW t,
           [ops[Len(ops)] EXCEPT !.delim = Append(@, t)] \in R
    PROVE  /\ Grown(ops, t) \in Seq(R) /\ Grown(ops, t) # << >>
           /\ Len(Grown(ops, t)) = Len(ops)
           /\ Grown(ops, t)[Len(ops)] = [ops[Len(ops)] EXCEPT !.delim = Append(@, t)]
           /\ \A i \in DOMAIN ops : i # Len(ops) => Grown(ops, t)[i] = ops[i]
<1> DEFINE r == [ops[Len(ops)] EXCEPT !.delim = Append(@, t)]
<1>1. Grown(ops, t) = [ops EXCEPT ![Len(ops)] = r]
  BY DEF Grown
<1>2. r \in R
  OBVIOUS
<1> HIDE DEF r
<1>3. Len(ops) \in DOMAIN ops
  OBVIOUS
<1>4. [ops EXCEPT ![Len(ops)] = r] \in Seq(R)
  BY <1>2
<1>5. Len([ops EXCEPT ![Len(ops)] = r]) = Len(ops)
  BY <1>2, <1>3, <1>4
<1> QED
  BY <1>1, <1>3, <1>4, <1>5 DEF r

\* scan_line_into keeps its state in range.
LEMMA ScanPieceTyped ==
    ASSUME NEW c, ScanOK(c), NEW x \in Chars
    PROVE  ScanOK(ScanPiece(c, x))
<1>1. CASE c.halt
  BY <1>1 DEF ScanPiece
<1>2. CASE ~c.halt /\ c.open /\ x.t \in InDelimiter
  <2>1. /\ Grown(c.pending, x.t) \in Seq(Redirs)
        /\ Grown(c.pending, x.t) # << >>
    <3>1. c.pending \in Seq(Redirs) /\ c.pending # << >>
      BY <1>2 DEF ScanOK, Scans
    <3>2. c.pending[Len(c.pending)] \in Redirs
      BY <3>1
    <3>3. [c.pending[Len(c.pending)] EXCEPT !.delim = Append(@, x.t)] \in Redirs
      <4>1. \A r \in Redirs : Append(r.delim, x.t) \in Seq(InDelimiter)
        BY <1>2 DEF Redirs
      <4>2. \A r \in Redirs, e \in Seq(InDelimiter) : [r EXCEPT !.delim = e] \in Redirs
        BY DEF Redirs
      <4> QED
        BY <3>2, <4>1, <4>2
    <3> QED
      BY <3>1, <3>3, GrownIs
  <2>2. ScanPiece(c, x) = [c EXCEPT !.pending = Grown(c.pending, x.t)]
    BY <1>2 DEF ScanPiece
  <2> QED
    BY <2>1, <2>2 DEF ScanOK, Scans
<1>3. CASE ~c.halt /\ ~(c.open /\ x.t \in InDelimiter)
  <2> DEFINE d == [c EXCEPT !.open = FALSE]
  <2>1. d \in Scans /\ ~d.open /\ d.pending = c.pending
    BY DEF ScanOK, Scans
  <2>2. ScanOK(Unquoted(d, x))
    <3>1. CASE x.t \in Operators
      <4>1. Op(x) \in Redirs
        BY DEF Op, Redirs, Chars
      <4>2. Append(d.pending, Op(x)) \in Seq(Redirs) /\ Append(d.pending, Op(x)) # << >>
        <5> HIDE DEF d
        <5>1. d.pending \in Seq(Redirs)
          BY <2>1 DEF Scans
        <5> QED
          BY <4>1, <5>1
      <4>3. Unquoted(d, x) = [d EXCEPT !.pending = Append(d.pending, Op(x)), !.open = TRUE]
        BY <3>1 DEF Unquoted, Operators
      <4> HIDE DEF d
      <4> QED
        BY <2>1, <4>2, <4>3 DEF ScanOK, Scans
    <3>2. CASE x.t \notin Operators
      <4> HIDE DEF d
      <4>1. \/ Unquoted(d, x) = d
            \/ Unquoted(d, x) = [d EXCEPT !.halt = TRUE]
            \/ Unquoted(d, x) = [d EXCEPT !.depth = @ + 1]
            \/ d.depth > 0 /\ Unquoted(d, x) = [d EXCEPT !.depth = @ - 1]
        BY <3>2 DEF Unquoted
      <4>2. \A n \in Nat : n + 1 \in Nat /\ (n > 0 => n - 1 \in Nat)
        OBVIOUS
      <4>3. /\ d.depth \in Nat /\ ~d.open
            /\ \A n \in Nat : [d EXCEPT !.depth = n] \in Scans /\ ~[d EXCEPT !.depth = n].open
            /\ [d EXCEPT !.halt = TRUE] \in Scans /\ ~[d EXCEPT !.halt = TRUE].open
        BY <2>1 DEF Scans
      <4>4. Unquoted(d, x) \in Scans /\ ~Unquoted(d, x).open
        BY <2>1, <4>1, <4>2, <4>3
      <4> QED
        BY <4>4 DEF ScanOK
    <3> QED
      BY <3>1, <3>2
  <2>3. ScanOK(d) /\ ScanOK([d EXCEPT !.bs = TRUE, !.halt = TRUE])
        /\ ScanOK([d EXCEPT !.sq = ~d.sq]) /\ ScanOK([d EXCEPT !.dq = ~d.dq])
    <3> HIDE DEF d
    <3> QED
      BY <2>1 DEF ScanOK, Scans
  <2>4. ScanPiece(c, x) \in {d, Unquoted(d, x), [d EXCEPT !.bs = TRUE, !.halt = TRUE],
                             [d EXCEPT !.sq = ~d.sq], [d EXCEPT !.dq = ~d.dq]}
    BY <1>3 DEF ScanPiece
  <2> QED
    BY <2>2, <2>3, <2>4
<1> QED
  BY <1>1, <1>2, <1>3

\* The fields of the lexer's state.
LEMMA LexFields ==
    ASSUME NEW l \in Lexes
    PROVE  /\ l.q \in Quotes \cup {"none"} /\ l.sub \in Nat /\ l.note \in BOOLEAN
           /\ l.open \in BOOLEAN /\ l.out \in Seq(Tokens)
BY DEF Lexes

\* m is l but for what is open and the tokens.
WithOut(l, m, o, u) ==
    /\ m \in Lexes /\ m.q = l.q /\ m.sub = l.sub /\ m.note = l.note
    /\ m.open = o /\ m.out = u

LEMMA SetOut ==
    ASSUME NEW l \in Lexes, NEW o \in BOOLEAN, NEW u \in Seq(Tokens)
    PROVE  WithOut(l, [l EXCEPT !.open = o, !.out = u], o, u)
BY DEF Lexes, WithOut

LEMMA SetWord ==
    ASSUME NEW l \in Lexes, NEW u \in Seq(Tokens)
    PROVE  WithOut(l, [l EXCEPT !.out = u], l.open, u)
BY DEF Lexes, WithOut

LEMMA SetOpen ==
    ASSUME NEW l \in Lexes, NEW o \in BOOLEAN
    PROVE  WithOut(l, [l EXCEPT !.open = o], o, l.out)
BY DEF Lexes, WithOut

\* m is l but for the quotes, the substitutions and the comment.
WithIn(l, m, q, sub, note) ==
    /\ m \in Lexes /\ m.q = q /\ m.sub = sub /\ m.note = note
    /\ m.open = l.open /\ m.out = l.out

LEMMA SetNote ==
    ASSUME NEW l \in Lexes, NEW n \in BOOLEAN
    PROVE  WithIn(l, [l EXCEPT !.note = n], l.q, l.sub, n)
BY DEF Lexes, WithIn

LEMMA SetQuote ==
    ASSUME NEW l \in Lexes, NEW q \in Quotes \cup {"none"}
    PROVE  WithIn(l, [l EXCEPT !.q = q], q, l.sub, l.note)
BY DEF Lexes, WithIn

LEMMA SetSub ==
    ASSUME NEW l \in Lexes, NEW n \in Nat
    PROVE  WithIn(l, [l EXCEPT !.sub = n], l.q, n, l.note)
BY DEF Lexes, WithIn

\* A token is added.
LEMMA PutIs ==
    ASSUME NEW l \in Lexes, NEW x \in Chars, NEW k \in Kinds
    PROVE  /\ Token(k, x) \in Tokens /\ Token(k, x).k = k /\ Token(k, x).at = x.at
           /\ Token(k, x).delim = << >>
           /\ Put(l, k, x) \in Lexes /\ Put(l, k, x).q = l.q
           /\ Put(l, k, x).sub = l.sub /\ Put(l, k, x).note = l.note
           /\ Put(l, k, x).open <=> k = "op"
           /\ Put(l, k, x).out = Append(l.out, Token(k, x))
<1>1. Token(k, x) \in Tokens
  <2>1. x.at \in Places
    BY DEF Chars
  <2>2. (x.t = "<<-") \in BOOLEAN
    OBVIOUS
  <2>3. << >> \in Seq(Letters)
    BY EmptySeq
  <2> QED
    BY <2>1, <2>2, <2>3 DEF Token, Tokens, Kinds
<1>2. Token(k, x).k = k /\ Token(k, x).at = x.at /\ Token(k, x).delim = << >>
  BY DEF Token
<1>3. Append(l.out, Token(k, x)) \in Seq(Tokens)
  BY <1>1, LexFields, AppendProperties
<1>4. PICK o \in BOOLEAN : o <=> k = "op"
  OBVIOUS
<1>5. Put(l, k, x) = [l EXCEPT !.open = o, !.out = Append(l.out, Token(k, x))]
  <2>1. (k = "op") = o
    BY <1>4
  <2> QED
    BY <2>1 DEF Put
<1>6. WithOut(l, Put(l, k, x), o, Append(l.out, Token(k, x)))
  BY <1>3, <1>5, SetOut
<1> QED
  BY <1>1, <1>2, <1>4, <1>6 DEF WithOut

\* Inside quotes or a substitution no token begins or ends.
LEMMA InsideIs ==
    ASSUME NEW l \in Lexes, NEW x \in Chars
    PROVE  /\ LexInside(l, x) \in Lexes
           /\ LexInside(l, x).out = l.out
           /\ LexInside(l, x).open = l.open
           /\ LexInside(l, x).note = l.note
<1>1. \/ LexInside(l, x) = l
      \/ \E q \in Quotes \cup {"none"} : LexInside(l, x) = [l EXCEPT !.q = q]
      \/ LexInside(l, x) = [l EXCEPT !.sub = @ + 1]
      \/ l.sub > 0 /\ LexInside(l, x) = [l EXCEPT !.sub = @ - 1]
  BY DEF LexInside, Lexes, Quotes
<1>2. /\ l.sub \in Nat
      /\ \A n \in Nat : [l EXCEPT !.sub = n] \in Lexes
      /\ \A q \in Quotes \cup {"none"} : [l EXCEPT !.q = q] \in Lexes
      /\ \A n \in Nat : n + 1 \in Nat /\ (n > 0 => n - 1 \in Nat)
  <2>1. \A n \in Nat : n + 1 \in Nat /\ (n > 0 => n - 1 \in Nat)
    OBVIOUS
  <2> QED
    BY <2>1 DEF Lexes
<1>3. LexInside(l, x) \in Lexes
  BY <1>1, <1>2
<1>4. /\ LexInside(l, x).out = l.out /\ LexInside(l, x).open = l.open
      /\ LexInside(l, x).note = l.note
  BY <1>1 DEF Lexes
<1> QED
  BY <1>3, <1>4

\* The tokens of the alias are added.
LEMMA ExpandedIs ==
    ASSUME NEW l \in Lexes, NEW x \in Chars
    PROVE  \E a, b \in Tokens :
              /\ a.k = "w" /\ b.k = "op" /\ b.at = Nowhere /\ b.delim # << >>
              /\ Expanded(l, x) = [l EXCEPT !.open = FALSE, !.out = Append(Append(l.out, a), b)]
<1> DEFINE a == Token("w", x)
           b == [Token("op", x) EXCEPT !.at = Nowhere, !.delim = <<"A">>]
<1>1. a \in Tokens /\ a.k = "w"
  BY DEF Token, Tokens, Chars
<1>2. Nowhere \in Places /\ <<"A">> \in Seq(Letters) /\ <<"A">> # << >>
  BY HeredocAssumption DEF Nowhere, Places, Letters
<1>3. b \in Tokens /\ b.k = "op" /\ b.at = Nowhere /\ b.delim = <<"A">>
  BY <1>2 DEF Token, Tokens, Chars
<1> HIDE DEF a, b
<1>4. l.out \o <<a, b>> = Append(Append(l.out, a), b)
  <2>1. l.out \in Seq(Tokens)
    BY DEF Lexes
  <2>2. /\ Append(l.out, a) = l.out \o <<a>> /\ Append(l.out, a) \in Seq(Tokens)
    BY <1>1, <1>3, <2>1, AppendIsConcat, AppendProperties
  <2>4. Append(Append(l.out, a), b) = Append(l.out, a) \o <<b>>
    BY <1>1, <1>3, <2>2, AppendIsConcat
  <2>5. <<a>> \in Seq(Tokens) /\ <<b>> \in Seq(Tokens) /\ <<a, b>> \in Seq(Tokens)
    BY <1>1, <1>3
  <2>3. <<a>> \o <<b>> = <<a, b>>
    <3>1. /\ <<a>> \o <<b>> \in Seq(Tokens) /\ Len(<<a>> \o <<b>>) = 2
          /\ (<<a>> \o <<b>>)[1] = a /\ (<<a>> \o <<b>>)[2] = b
      BY <2>5, ConcatProperties
    <3>2. Len(<<a, b>>) = 2 /\ <<a, b>>[1] = a /\ <<a, b>>[2] = b
      OBVIOUS
    <3>3. \A i \in 1..2 : (<<a>> \o <<b>>)[i] = <<a, b>>[i]
      BY <3>1, <3>2
    <3> QED
      BY <2>5, <3>1, <3>2, <3>3, SeqEqual
  <2> QED
    BY <2>1, <2>2, <2>3, <2>4, <2>5, ConcatAssociative
<1>5. Expanded(l, x) = [l EXCEPT !.open = FALSE, !.out = l.out \o <<a, b>>]
  BY DEF Expanded, a, b
<1> QED
  BY <1>1, <1>2, <1>3, <1>4, <1>5

\* What one piece does to the tokens: nothing, one more, a longer last word, or
\* the two of the alias.
Nothing(l, m)   == m.out = l.out /\ (m.open => l.open)
OneMore(l, m, x) ==
    \E t \in Tokens :
        /\ m.out = Append(l.out, t)
        /\ m.open <=> t.k = "op"
        /\ t.k = "op" => x.t \in Operators /\ t.at = x.at
        /\ t.k = "\n" <=> x.t = "\n"
Longer(l, m, x) == l.open /\ m.open /\ x.t \in Letters /\ m.out = Grown(l.out, x.t)
Aliased(l, m, x) ==
    /\ x.t = "alias"
    /\ \E a, b \in Tokens :
          /\ m.out = Append(Append(l.out, a), b) /\ ~m.open
          /\ a.k = "w" /\ b.k = "op" /\ b.at = Nowhere /\ b.delim # << >>

Shapes(l, m, x) == Nothing(l, m) \/ OneMore(l, m, x) \/ Longer(l, m, x) \/ Aliased(l, m, x)

\* A token is added, outside quotes.
LEMMA PutShape ==
    ASSUME NEW l \in Lexes, l.q = "none", l.sub = 0, ~l.note, NEW x \in Chars,
           NEW k \in Kinds,
           k = "op" => x.t \in Operators, k = "\n" <=> x.t = "\n"
    PROVE  LexOK(Put(l, k, x)) /\ OneMore(l, Put(l, k, x), x)
<1> DEFINE t == Token(k, x)
           m == Put(l, k, x)
<1>1. /\ t \in Tokens /\ t.k = k /\ t.at = x.at
      /\ m \in Lexes /\ m.q = l.q /\ m.sub = l.sub /\ m.note = l.note
      /\ m.open <=> k = "op"
      /\ m.out = Append(l.out, t)
  BY PutIs
<1> HIDE DEF t, m
<1>2. l.out \in Seq(Tokens)
  BY LexFields
<1>3. m.out # << >> /\ m.out[Len(m.out)] = t
  <2>1. /\ Append(l.out, t) # << >> /\ Len(Append(l.out, t)) = Len(l.out) + 1
        /\ Append(l.out, t)[Len(l.out) + 1] = t
    BY <1>1, <1>2, AppendProperties
  <2> QED
    BY <1>1, <2>1
<1>4. LexOK(m)
  BY <1>1, <1>3 DEF LexOK
<1>5. OneMore(l, m, x)
  BY <1>1 DEF OneMore
<1> QED
  BY <1>4, <1>5 DEF m

\* The lexer keeps its state in range, and does one of four things to the tokens.
LEMMA LexPieceShape ==
    ASSUME NEW l, LexOK(l), NEW x \in Chars
    PROVE  LexOK(LexPiece(l, x)) /\ Shapes(l, LexPiece(l, x), x)
<1> DEFINE m == LexPiece(l, x)
<1>0. /\ l \in Lexes /\ l.sub \in Nat /\ l.out \in Seq(Tokens)
      /\ l.note \in BOOLEAN /\ l.open \in BOOLEAN
      /\ l.note => l.q = "none" /\ l.sub = 0
      /\ l.open => /\ l.q = "none" /\ l.sub = 0 /\ ~l.note
                   /\ l.out # << >> /\ l.out[Len(l.out)].k = "op"
  BY LexFields DEF LexOK
<1>1. CASE l.note /\ x.t # "\n"
  <2>1. m = l
    BY <1>1 DEF LexPiece
  <2> QED
    BY <2>1 DEF Shapes, Nothing
<1>2. CASE ~l.note /\ (l.q # "none" \/ l.sub > 0)
  <2>1. m = LexInside(l, x)
    BY <1>2 DEF LexPiece
  <2>2. ~l.open
    <3>1. l.open => l.q = "none" /\ ~(l.sub > 0)
      BY <1>0
    <3> QED
      BY <1>2, <3>1
  <2>3. /\ m \in Lexes /\ m.out = l.out /\ m.open = l.open /\ m.note = l.note
    BY <1>0, <2>1, InsideIs
  <2> HIDE DEF m
  <2> QED
    BY <1>2, <2>2, <2>3 DEF LexOK, Shapes, Nothing, m
<1>3. CASE l.note /\ x.t = "\n"
  <2> DEFINE c == [l EXCEPT !.note = FALSE]
  <2>1. m = LexOutside(l, x)
    BY <1>0, <1>3 DEF LexPiece
  <2>2. LexOutside(l, x) = [Put(l, "\n", x) EXCEPT !.note = FALSE]
    BY <1>3 DEF LexOutside, Quotes, Letters, Operators
  <2>3. /\ c \in Lexes /\ c.q = l.q /\ c.sub = l.sub /\ ~c.note
        /\ c.open = l.open /\ c.out = l.out
    BY <1>0, SetNote DEF WithIn
  <2>4. "\n" \in Kinds
    BY DEF Kinds
  <2>5. LexOK(Put(c, "\n", x)) /\ OneMore(c, Put(c, "\n", x), x)
    <3> HIDE DEF c
    <3> QED
      BY <1>0, <1>3, <2>3, <2>4, PutShape
  <2>6. [Put(l, "\n", x) EXCEPT !.note = FALSE] = Put(c, "\n", x)
    BY <1>0 DEF Put, Lexes
  <2>7. m = Put(c, "\n", x)
    BY <2>1, <2>2, <2>6
  <2> HIDE DEF c, m
  <2>8. LexOK(m) /\ OneMore(l, m, x)
    BY <2>3, <2>5, <2>7 DEF OneMore
  <2> QED
    BY <2>8 DEF Shapes, m
<1>4. CASE ~l.note /\ l.q = "none" /\ ~(l.sub > 0)
  <2>0. l.sub = 0 /\ ~l.note /\ l.q = "none"
    <3>1. l.sub = 0
      BY <1>0, <1>4
    <3> QED
      BY <1>4, <3>1
  <2>1. m = LexOutside(l, x)
    BY <1>4 DEF LexPiece
  <2>2. ASSUME NEW k \in Kinds, k = "op" => x.t \in Operators, k = "\n" <=> x.t = "\n",
               m = Put(l, k, x)
        PROVE  LexOK(m) /\ OneMore(l, m, x)
    <3>1. LexOK(Put(l, k, x)) /\ OneMore(l, Put(l, k, x), x)
      BY <1>0, <2>0, <2>2, PutShape
    <3> QED
      BY <2>2, <3>1
  <2>3. CASE x.t \in {"$("} \cup Quotes
    <3> DEFINE p == Put(l, "w", x)
    <3>1. "w" \in Kinds
      BY DEF Kinds
    <3>2. /\ p \in Lexes /\ p.q = l.q /\ p.sub = l.sub /\ p.note = l.note /\ ~p.open
      BY <1>0, <3>1, PutIs
    <3>3. OneMore(l, p, x)
      <4>1. x.t # "\n"
        BY <2>3 DEF Quotes
      <4> QED
        BY <1>0, <2>0, <3>1, <4>1, PutShape
    <3>4. \/ x.t = "$(" /\ m = [p EXCEPT !.sub = 1]
          \/ x.t \in Quotes /\ m = [p EXCEPT !.q = x.t]
      <4>1. CASE x.t = "$("
        <5>1. LexOutside(l, x) = [p EXCEPT !.sub = 1]
          BY <4>1 DEF LexOutside, Quotes, Letters, Operators
        <5> QED
          BY <2>1, <4>1, <5>1
      <4>2. CASE x.t \in Quotes
        <5>1. LexOutside(l, x) = [p EXCEPT !.q = x.t]
          BY <4>2 DEF LexOutside, Quotes, Letters, Operators
        <5> QED
          BY <2>1, <4>2, <5>1
      <4> QED
        BY <2>3, <4>1, <4>2
    <3> HIDE DEF p, m
    <3>5. m \in Lexes /\ m.note = p.note /\ m.open = p.open /\ m.out = p.out
      <4>1. CASE m = [p EXCEPT !.sub = 1]
        BY <3>2, <4>1, SetSub DEF WithIn
      <4>2. CASE x.t \in Quotes /\ m = [p EXCEPT !.q = x.t]
        BY <3>2, <4>2, SetQuote DEF WithIn
      <4> QED
        BY <3>4, <4>1, <4>2
    <3>6. LexOK(m) /\ OneMore(l, m, x)
      BY <2>0, <3>2, <3>3, <3>5 DEF LexOK, OneMore
    <3> QED
      BY <3>6 DEF Shapes, m
  <2>4. CASE x.t \in {"#", "\t"}
    <3>1. m \in Lexes /\ m.out = l.out /\ m.q = l.q /\ m.sub = l.sub /\ ~m.open
      <4>1. CASE x.t = "#"
        <5> DEFINE c == [l EXCEPT !.note = TRUE]
        <5>1. LexOutside(l, x) = [l EXCEPT !.note = TRUE, !.open = FALSE]
          BY <4>1 DEF LexOutside, Quotes, Letters, Operators
        <5>2. WithIn(l, c, l.q, l.sub, TRUE)
          BY <1>0, SetNote
        <5>3. m = [c EXCEPT !.open = FALSE]
          BY <2>1, <5>1
        <5> HIDE DEF c, m
        <5>4. c \in Lexes /\ WithOut(c, m, FALSE, c.out)
          BY <5>2, <5>3, SetOpen DEF WithIn
        <5> QED
          BY <5>2, <5>4 DEF WithIn, WithOut
      <4>2. CASE x.t = "\t"
        <5>1. m = [l EXCEPT !.open = FALSE]
          BY <2>1, <4>2 DEF LexOutside, Quotes, Letters, Operators
        <5> QED
          BY <1>0, <5>1, SetOpen DEF WithOut
      <4> QED
        BY <2>4, <4>1, <4>2
    <3> HIDE DEF m
    <3> QED
      BY <2>0, <3>1 DEF LexOK, Shapes, Nothing, m
  <2>5. CASE x.t \in Letters /\ l.open
    <3>1. m = [l EXCEPT !.out = Grown(l.out, x.t)]
      BY <2>1, <2>5 DEF LexOutside, Quotes, Letters, Operators
    <3>2. l.out \in Seq(Tokens) /\ l.out # << >> /\ l.out[Len(l.out)].k = "op"
      BY <1>0, <2>5
    <3>3. l.out[Len(l.out)] \in Tokens
      BY <3>2
    <3>4. [l.out[Len(l.out)] EXCEPT !.delim = Append(@, x.t)] \in Tokens
      <4>1. \A r \in Tokens : Append(r.delim, x.t) \in Seq(Letters)
        <5>1. \A r \in Tokens : r.delim \in Seq(Letters)
          BY DEF Tokens
        <5> QED
          BY <2>5, <5>1, AppendProperties
      <4>2. \A r \in Tokens, e \in Seq(Letters) : [r EXCEPT !.delim = e] \in Tokens
        BY DEF Tokens
      <4> QED
        BY <3>3, <4>1, <4>2
    <3>5. /\ Grown(l.out, x.t) \in Seq(Tokens) /\ Grown(l.out, x.t) # << >>
          /\ Len(Grown(l.out, x.t)) = Len(l.out)
          /\ Grown(l.out, x.t)[Len(l.out)] = [l.out[Len(l.out)] EXCEPT !.delim = Append(@, x.t)]
      BY <3>2, <3>4, GrownIs
    <3>6. Grown(l.out, x.t)[Len(l.out)].k = "op"
      BY <3>2, <3>3, <3>5 DEF Tokens
    <3> HIDE DEF m
    <3>7. m \in Lexes /\ m.out = Grown(l.out, x.t)
          /\ m.q = l.q /\ m.sub = l.sub /\ m.open = l.open /\ m.note = l.note
      BY <1>0, <3>1, <3>5, SetWord DEF WithOut
    <3> QED
      BY <2>0, <2>5, <3>5, <3>6, <3>7 DEF LexOK, Shapes, Longer, m
  <2>6. CASE x.t = "alias" /\ InCommandPosition(l.out)
    <3>1. m = Expanded(l, x)
      BY <2>1, <2>6 DEF LexOutside, Quotes, Letters, Operators
    <3>2. PICK a, b \in Tokens :
              /\ a.k = "w" /\ b.k = "op" /\ b.at = Nowhere /\ b.delim # << >>
              /\ Expanded(l, x) = [l EXCEPT !.open = FALSE, !.out = Append(Append(l.out, a), b)]
      BY <1>0, ExpandedIs
    <3>3. Append(Append(l.out, a), b) \in Seq(Tokens)
      <4>1. Append(l.out, a) \in Seq(Tokens)
        BY <1>0, AppendProperties
      <4> QED
        BY <4>1, AppendProperties
    <3> HIDE DEF m
    <3>4. m \in Lexes /\ m.out = Append(Append(l.out, a), b)
          /\ m.q = l.q /\ m.sub = l.sub /\ ~m.open /\ m.note = l.note
      <4> DEFINE u == Append(Append(l.out, a), b)
      <4>1. u \in Seq(Tokens) /\ m = [l EXCEPT !.open = FALSE, !.out = u]
        BY <3>1, <3>2, <3>3
      <4> HIDE DEF u
      <4>2. WithOut(l, m, FALSE, u)
        BY <1>0, <4>1, SetOut
      <4> QED
        BY <4>2 DEF WithOut, u
    <3> QED
      BY <2>0, <2>6, <3>2, <3>4 DEF LexOK, Shapes, Aliased, m
  <2>7. CASE x.t \in {"(", ")", "semi", "|", "\\", "\n"}
    <3>1. LexOutside(l, x) = [Put(l, x.t, x) EXCEPT !.note = FALSE]
      BY <2>7 DEF LexOutside, Quotes, Letters, Operators
    <3>2. x.t \in Kinds
      BY <2>7 DEF Kinds
    <3>4. m = Put(l, x.t, x)
      <4> DEFINE p == Put(l, x.t, x)
      <4>1. p \in Lexes /\ p.note = l.note
        BY <1>0, <3>2, PutIs
      <4>2. m = [p EXCEPT !.note = FALSE]
        BY <2>1, <3>1
      <4> HIDE DEF p, m
      <4>3. [p EXCEPT !.note = FALSE] = p
        <5>1. p.note = FALSE
          BY <1>0, <2>0, <4>1
        <5> QED
          BY <4>1, <5>1 DEF Lexes
      <4> QED
        BY <4>2, <4>3 DEF p
    <3>5. x.t = "op" => x.t \in Operators
      BY <2>7
    <3> QED
      BY <2>2, <3>2, <3>4, <3>5 DEF Shapes
  <2>8. CASE \/ x.t \in {"w", "x#"} \cup Operators
             \/ x.t \in Letters /\ ~l.open
             \/ x.t = "alias" /\ ~InCommandPosition(l.out)
    <3>1. m = Put(l, IF x.t \in Operators THEN "op" ELSE "w", x)
      BY <2>1, <2>8 DEF LexOutside, Quotes, Letters, Operators
    <3>2. x.t # "\n"
      BY <2>8 DEF Letters, Operators
    <3>3. "w" \in Kinds /\ "op" \in Kinds
      BY DEF Kinds
    <3>4. CASE x.t \in Operators
      BY <2>2, <3>1, <3>2, <3>3, <3>4 DEF Shapes
    <3>5. CASE x.t \notin Operators
      BY <2>2, <3>1, <3>2, <3>3, <3>5 DEF Shapes
    <3> QED
      BY <3>4, <3>5
  <2> QED
    BY <2>3, <2>4, <2>5, <2>6, <2>7, <2>8 DEF Chars, Pieces, Quotes, Letters, Operators
<1> QED
  BY <1>0, <1>1, <1>2, <1>3, <1>4

-------------------------------------------------------------------------------
(* The scanner and the lexer as folds over a text.                         *)

LexTrace(text, from) ==
    CHOOSE l : l = [i \in 0..Len(text) |-> IF i = 0 THEN from ELSE LexPiece(l[i - 1], text[i])]

\* Lexed is the last value of its trace.
LEMMA LexedIs ==
    ASSUME NEW text, NEW from
    PROVE  Lexed(text, from) = LexTrace(text, from)[Len(text)]
BY DEF Lexed, LexTrace

LexStates == {l \in Lexes : LexOK(l)}

\* f holds what the lexer reaches after each piece of text.
LexFolds(f, text, from) ==
    /\ f \in [0..Len(text) -> LexStates] /\ f[0] = from
    /\ \A i \in 1..Len(text) : f[i] = LexPiece(f[i - 1], text[i])
    /\ Lexed(text, from) = f[Len(text)]

\* The lexer is a fold: what it reaches after each piece.
LEMMA LexFold ==
    ASSUME NEW text \in Seq(Chars), NEW from \in LexStates
    PROVE  \E f : LexFolds(f, text, from)
<1> DEFINE n == Len(text)
           step == [p \in LexStates \X (1..n) |-> LexPiece(p[1], text[p[2]])]
<1>1. n \in Nat
  OBVIOUS
<1>2. step \in [LexStates \X (1..n) -> LexStates]
  <2>1. ASSUME NEW p \in LexStates \X (1..n)
        PROVE  LexPiece(p[1], text[p[2]]) \in LexStates
    <3>1. LexOK(p[1]) /\ text[p[2]] \in Chars
      BY <2>1 DEF LexStates
    <3> QED
      BY <3>1, LexPieceShape DEF LexStates, LexOK
  <2> QED
    BY <2>1
<1>3. PICK f : Folds(f, n, LexStates, from, step)
  <2> HIDE DEF step, n
  <2> QED
    BY <1>1, <1>2, Recursion
<1> f \in [0..n -> LexStates] /\ f[0] = from
  BY <1>3 DEF Folds
<1>4. \A i \in 1..n : f[i] = LexPiece(f[i - 1], text[i])
  <2>1. ASSUME NEW i \in 1..n PROVE f[i] = LexPiece(f[i - 1], text[i])
    <3> HIDE DEF n
    <3>1. i - 1 \in 0..n
      BY <1>1
    <3>2. <<f[i - 1], i>> \in LexStates \X (1..n)
      BY <3>1
    <3>3. f[i] = step[<<f[i - 1], i>>]
      BY <1>3 DEF Folds
    <3> QED
      BY <3>2, <3>3
  <2> QED
    BY <2>1
<1>5. f = [i \in 0..n |-> IF i = 0 THEN from ELSE LexPiece(f[i - 1], text[i])]
  <2> HIDE DEF n
  <2>1. \A i \in 0..n : f[i] = IF i = 0 THEN from ELSE LexPiece(f[i - 1], text[i])
    <3>1. \A i \in 0..n : i # 0 => i \in 1..n
      BY <1>1
    <3> QED
      BY <1>4, <3>1
  <2> QED
    BY <2>1
<1>6. LexTrace(text, from)
        = [i \in 0..n |-> IF i = 0 THEN from ELSE LexPiece(LexTrace(text, from)[i - 1], text[i])]
  BY <1>5 DEF LexTrace
<1> DEFINE g == LexTrace(text, from)
           S == {i \in 0..n : g[i] = f[i]}
<1>7. g[0] = from /\ \A i \in 1..n : g[i] = LexPiece(g[i - 1], text[i])
  <2>1. 0 \in 0..n /\ \A i \in 1..n : i \in 0..n /\ i # 0
    BY <1>1
  <2> HIDE DEF n
  <2>2. \A i \in 0..n : g[i] = IF i = 0 THEN from ELSE LexPiece(g[i - 1], text[i])
    BY <1>6
  <2> QED
    BY <2>1, <2>2
<1> HIDE DEF g
<1>8. \A i \in 0..n : i \in S
  <2>1. 0 \in S
    BY <1>1, <1>3, <1>7 DEF Folds
  <2>2. ASSUME NEW i \in 0..n, i < n, i \in S PROVE i + 1 \in S
    <3>1. i + 1 \in 1..n /\ (i + 1) - 1 = i /\ i + 1 \in 0..n
      BY <1>1, <2>2
    <3>2. g[i + 1] = LexPiece(g[i], text[i + 1]) /\ f[i + 1] = LexPiece(f[i], text[i + 1])
      BY <1>4, <1>7, <3>1
    <3> QED
      BY <2>2, <3>1, <3>2
  <2> HIDE DEF S, n
  <2> QED
    BY <1>1, <2>1, <2>2, UpTo
<1>9. Lexed(text, from) = f[n]
  BY <1>1, <1>8, LexedIs DEF g, S
<1> QED
  BY <1>3, <1>4, <1>9 DEF Folds, LexFolds
ScanFrom(c) == [sq |-> c.sq, dq |-> c.dq, depth |-> c.depth, bs |-> FALSE,
                pending |-> << >>, halt |-> FALSE, open |-> FALSE]

ScanTrace(text, c) ==
    CHOOSE s : s = [i \in 0..Len(text) |-> IF i = 0 THEN ScanFrom(c)
                                          ELSE ScanPiece(s[i - 1], text[i])]

\* Scanned is the last value of its trace.
LEMMA ScannedIs ==
    ASSUME NEW text, NEW c
    PROVE  Scanned(text, c) = ScanTrace(text, c)[Len(text)]
BY DEF Scanned, ScanTrace, ScanFrom

ScanStates == {c \in Scans : ScanOK(c)}

\* f holds what the scanner reaches after each piece of text.
ScanFolds(f, text, c) ==
    /\ f \in [0..Len(text) -> ScanStates] /\ f[0] = ScanFrom(c)
    /\ \A i \in 1..Len(text) : f[i] = ScanPiece(f[i - 1], text[i])
    /\ Scanned(text, c) = f[Len(text)]

\* The scanner is a fold: what it reaches after each piece.
LEMMA ScanFold ==
    ASSUME NEW text \in Seq(Chars), NEW c, ScanFrom(c) \in ScanStates
    PROVE  \E f : ScanFolds(f, text, c)
<1> DEFINE n == Len(text)
           step == [p \in ScanStates \X (1..n) |-> ScanPiece(p[1], text[p[2]])]
<1>1. n \in Nat
  OBVIOUS
<1>2. step \in [ScanStates \X (1..n) -> ScanStates]
  <2>1. ASSUME NEW p \in ScanStates \X (1..n)
        PROVE  ScanPiece(p[1], text[p[2]]) \in ScanStates
    <3>1. ScanOK(p[1]) /\ text[p[2]] \in Chars
      BY <2>1 DEF ScanStates
    <3> QED
      BY <3>1, ScanPieceTyped DEF ScanStates, ScanOK
  <2> QED
    BY <2>1
<1>3. PICK f : Folds(f, n, ScanStates, ScanFrom(c), step)
  <2> HIDE DEF step, n
  <2> QED
    BY <1>1, <1>2, Recursion
<1> f \in [0..n -> ScanStates] /\ f[0] = ScanFrom(c)
  BY <1>3 DEF Folds
<1>4. \A i \in 1..n : f[i] = ScanPiece(f[i - 1], text[i])
  <2>1. ASSUME NEW i \in 1..n PROVE f[i] = ScanPiece(f[i - 1], text[i])
    <3> HIDE DEF n
    <3>1. i - 1 \in 0..n
      BY <1>1
    <3>2. <<f[i - 1], i>> \in ScanStates \X (1..n)
      BY <3>1
    <3>3. f[i] = step[<<f[i - 1], i>>]
      BY <1>3 DEF Folds
    <3> QED
      BY <3>2, <3>3
  <2> QED
    BY <2>1
<1>5. f = [i \in 0..n |-> IF i = 0 THEN ScanFrom(c) ELSE ScanPiece(f[i - 1], text[i])]
  <2> HIDE DEF n
  <2>1. \A i \in 0..n : f[i] = IF i = 0 THEN ScanFrom(c) ELSE ScanPiece(f[i - 1], text[i])
    <3>1. \A i \in 0..n : i # 0 => i \in 1..n
      BY <1>1
    <3> QED
      BY <1>4, <3>1
  <2> QED
    BY <2>1
<1>6. ScanTrace(text, c)
        = [i \in 0..n |-> IF i = 0 THEN ScanFrom(c) ELSE ScanPiece(ScanTrace(text, c)[i - 1], text[i])]
  BY <1>5 DEF ScanTrace
<1> DEFINE g == ScanTrace(text, c)
           S == {i \in 0..n : g[i] = f[i]}
<1>7. g[0] = ScanFrom(c) /\ \A i \in 1..n : g[i] = ScanPiece(g[i - 1], text[i])
  <2>1. 0 \in 0..n /\ \A i \in 1..n : i \in 0..n /\ i # 0
    BY <1>1
  <2> HIDE DEF n
  <2>2. \A i \in 0..n : g[i] = IF i = 0 THEN ScanFrom(c) ELSE ScanPiece(g[i - 1], text[i])
    BY <1>6
  <2> QED
    BY <2>1, <2>2
<1> HIDE DEF g
<1>8. \A i \in 0..n : i \in S
  <2>1. 0 \in S
    BY <1>1, <1>3, <1>7 DEF Folds
  <2>2. ASSUME NEW i \in 0..n, i < n, i \in S PROVE i + 1 \in S
    <3>1. i + 1 \in 1..n /\ (i + 1) - 1 = i /\ i + 1 \in 0..n
      BY <1>1, <2>2
    <3>2. g[i + 1] = ScanPiece(g[i], text[i + 1]) /\ f[i + 1] = ScanPiece(f[i], text[i + 1])
      BY <1>4, <1>7, <3>1
    <3> QED
      BY <2>2, <3>1, <3>2
  <2> HIDE DEF S, n
  <2> QED
    BY <1>1, <2>1, <2>2, UpTo
<1>9. Scanned(text, c) = f[n]
  BY <1>1, <1>8, ScannedIs DEF g, S
<1> QED
  BY <1>3, <1>4, <1>9 DEF Folds, ScanFolds

\* What holds at the start and passes over every piece holds at the end.
LEMMA LexInduct ==
    ASSUME NEW text \in Seq(Chars), NEW from \in LexStates, NEW S, <<from, 0>> \in S,
           \A i \in 1..Len(text), l \in LexStates :
              <<l, i - 1>> \in S => <<LexPiece(l, text[i]), i>> \in S
    PROVE  <<Lexed(text, from), Len(text)>> \in S /\ Lexed(text, from) \in LexStates
<1> DEFINE n == Len(text)
<1>1. PICK f : LexFolds(f, text, from)
  BY LexFold
<1> /\ f \in [0..n -> LexStates] /\ f[0] = from
    /\ \A i \in 1..n : f[i] = LexPiece(f[i - 1], text[i])
    /\ Lexed(text, from) = f[n]
  BY <1>1 DEF LexFolds
<1>2. n \in Nat
  OBVIOUS
<1> DEFINE T == {i \in 0..n : <<f[i], i>> \in S}
<1>3. \A i \in 1..n, l \in LexStates : <<l, i - 1>> \in S => <<LexPiece(l, text[i]), i>> \in S
  OBVIOUS
<1> HIDE DEF n
<1>4. \A i \in 0..n : i \in T
  <2>1. 0 \in T
    BY <1>1, <1>2
  <2>2. ASSUME NEW i \in 0..n, i < n, i \in T PROVE i + 1 \in T
    <3>1. i + 1 \in 1..n /\ (i + 1) - 1 = i /\ i + 1 \in 0..n
      BY <1>2, <2>2
    <3>2. f[i + 1] = LexPiece(f[i], text[i + 1]) /\ f[i] \in LexStates
      BY <1>1, <3>1
    <3>3. <<f[i], (i + 1) - 1>> \in S
      BY <2>2, <3>1
    <3>4. <<LexPiece(f[i], text[i + 1]), i + 1>> \in S
      BY <1>3, <3>1, <3>2, <3>3
    <3> QED
      BY <3>1, <3>2, <3>4
  <2> HIDE DEF T
  <2> QED
    BY <1>2, <2>1, <2>2, UpTo
<1>5. n \in T /\ f[n] \in LexStates
  BY <1>1, <1>2, <1>4
<1> QED
  BY <1>1, <1>5 DEF n

\* The same for the scanner and the lexer side by side.
LEMMA BothInduct ==
    ASSUME NEW text \in Seq(Chars), NEW from \in LexStates,
           NEW c, ScanFrom(c) \in ScanStates, NEW S, <<ScanFrom(c), from, 0>> \in S,
           \A i \in 1..Len(text), s \in ScanStates, l \in LexStates :
              <<s, l, i - 1>> \in S =>
                  <<ScanPiece(s, text[i]), LexPiece(l, text[i]), i>> \in S
    PROVE  <<Scanned(text, c), Lexed(text, from), Len(text)>> \in S
<1> DEFINE n == Len(text)
<1>1. PICK f : LexFolds(f, text, from)
  BY LexFold
<1> /\ f \in [0..n -> LexStates] /\ f[0] = from
    /\ \A i \in 1..n : f[i] = LexPiece(f[i - 1], text[i])
    /\ Lexed(text, from) = f[n]
  BY <1>1 DEF LexFolds
<1>2. PICK g : ScanFolds(g, text, c)
  BY ScanFold
<1> /\ g \in [0..n -> ScanStates] /\ g[0] = ScanFrom(c)
    /\ \A i \in 1..n : g[i] = ScanPiece(g[i - 1], text[i])
    /\ Scanned(text, c) = g[n]
  BY <1>2 DEF ScanFolds
<1>3. n \in Nat
  OBVIOUS
<1> DEFINE T == {i \in 0..n : <<g[i], f[i], i>> \in S}
<1>4. \A i \in 1..n, s \in ScanStates, l \in LexStates :
         <<s, l, i - 1>> \in S => <<ScanPiece(s, text[i]), LexPiece(l, text[i]), i>> \in S
  OBVIOUS
<1> HIDE DEF n
<1>5. \A i \in 0..n : i \in T
  <2>1. 0 \in T
    BY <1>1, <1>2, <1>3
  <2>2. ASSUME NEW i \in 0..n, i < n, i \in T PROVE i + 1 \in T
    <3>1. i + 1 \in 1..n /\ (i + 1) - 1 = i /\ i + 1 \in 0..n
      BY <1>3, <2>2
    <3>2. f[i + 1] = LexPiece(f[i], text[i + 1]) /\ f[i] \in LexStates
      BY <1>1, <3>1
    <3>3. g[i + 1] = ScanPiece(g[i], text[i + 1]) /\ g[i] \in ScanStates
      BY <1>2, <3>1
    <3>4. <<g[i], f[i], (i + 1) - 1>> \in S
      BY <2>2, <3>1
    <3>5. <<ScanPiece(g[i], text[i + 1]), LexPiece(f[i], text[i + 1]), i + 1>> \in S
      BY <1>4, <3>1, <3>2, <3>3, <3>4
    <3> QED
      BY <3>1, <3>2, <3>3, <3>5
  <2> HIDE DEF T
  <2> QED
    BY <1>3, <2>1, <2>2, UpTo
<1>6. n \in T
  BY <1>3, <1>5
<1> QED
  BY <1>1, <1>2, <1>6 DEF n

\* The lexer reads a text in two parts.
LEMMA LexConcat ==
    ASSUME NEW a \in Seq(Chars), NEW b \in Seq(Chars), NEW from \in LexStates
    PROVE  /\ Lexed(a, from) \in LexStates
           /\ Lexed(a \o b, from) = Lexed(b, Lexed(a, from))
<1> DEFINE n == Len(a)
           m == Len(b)
           ab == a \o b
<1>0. n \in Nat /\ m \in Nat /\ ab \in Seq(Chars) /\ Len(ab) = n + m
  BY ConcatProperties
<1>1. PICK f : LexFolds(f, a, from)
  BY LexFold
<1> /\ f \in [0..n -> LexStates] /\ f[0] = from
    /\ \A i \in 1..n : f[i] = LexPiece(f[i - 1], a[i])
    /\ Lexed(a, from) = f[n]
  BY <1>1 DEF LexFolds
<1>2. f[n] \in LexStates
  BY <1>0, <1>1
<1>3. PICK h : LexFolds(h, b, f[n])
  BY <1>2, LexFold
<1> /\ h \in [0..m -> LexStates] /\ h[0] = f[n]
    /\ \A i \in 1..m : h[i] = LexPiece(h[i - 1], b[i])
    /\ Lexed(b, f[n]) = h[m]
  BY <1>3 DEF LexFolds
<1>4. PICK g : LexFolds(g, ab, from)
  BY <1>0, LexFold
<1> /\ g \in [0..(n + m) -> LexStates] /\ g[0] = from
    /\ \A i \in 1..(n + m) : g[i] = LexPiece(g[i - 1], ab[i])
    /\ Lexed(ab, from) = g[n + m]
  BY <1>0, <1>4 DEF LexFolds
<1>5. /\ \A i \in 1..n : ab[i] = a[i]
      /\ \A i \in 1..m : ab[n + i] = b[i]
  BY <1>0, ConcatProperties
<1> DEFINE T == {i \in 0..n : g[i] = f[i]}
           U == {i \in 0..m : g[n + i] = h[i]}
<1> HIDE DEF n, m, ab
<1>6. \A i \in 0..n : i \in T
  <2>1. 0 \in T
    BY <1>0, <1>1, <1>4
  <2>2. ASSUME NEW i \in 0..n, i < n, i \in T PROVE i + 1 \in T
    <3>1. i + 1 \in 1..n /\ (i + 1) - 1 = i /\ i + 1 \in 0..n /\ i + 1 \in 1..(n + m)
      BY <1>0, <2>2
    <3>2. f[i + 1] = LexPiece(f[i], a[i + 1])
      BY <1>1, <3>1
    <3>3. g[i + 1] = LexPiece(g[i], ab[i + 1])
      BY <1>4, <3>1
    <3> QED
      BY <1>5, <2>2, <3>1, <3>2, <3>3
  <2> HIDE DEF T
  <2> QED
    BY <1>0, <2>1, <2>2, UpTo
<1>7. \A i \in 0..m : i \in U
  <2>1. 0 \in U
    <3>1. n \in T
      BY <1>0, <1>6
    <3> QED
      BY <1>0, <1>3, <3>1
  <2>2. ASSUME NEW i \in 0..m, i < m, i \in U PROVE i + 1 \in U
    <3>1. /\ i + 1 \in 1..m /\ (i + 1) - 1 = i /\ i + 1 \in 0..m
          /\ n + (i + 1) \in 1..(n + m) /\ (n + (i + 1)) - 1 = n + i
      BY <1>0, <2>2
    <3>2. h[i + 1] = LexPiece(h[i], b[i + 1])
      BY <1>3, <3>1
    <3>3. g[n + (i + 1)] = LexPiece(g[n + i], ab[n + (i + 1)])
      BY <1>4, <3>1
    <3> QED
      BY <1>5, <2>2, <3>1, <3>2, <3>3
  <2> HIDE DEF U
  <2> QED
    BY <1>0, <2>1, <2>2, UpTo
<1>8. m \in U
  BY <1>0, <1>7
<1> QED
  BY <1>1, <1>2, <1>3, <1>4, <1>8 DEF ab

\* The lexer on no piece and on one.
LEMMA LexNone ==
    ASSUME NEW from \in LexStates
    PROVE  Lexed(<< >>, from) = from
<1>1. << >> \in Seq(Chars) /\ Len(<< >>) = 0
  BY EmptySeq
<1>2. PICK f : LexFolds(f, << >>, from)
  BY <1>1, LexFold
<1> QED
  BY <1>1, <1>2 DEF LexFolds

LEMMA LexOne ==
    ASSUME NEW from \in LexStates, NEW x \in Chars
    PROVE  Lexed(<<x>>, from) = LexPiece(from, x)
<1>1. <<x>> \in Seq(Chars) /\ Len(<<x>>) = 1 /\ <<x>>[1] = x
  OBVIOUS
<1>2. 1 \in 1..1 /\ 1 - 1 = 0
  OBVIOUS
<1>3. PICK f : LexFolds(f, <<x>>, from)
  BY <1>1, LexFold
<1> QED
  BY <1>1, <1>2, <1>3 DEF LexFolds

-------------------------------------------------------------------------------
(* The tokens at some places.                                              *)

SelTrace(toks, at) ==
    CHOOSE sel : sel = [i \in 0..Len(toks) |->
                          IF i = 0 THEN << >>
                          ELSE IF i \in at THEN Append(sel[i - 1], toks[i]) ELSE sel[i - 1]]

\* Selected is the last value of its trace.
LEMMA SelectedIs ==
    ASSUME NEW toks, NEW at
    PROVE  Selected(toks, at) = SelTrace(toks, at)[Len(toks)]
BY DEF Selected, SelTrace

\* f holds what is selected up to each token.
SelFolds(f, toks, at) ==
    /\ f \in [0..Len(toks) -> Seq(Tokens)] /\ f[0] = << >>
    /\ \A i \in 1..Len(toks) : f[i] = IF i \in at THEN Append(f[i - 1], toks[i]) ELSE f[i - 1]
    /\ Selected(toks, at) = f[Len(toks)]

\* The selection is a fold.
LEMMA SelFold ==
    ASSUME NEW toks \in Seq(Tokens), NEW at
    PROVE  \E f : SelFolds(f, toks, at)
<1> DEFINE n == Len(toks)
           add(s, i) == IF i \in at THEN Append(s, toks[i]) ELSE s
           step == [p \in Seq(Tokens) \X (1..n) |-> add(p[1], p[2])]
<1>1. n \in Nat /\ << >> \in Seq(Tokens)
  BY EmptySeq
<1>2. step \in [Seq(Tokens) \X (1..n) -> Seq(Tokens)]
  <2>1. ASSUME NEW p \in Seq(Tokens) \X (1..n)
        PROVE  add(p[1], p[2]) \in Seq(Tokens)
    <3>1. p[1] \in Seq(Tokens) /\ toks[p[2]] \in Tokens
      BY <2>1
    <3>2. Append(p[1], toks[p[2]]) \in Seq(Tokens)
      BY <3>1, AppendProperties
    <3> QED
      BY <3>1, <3>2
  <2> HIDE DEF add
  <2> QED
    BY <2>1
<1>3. PICK f : Folds(f, n, Seq(Tokens), << >>, step)
  <2> HIDE DEF step, n
  <2> QED
    BY <1>1, <1>2, Recursion
<1> f \in [0..n -> Seq(Tokens)] /\ f[0] = << >>
  BY <1>3 DEF Folds
<1>4. \A i \in 1..n : f[i] = add(f[i - 1], i)
  <2>1. ASSUME NEW i \in 1..n PROVE f[i] = add(f[i - 1], i)
    <3> HIDE DEF n, add
    <3>1. i - 1 \in 0..n
      BY <1>1
    <3>2. <<f[i - 1], i>> \in Seq(Tokens) \X (1..n)
      BY <3>1
    <3>3. f[i] = step[<<f[i - 1], i>>]
      BY <1>3 DEF Folds
    <3> QED
      BY <3>2, <3>3
  <2> QED
    BY <2>1
<1>5. f = [i \in 0..n |-> IF i = 0 THEN << >> ELSE add(f[i - 1], i)]
  <2> HIDE DEF n, add
  <2>1. \A i \in 0..n : f[i] = IF i = 0 THEN << >> ELSE add(f[i - 1], i)
    <3>1. \A i \in 0..n : i # 0 => i \in 1..n
      BY <1>1
    <3> QED
      BY <1>4, <3>1
  <2> QED
    BY <2>1
<1>6. SelTrace(toks, at)
        = [i \in 0..n |-> IF i = 0 THEN << >> ELSE add(SelTrace(toks, at)[i - 1], i)]
  BY <1>5 DEF SelTrace
<1> DEFINE g == SelTrace(toks, at)
           S == {i \in 0..n : g[i] = f[i]}
<1>7. g[0] = << >> /\ \A i \in 1..n : g[i] = add(g[i - 1], i)
  <2>1. 0 \in 0..n /\ \A i \in 1..n : i \in 0..n /\ i # 0
    BY <1>1
  <2> HIDE DEF n, add
  <2>2. \A i \in 0..n : g[i] = IF i = 0 THEN << >> ELSE add(g[i - 1], i)
    BY <1>6
  <2> QED
    BY <2>1, <2>2
<1> HIDE DEF g
<1>8. \A i \in 0..n : i \in S
  <2>1. 0 \in S
    BY <1>1, <1>3, <1>7 DEF Folds
  <2>2. ASSUME NEW i \in 0..n, i < n, i \in S PROVE i + 1 \in S
    <3> HIDE DEF add, n
    <3>1. i + 1 \in 1..n /\ (i + 1) - 1 = i /\ i + 1 \in 0..n
      BY <1>1, <2>2
    <3>2. g[i + 1] = add(g[i], i + 1) /\ f[i + 1] = add(f[i], i + 1)
      BY <1>4, <1>7, <3>1
    <3> QED
      BY <2>2, <3>1, <3>2
  <2> HIDE DEF S, n
  <2> QED
    BY <1>1, <2>1, <2>2, UpTo
<1>9. Selected(toks, at) = f[n]
  BY <1>1, <1>8, SelectedIs DEF g, S
<1> QED
  BY <1>4, <1>9 DEF SelFolds

\* One more token.
LEMMA SelAppend ==
    ASSUME NEW toks \in Seq(Tokens), NEW t \in Tokens, NEW at, NEW bt,
           \A i \in 1..Len(toks) : i \in at <=> i \in bt
    PROVE  /\ Selected(toks, at) \in Seq(Tokens)
           /\ Len(toks) + 1 \in bt =>
                 Selected(Append(toks, t), bt) = Append(Selected(toks, at), t)
           /\ Len(toks) + 1 \notin bt =>
                 Selected(Append(toks, t), bt) = Selected(toks, at)
<1> DEFINE n == Len(toks)
           u == Append(toks, t)
<1>1. PICK f : SelFolds(f, toks, at)
  BY SelFold
<1>2. u \in Seq(Tokens) /\ Len(u) = n + 1 /\ n \in Nat
      /\ u[n + 1] = t /\ \A i \in 1..n : u[i] = toks[i]
  BY AppendProperties
<1>3. PICK g : SelFolds(g, u, bt)
  <2> HIDE DEF u
  <2> QED
    BY <1>2, SelFold
<1> DEFINE S == {i \in 0..n : g[i] = f[i]}
<1> HIDE DEF u, n
<1>4. /\ f \in [0..n -> Seq(Tokens)] /\ f[0] = << >>
      /\ \A i \in 1..n : f[i] = IF i \in at THEN Append(f[i - 1], toks[i]) ELSE f[i - 1]
      /\ Selected(toks, at) = f[n]
  BY <1>1 DEF SelFolds, n
<1>5. /\ g[0] = << >>
      /\ \A i \in 1..(n + 1) : g[i] = IF i \in bt THEN Append(g[i - 1], u[i]) ELSE g[i - 1]
      /\ Selected(u, bt) = g[n + 1]
  BY <1>2, <1>3 DEF SelFolds
<1>6. \A i \in 0..n : i \in S
  <2>1. 0 \in S
    BY <1>2, <1>4, <1>5
  <2>2. ASSUME NEW i \in 0..n, i < n, i \in S PROVE i + 1 \in S
    <3>1. i + 1 \in 1..n /\ (i + 1) - 1 = i /\ i + 1 \in 0..n /\ i + 1 \in 1..(n + 1)
      BY <1>2, <2>2
    <3>2. f[i + 1] = IF i + 1 \in at THEN Append(f[i], toks[i + 1]) ELSE f[i]
      BY <1>4, <3>1
    <3>3. g[i + 1] = IF i + 1 \in bt THEN Append(g[i], u[i + 1]) ELSE g[i]
      BY <1>5, <3>1
    <3>4. i + 1 \in at <=> i + 1 \in bt
      BY <3>1 DEF n
    <3> QED
      BY <1>2, <2>2, <3>1, <3>2, <3>3, <3>4
  <2> HIDE DEF S
  <2> QED
    BY <1>2, <2>1, <2>2, UpTo
<1>7. g[n] = f[n] /\ f[n] \in Seq(Tokens)
  BY <1>2, <1>4, <1>6
<1>8. g[n + 1] = IF n + 1 \in bt THEN Append(g[n], t) ELSE g[n]
  <2>1. n + 1 \in 1..(n + 1) /\ (n + 1) - 1 = n
    BY <1>2
  <2> QED
    BY <1>2, <1>5, <2>1
<1> QED
  BY <1>4, <1>5, <1>7, <1>8 DEF u, n

\* Nothing is selected of nothing.
LEMMA SelNone ==
    ASSUME NEW at
    PROVE  Selected(<< >>, at) = << >>
<1>1. << >> \in Seq(Tokens) /\ Len(<< >>) = 0
  BY EmptySeq
<1>2. PICK f : SelFolds(f, << >>, at)
  BY <1>1, SelFold
<1> QED
  BY <1>1, <1>2 DEF SelFolds

\* The places of a sequence of tokens or of pending operators.
LEMMA AtsIs ==
    ASSUME NEW R, \A r \in R : r.at \in Places, NEW s \in Seq(R)
    PROVE  /\ Ats(s) \in Seq(Places) /\ Len(Ats(s)) = Len(s)
           /\ \A i \in 1..Len(s) : Ats(s)[i] = s[i].at
<1>1. \A i \in 1..Len(s) : s[i].at \in Places
  OBVIOUS
<1>2. Ats(s) = [i \in 1..Len(s) |-> s[i].at]
  BY DEF Ats
<1>3. Len(s) \in Nat
  OBVIOUS
<1> QED
  BY <1>1, <1>2, <1>3

LEMMA AtsAppend ==
    ASSUME NEW R, \A r \in R : r.at \in Places, NEW s \in Seq(R), NEW t \in R
    PROVE  Ats(Append(s, t)) = Append(Ats(s), t.at)
<1>1. /\ Append(s, t) \in Seq(R) /\ Len(Append(s, t)) = Len(s) + 1
      /\ Append(s, t)[Len(s) + 1] = t /\ \A i \in 1..Len(s) : Append(s, t)[i] = s[i]
  BY AppendProperties
<1>2. /\ Ats(s) \in Seq(Places) /\ Len(Ats(s)) = Len(s)
      /\ \A i \in 1..Len(s) : Ats(s)[i] = s[i].at
  BY AtsIs
<1>3. /\ Ats(Append(s, t)) \in Seq(Places) /\ Len(Ats(Append(s, t))) = Len(s) + 1
      /\ \A i \in 1..(Len(s) + 1) : Ats(Append(s, t))[i] = Append(s, t)[i].at
  BY <1>1, AtsIs
<1>4. t.at \in Places
  OBVIOUS
<1>5. /\ Append(Ats(s), t.at) \in Seq(Places) /\ Len(Append(Ats(s), t.at)) = Len(s) + 1
      /\ Append(Ats(s), t.at)[Len(s) + 1] = t.at
      /\ \A i \in 1..Len(s) : Append(Ats(s), t.at)[i] = Ats(s)[i]
  BY <1>2, <1>4, AppendProperties
<1>6. \A i \in 1..(Len(s) + 1) : Ats(Append(s, t))[i] = Append(Ats(s), t.at)[i]
  <2>1. \A i \in 1..(Len(s) + 1) : i = Len(s) + 1 \/ i \in 1..Len(s)
    OBVIOUS
  <2> QED
    BY <1>1, <1>2, <1>3, <1>5, <2>1
<1> QED
  BY <1>3, <1>5, <1>6, SeqEqual

LEMMA TokenAts == (\A t \in Tokens : t.at \in Places) /\ (\A r \in Redirs : r.at \in Places)
BY DEF Tokens, Redirs

\* Two texts of the same length, selected at the same places.
LEMMA SelAlike ==
    ASSUME NEW toks \in Seq(Tokens), NEW other \in Seq(Tokens), NEW at, NEW bt,
           Len(toks) = Len(other),
           \A i \in 1..Len(toks) : /\ i \in at <=> i \in bt
                                   /\ i \in at => toks[i].at = other[i].at
    PROVE  Ats(Selected(toks, at)) = Ats(Selected(other, bt))
<1> DEFINE n == Len(toks)
<1>1. PICK f : SelFolds(f, toks, at)
  BY SelFold
<1>2. PICK g : SelFolds(g, other, bt)
  BY SelFold
<1> DEFINE S == {i \in 0..n : Ats(g[i]) = Ats(f[i])}
<1>3. n \in Nat /\ Len(other) = n
  OBVIOUS
<1>4. /\ f \in [0..n -> Seq(Tokens)] /\ f[0] = << >>
      /\ \A i \in 1..n : f[i] = IF i \in at THEN Append(f[i - 1], toks[i]) ELSE f[i - 1]
      /\ Selected(toks, at) = f[n]
  BY <1>1 DEF SelFolds, n
<1>5. /\ g \in [0..n -> Seq(Tokens)] /\ g[0] = << >>
      /\ \A i \in 1..n : g[i] = IF i \in bt THEN Append(g[i - 1], other[i]) ELSE g[i - 1]
      /\ Selected(other, bt) = g[n]
  BY <1>2, <1>3 DEF SelFolds
<1> HIDE DEF n
<1>7. \A i \in 0..n : i \in S
  <2>1. 0 \in S
    BY <1>3, <1>4, <1>5
  <2>2. ASSUME NEW i \in 0..n, i < n, i \in S PROVE i + 1 \in S
    <3>1. i + 1 \in 1..n /\ (i + 1) - 1 = i /\ i + 1 \in 0..n
      BY <1>3, <2>2
    <3>2. f[i + 1] = IF i + 1 \in at THEN Append(f[i], toks[i + 1]) ELSE f[i]
      BY <1>4, <3>1
    <3>3. g[i + 1] = IF i + 1 \in bt THEN Append(g[i], other[i + 1]) ELSE g[i]
      BY <1>5, <3>1
    <3>4. /\ i + 1 \in at <=> i + 1 \in bt
          /\ i + 1 \in at => toks[i + 1].at = other[i + 1].at
          /\ toks[i + 1] \in Tokens /\ other[i + 1] \in Tokens
      BY <1>3, <3>1 DEF n
    <3>5. f[i] \in Seq(Tokens) /\ g[i] \in Seq(Tokens) /\ Ats(g[i]) = Ats(f[i])
      BY <1>4, <1>5, <2>2
    <3>6. Ats(g[i + 1]) = Ats(f[i + 1])
      <4>1. \A s \in Seq(Tokens), t \in Tokens : Ats(Append(s, t)) = Append(Ats(s), t.at)
        BY AtsAppend, TokenAts
      <4>2. CASE i + 1 \in at
        <5>1. f[i + 1] = Append(f[i], toks[i + 1]) /\ g[i + 1] = Append(g[i], other[i + 1])
          BY <3>2, <3>3, <3>4, <4>2
        <5>2. Ats(f[i + 1]) = Append(Ats(f[i]), toks[i + 1].at)
          BY <3>4, <3>5, <4>1, <5>1
        <5>3. Ats(g[i + 1]) = Append(Ats(g[i]), other[i + 1].at)
          BY <3>4, <3>5, <4>1, <5>1
        <5> QED
          BY <3>4, <3>5, <4>2, <5>2, <5>3
      <4>3. CASE i + 1 \notin at
        BY <3>2, <3>3, <3>4, <3>5, <4>3
      <4> QED
        BY <4>2, <4>3
    <3> QED
      BY <3>1, <3>6
  <2> HIDE DEF S
  <2> QED
    BY <1>3, <2>1, <2>2, UpTo
<1>8. n \in S
  BY <1>3, <1>7
<1> QED
  BY <1>4, <1>5, <1>8

\* A longer end makes a longer whole.
LEMMA ConcatAppend ==
    ASSUME NEW R, NEW s \in Seq(R), NEW u \in Seq(R), NEW t \in R
    PROVE  s \o Append(u, t) = Append(s \o u, t)
<1> DEFINE v == <<t>>
<1>1. /\ s \o u \in Seq(R) /\ v \in Seq(R)
  BY ConcatProperties
<1>2. Append(u, t) = u \o v /\ Append(s \o u, t) = (s \o u) \o v
  BY <1>1, AppendIsConcat
<1> HIDE DEF v
<1>3. (s \o u) \o v = s \o (u \o v)
  BY <1>1, ConcatAssociative
<1> QED
  BY <1>2, <1>3

\* What is selected at places that all come before others, and then those.
LEMMA SelConcat ==
    ASSUME NEW toks \in Seq(Tokens), NEW A \in SUBSET Nat, NEW B \in SUBSET Nat,
           \A a \in A, b \in B : a < b
    PROVE  Selected(toks, A \cup B) = Selected(toks, A) \o Selected(toks, B)
<1> DEFINE n == Len(toks)
           AB == A \cup B
<1>1. PICK f : SelFolds(f, toks, AB)
  BY SelFold
<1>2. PICK g : SelFolds(g, toks, A)
  BY SelFold
<1>3. PICK h : SelFolds(h, toks, B)
  BY SelFold
<1> DEFINE P(i) == f[i] = g[i] \o h[i] /\ ((\E a \in A : a > i) => h[i] = << >>)
           S == {i \in 0..n : P(i)}
<1>4. n \in Nat
  OBVIOUS
<1>5. /\ f[0] = << >>
      /\ \A i \in 1..n : f[i] = IF i \in AB THEN Append(f[i - 1], toks[i]) ELSE f[i - 1]
      /\ Selected(toks, AB) = f[n]
  BY <1>1 DEF SelFolds
<1>6. /\ g \in [0..n -> Seq(Tokens)] /\ g[0] = << >>
      /\ \A i \in 1..n : g[i] = IF i \in A THEN Append(g[i - 1], toks[i]) ELSE g[i - 1]
      /\ Selected(toks, A) = g[n]
  BY <1>2 DEF SelFolds
<1>7. /\ h \in [0..n -> Seq(Tokens)] /\ h[0] = << >>
      /\ \A i \in 1..n : h[i] = IF i \in B THEN Append(h[i - 1], toks[i]) ELSE h[i - 1]
      /\ Selected(toks, B) = h[n]
  BY <1>3 DEF SelFolds
<1>8. \A i \in 1..n : toks[i] \in Tokens
  OBVIOUS
<1> HIDE DEF n
<1>9. \A i \in 0..n : i \in S
  <2>1. 0 \in S
    <3>1. << >> \in Seq(Tokens) /\ << >> \o << >> = << >>
      BY EmptySeq, ConcatEmptySeq
    <3>2. f[0] = g[0] \o h[0] /\ h[0] = << >>
      BY <1>5, <1>6, <1>7, <3>1
    <3>3. P(0)
      BY <3>2
    <3> HIDE DEF P
    <3> QED
      BY <1>4, <3>3
  <2>2. ASSUME NEW i \in 0..n, i < n, i \in S PROVE i + 1 \in S
    <3>1. i + 1 \in 1..n /\ (i + 1) - 1 = i /\ i + 1 \in 0..n /\ i \in Nat
      BY <1>4, <2>2
    <3>2. f[i + 1] = IF i + 1 \in AB THEN Append(f[i], toks[i + 1]) ELSE f[i]
      BY <1>5, <3>1
    <3>3. g[i + 1] = IF i + 1 \in A THEN Append(g[i], toks[i + 1]) ELSE g[i]
      BY <1>6, <3>1
    <3>4. h[i + 1] = IF i + 1 \in B THEN Append(h[i], toks[i + 1]) ELSE h[i]
      BY <1>7, <3>1
    <3>5. g[i] \in Seq(Tokens) /\ h[i] \in Seq(Tokens) /\ toks[i + 1] \in Tokens
      BY <1>6, <1>7, <1>8, <3>1
    <3>6. f[i] = g[i] \o h[i] /\ ((\E a \in A : a > i) => h[i] = << >>)
      <4>1. P(i)
        <5> HIDE DEF P
        <5> QED
          BY <2>2
      <4> QED
        BY <4>1
    <3>7. (\E a \in A : a > i + 1) => i + 1 \notin B /\ (\E a \in A : a > i)
      <4>1. ASSUME NEW a \in A, a > i + 1 PROVE i + 1 \notin B /\ a > i
        <5>1. a \in Nat
          OBVIOUS
        <5>2. i + 1 \in B => a < i + 1
          OBVIOUS
        <5> QED
          BY <3>1, <4>1, <5>1, <5>2
      <4> QED
        BY <4>1
    <3>8. ASSUME i + 1 \in A PROVE P(i + 1)
      <4>1. i + 1 \notin B
        <5>1. i + 1 \in B => i + 1 < i + 1
          BY <3>8
        <5> QED
          BY <3>1, <5>1
      <4>2. h[i] = << >>
        <5>1. i + 1 > i
          BY <3>1
        <5> QED
          BY <3>6, <3>8, <5>1
      <4>3. g[i] \o << >> = g[i] /\ Append(g[i], toks[i + 1]) \o << >> = Append(g[i], toks[i + 1])
        <5>1. Append(g[i], toks[i + 1]) \in Seq(Tokens)
          BY <3>5, AppendProperties
        <5> QED
          BY <3>5, <5>1, ConcatEmptySeq
      <4> QED
        BY <3>2, <3>3, <3>4, <3>6, <3>8, <4>1, <4>2, <4>3
    <3>9. ASSUME i + 1 \notin A, i + 1 \in B PROVE P(i + 1)
      <4>1. g[i] \o Append(h[i], toks[i + 1]) = Append(g[i] \o h[i], toks[i + 1])
        <5>1. \A s, u \in Seq(Tokens), t \in Tokens : s \o Append(u, t) = Append(s \o u, t)
          BY ConcatAppend
        <5> QED
          BY <3>5, <5>1
      <4>2. f[i + 1] = g[i + 1] \o h[i + 1]
        BY <3>2, <3>3, <3>4, <3>6, <3>9, <4>1
      <4> QED
        BY <3>7, <3>9, <4>2
    <3>10. ASSUME i + 1 \notin A, i + 1 \notin B PROVE P(i + 1)
      BY <3>2, <3>3, <3>4, <3>6, <3>7, <3>10
    <3>11. P(i + 1)
      <4> HIDE DEF P
      <4> QED
        BY <3>8, <3>9, <3>10
    <3> HIDE DEF P
    <3> QED
      BY <3>1, <3>11
  <2> HIDE DEF S
  <2> QED
    BY <1>4, <2>1, <2>2, UpTo
<1>10. P(n)
  <2> HIDE DEF P
  <2> QED
    BY <1>4, <1>9
<1> QED
  BY <1>5, <1>6, <1>7, <1>10

LEMMA LenStep ==
    ASSUME NEW s \in Seq(Tokens), NEW u \in Seq(Tokens), NEW v \in Seq(Tokens),
           NEW t \in Tokens, Len(s) = Len(u) + Len(v)
    PROVE  /\ Len(Append(s, t)) = Len(Append(u, t)) + Len(v)
           /\ Len(Append(s, t)) = Len(u) + Len(Append(v, t))
<1>1. /\ Len(Append(s, t)) = Len(s) + 1 /\ Len(Append(u, t)) = Len(u) + 1
      /\ Len(Append(v, t)) = Len(v) + 1
  <2>1. \A a \in Seq(Tokens) : Len(Append(a, t)) = Len(a) + 1
    BY AppendProperties
  <2> QED
    BY <2>1
<1>2. Len(s) \in Nat /\ Len(u) \in Nat /\ Len(v) \in Nat
  OBVIOUS
<1> QED
  BY <1>1, <1>2

\* The lengths of selections without a common place add up.
LEMMA SelLen ==
    ASSUME NEW toks \in Seq(Tokens), NEW A, NEW B,
           \A i \in 1..Len(toks) : ~(i \in A /\ i \in B)
    PROVE  Len(Selected(toks, A \cup B)) = Len(Selected(toks, A)) + Len(Selected(toks, B))
<1> DEFINE n == Len(toks)
           AB == A \cup B
<1>1. PICK f : SelFolds(f, toks, AB)
  BY SelFold
<1>2. PICK g : SelFolds(g, toks, A)
  BY SelFold
<1>3. PICK h : SelFolds(h, toks, B)
  BY SelFold
<1> DEFINE P(i) == Len(f[i]) = Len(g[i]) + Len(h[i])
           S == {i \in 0..n : P(i)}
<1>4. n \in Nat
  OBVIOUS
<1>5. /\ f \in [0..n -> Seq(Tokens)] /\ f[0] = << >>
      /\ \A i \in 1..n : f[i] = IF i \in AB THEN Append(f[i - 1], toks[i]) ELSE f[i - 1]
      /\ Selected(toks, AB) = f[n]
  BY <1>1 DEF SelFolds
<1>6. /\ g \in [0..n -> Seq(Tokens)] /\ g[0] = << >>
      /\ \A i \in 1..n : g[i] = IF i \in A THEN Append(g[i - 1], toks[i]) ELSE g[i - 1]
      /\ Selected(toks, A) = g[n]
  BY <1>2 DEF SelFolds
<1>7. /\ h \in [0..n -> Seq(Tokens)] /\ h[0] = << >>
      /\ \A i \in 1..n : h[i] = IF i \in B THEN Append(h[i - 1], toks[i]) ELSE h[i - 1]
      /\ Selected(toks, B) = h[n]
  BY <1>3 DEF SelFolds
<1>8. \A i \in 1..n : toks[i] \in Tokens /\ ~(i \in A /\ i \in B)
  OBVIOUS
<1> HIDE DEF n
<1>9. \A i \in 0..n : i \in S
  <2>1. 0 \in S
    <3>1. Len(<< >>) = 0
      BY EmptySeq
    <3>2. P(0)
      BY <1>5, <1>6, <1>7, <3>1
    <3> HIDE DEF P
    <3> QED
      BY <1>4, <3>2
  <2>2. ASSUME NEW i \in 0..n, i < n, i \in S PROVE i + 1 \in S
    <3>1. i + 1 \in 1..n /\ (i + 1) - 1 = i /\ i + 1 \in 0..n /\ i \in Nat
      BY <1>4, <2>2
    <3> DEFINE t == toks[i + 1]
    <3>2. f[i + 1] = IF i + 1 \in AB THEN Append(f[i], t) ELSE f[i]
      BY <1>5, <3>1
    <3>3. g[i + 1] = IF i + 1 \in A THEN Append(g[i], t) ELSE g[i]
      BY <1>6, <3>1
    <3>4. h[i + 1] = IF i + 1 \in B THEN Append(h[i], t) ELSE h[i]
      BY <1>7, <3>1
    <3>5. f[i] \in Seq(Tokens) /\ g[i] \in Seq(Tokens) /\ h[i] \in Seq(Tokens) /\ t \in Tokens
      BY <1>5, <1>6, <1>7, <1>8, <3>1
    <3> HIDE DEF t
    <3>8. Len(f[i]) = Len(g[i]) + Len(h[i])
      <4>1. P(i)
        <5> HIDE DEF P
        <5> QED
          BY <2>2
      <4> QED
        BY <4>1
    <3>6. /\ Len(Append(f[i], t)) = Len(Append(g[i], t)) + Len(h[i])
          /\ Len(Append(f[i], t)) = Len(g[i]) + Len(Append(h[i], t))
      <4>1. \A a, b, c \in Seq(Tokens), d \in Tokens : Len(a) = Len(b) + Len(c) =>
                /\ Len(Append(a, d)) = Len(Append(b, d)) + Len(c)
                /\ Len(Append(a, d)) = Len(b) + Len(Append(c, d))
        BY LenStep
      <4> DEFINE a == f[i]
                 b == g[i]
                 c == h[i]
      <4>2. /\ a \in Seq(Tokens) /\ b \in Seq(Tokens) /\ c \in Seq(Tokens) /\ t \in Tokens
            /\ Len(a) = Len(b) + Len(c)
        BY <3>5, <3>8
      <4>3. /\ Len(Append(a, t)) = Len(Append(b, t)) + Len(c)
            /\ Len(Append(a, t)) = Len(b) + Len(Append(c, t))
        <5> HIDE DEF a, b, c
        <5> QED
          BY <4>1, <4>2
      <4> QED
        BY <4>3
    <3>9. ASSUME i + 1 \in A PROVE P(i + 1)
      <4>1. i + 1 \notin B
        BY <1>8, <3>1, <3>9
      <4>2. f[i + 1] = Append(f[i], t) /\ g[i + 1] = Append(g[i], t) /\ h[i + 1] = h[i]
        BY <3>2, <3>3, <3>4, <3>9, <4>1
      <4> QED
        BY <3>6, <4>2
    <3>10. ASSUME i + 1 \notin A, i + 1 \in B PROVE P(i + 1)
      <4>1. f[i + 1] = Append(f[i], t) /\ g[i + 1] = g[i] /\ h[i + 1] = Append(h[i], t)
        BY <3>2, <3>3, <3>4, <3>10
      <4> QED
        BY <3>6, <4>1
    <3>11. ASSUME i + 1 \notin A, i + 1 \notin B PROVE P(i + 1)
      <4>1. f[i + 1] = f[i] /\ g[i + 1] = g[i] /\ h[i + 1] = h[i]
        BY <3>2, <3>3, <3>4, <3>11
      <4> QED
        BY <3>8, <4>1
    <3>12. P(i + 1)
      <4> HIDE DEF P
      <4> QED
        BY <3>9, <3>10, <3>11
    <3> HIDE DEF P
    <3> QED
      BY <3>1, <3>12
  <2> HIDE DEF S
  <2> QED
    BY <1>4, <2>1, <2>2, UpTo
<1>10. P(n)
  <2> HIDE DEF P
  <2> QED
    BY <1>4, <1>9
<1> QED
  BY <1>5, <1>6, <1>7, <1>10

\* A selection is a sequence of tokens; only the places of the text count.
LEMMA SelTyped ==
    ASSUME NEW toks \in Seq(Tokens), NEW A, NEW B,
           \A i \in 1..Len(toks) : i \in A <=> i \in B
    PROVE  Selected(toks, A) \in Seq(Tokens) /\ Selected(toks, A) = Selected(toks, B)
<1>1. PICK f : SelFolds(f, toks, A)
  BY SelFold
<1>2. PICK g : SelFolds(g, toks, B)
  BY SelFold
<1> DEFINE n == Len(toks)
           S == {i \in 0..n : f[i] = g[i]}
<1>3. n \in Nat
  OBVIOUS
<1>4. /\ f \in [0..n -> Seq(Tokens)] /\ f[0] = << >>
      /\ \A i \in 1..n : f[i] = IF i \in A THEN Append(f[i - 1], toks[i]) ELSE f[i - 1]
      /\ Selected(toks, A) = f[n]
  BY <1>1 DEF SelFolds
<1>5. /\ g[0] = << >>
      /\ \A i \in 1..n : g[i] = IF i \in B THEN Append(g[i - 1], toks[i]) ELSE g[i - 1]
      /\ Selected(toks, B) = g[n]
  BY <1>2 DEF SelFolds
<1>6. \A i \in 1..n : i \in A <=> i \in B
  OBVIOUS
<1> HIDE DEF n
<1>7. \A i \in 0..n : i \in S
  <2>1. 0 \in S
    BY <1>3, <1>4, <1>5
  <2>2. ASSUME NEW i \in 0..n, i < n, i \in S PROVE i + 1 \in S
    <3>1. i + 1 \in 1..n /\ (i + 1) - 1 = i /\ i + 1 \in 0..n
      BY <1>3, <2>2
    <3>2. f[i + 1] = IF i + 1 \in A THEN Append(f[i], toks[i + 1]) ELSE f[i]
      BY <1>4, <3>1
    <3>3. g[i + 1] = IF i + 1 \in B THEN Append(g[i], toks[i + 1]) ELSE g[i]
      BY <1>5, <3>1
    <3> QED
      BY <1>6, <2>2, <3>1, <3>2, <3>3
  <2> HIDE DEF S
  <2> QED
    BY <1>3, <2>1, <2>2, UpTo
<1>8. n \in S /\ f[n] \in Seq(Tokens)
  BY <1>3, <1>4, <1>7
<1> QED
  BY <1>4, <1>5, <1>8

\* Nothing is selected where no place of the text is.
LEMMA SelEmpty ==
    ASSUME NEW toks \in Seq(Tokens)
    PROVE  Selected(toks, {}) = << >>
<1>1. PICK f : SelFolds(f, toks, {})
  BY SelFold
<1> DEFINE n == Len(toks)
           S == {i \in 0..n : f[i] = << >>}
<1>2. n \in Nat
  OBVIOUS
<1>3. f[0] = << >> /\ (\A i \in 1..n : f[i] = f[i - 1]) /\ Selected(toks, {}) = f[n]
  BY <1>1 DEF SelFolds
<1> HIDE DEF n
<1>4. \A i \in 0..n : i \in S
  <2>1. 0 \in S
    BY <1>2, <1>3
  <2>2. ASSUME NEW i \in 0..n, i < n, i \in S PROVE i + 1 \in S
    <3>1. i + 1 \in 1..n /\ (i + 1) - 1 = i /\ i + 1 \in 0..n
      BY <1>2, <2>2
    <3> QED
      BY <1>3, <2>2, <3>1
  <2> HIDE DEF S
  <2> QED
    BY <1>2, <2>1, <2>2, UpTo
<1>5. n \in S
  BY <1>2, <1>4
<1> QED
  BY <1>3, <1>5

-------------------------------------------------------------------------------
(* The operators that were read.                                           *)

\* the operators that were read, not made by the alias
Typed(toks) == {i \in Ops(toks) : toks[i].at # Nowhere}

\* their places
Reading(toks) == Ats(Selected(toks, Typed(toks)))

\* an operator has no word, and will have none
Broken(l) == \E i \in Ops(l.out) : l.out[i].delim = << >> /\ ~(l.open /\ i = Len(l.out))

\* an operator that was read has its word and a newline after it
Early(l) == \E i \in Typed(l.out), j \in DOMAIN l.out :
               i < j /\ l.out[i].delim # << >> /\ l.out[j].k = "\n"

\* The fields of a token.
LEMMA TokenFields ==
    ASSUME NEW t \in Tokens
    PROVE  t.at \in Places /\ t.delim \in Seq(Letters) /\ t.k \in Kinds
BY DEF Tokens, Kinds

\* A word that goes on changes nothing but the last delimiter.
LEMMA GrownTokens ==
    ASSUME NEW ops \in Seq(Tokens), ops # << >>, NEW t \in Letters
    PROVE  /\ Grown(ops, t) \in Seq(Tokens) /\ Len(Grown(ops, t)) = Len(ops)
           /\ \A i \in 1..Len(ops) :
                 /\ Grown(ops, t)[i].k = ops[i].k /\ Grown(ops, t)[i].at = ops[i].at
                 /\ i # Len(ops) => Grown(ops, t)[i] = ops[i]
           /\ Grown(ops, t)[Len(ops)].delim # << >>
<1> DEFINE r == ops[Len(ops)]
           e == Append(r.delim, t)
           s == [r EXCEPT !.delim = e]
<1>1. r \in Tokens
  OBVIOUS
<1>2. e \in Seq(Letters) /\ e # << >>
  <2>1. r.delim \in Seq(Letters)
    BY <1>1, TokenFields
  <2> HIDE DEF r
  <2> QED
    BY <2>1, AppendProperties
<1>3. s \in Tokens /\ s.k = r.k /\ s.at = r.at /\ s.delim = e
  <2> HIDE DEF e, r
  <2> QED
    BY <1>1, <1>2 DEF Tokens
<1>4. s = [ops[Len(ops)] EXCEPT !.delim = Append(@, t)]
  OBVIOUS
<1> HIDE DEF s, e, r
<1>5. /\ Grown(ops, t) \in Seq(Tokens) /\ Len(Grown(ops, t)) = Len(ops)
      /\ Grown(ops, t)[Len(ops)] = s
      /\ \A i \in DOMAIN ops : i # Len(ops) => Grown(ops, t)[i] = ops[i]
  BY <1>3, <1>4, GrownIs
<1>6. \A i \in 1..Len(ops) : /\ Grown(ops, t)[i].k = ops[i].k
                             /\ Grown(ops, t)[i].at = ops[i].at
  <2>1. ASSUME NEW i \in 1..Len(ops)
        PROVE  Grown(ops, t)[i].k = ops[i].k /\ Grown(ops, t)[i].at = ops[i].at
    <3>1. CASE i = Len(ops)
      BY <1>3, <1>5, <3>1 DEF r
    <3>2. CASE i # Len(ops)
      BY <1>5, <3>2
    <3> QED
      BY <3>1, <3>2
  <2> QED
    BY <2>1
<1> QED
  BY <1>2, <1>3, <1>5, <1>6

\* What a longer text has read.
LEMMA ReadingAppend ==
    ASSUME NEW toks \in Seq(Tokens), NEW t \in Tokens
    PROVE  /\ Reading(toks) \in Seq(Places)
           /\ t.k = "op" /\ t.at # Nowhere =>
                 Reading(Append(toks, t)) = Append(Reading(toks), t.at)
           /\ ~(t.k = "op" /\ t.at # Nowhere) => Reading(Append(toks, t)) = Reading(toks)
<1> DEFINE n == Len(toks)
           u == Append(toks, t)
           A == Typed(toks)
           B == Typed(u)
<1>1. /\ u \in Seq(Tokens) /\ Len(u) = n + 1 /\ u[n + 1] = t
      /\ \A i \in 1..n : u[i] = toks[i]
  BY AppendProperties
<1>2. /\ \A i \in 1..n : i \in A <=> i \in B
      /\ n + 1 \in B <=> t.k = "op" /\ t.at # Nowhere
  <2>1. n \in Nat /\ DOMAIN toks = 1..n
    OBVIOUS
  <2> HIDE DEF u
  <2>2. DOMAIN u = 1..(n + 1)
    BY <1>1
  <2>3. n + 1 \in 1..(n + 1) /\ \A i \in 1..n : i \in 1..(n + 1)
    BY <2>1
  <2> HIDE DEF n
  <2> QED
    BY <1>1, <2>1, <2>2, <2>3 DEF Typed, Ops
<1> HIDE DEF A, B
<1>3. /\ Selected(toks, A) \in Seq(Tokens)
      /\ n + 1 \in B => Selected(u, B) = Append(Selected(toks, A), t)
      /\ n + 1 \notin B => Selected(u, B) = Selected(toks, A)
  BY <1>2, SelAppend
<1>4. Ats(Selected(toks, A)) \in Seq(Places)
  BY <1>3, AtsIs, TokenAts
<1>5. Ats(Append(Selected(toks, A), t)) = Append(Ats(Selected(toks, A)), t.at)
  BY <1>3, AtsAppend, TokenAts
<1>6. Reading(toks) = Ats(Selected(toks, A)) /\ Reading(u) = Ats(Selected(u, B))
  BY DEF Reading, A, B
<1> HIDE DEF n, u
<1>7. /\ t.k = "op" /\ t.at # Nowhere => Reading(u) = Append(Reading(toks), t.at)
      /\ ~(t.k = "op" /\ t.at # Nowhere) => Reading(u) = Reading(toks)
  BY <1>2, <1>3, <1>5, <1>6
<1> QED
  BY <1>4, <1>6, <1>7 DEF u

LEMMA ReadingGrown ==
    ASSUME NEW ops \in Seq(Tokens), ops # << >>, NEW t \in Letters
    PROVE  Reading(Grown(ops, t)) = Reading(ops)
<1> DEFINE u == Grown(ops, t)
<1>1. /\ u \in Seq(Tokens) /\ Len(u) = Len(ops)
      /\ \A i \in 1..Len(ops) : u[i].k = ops[i].k /\ u[i].at = ops[i].at
  BY GrownTokens
<1> HIDE DEF u
<1>2. \A i \in 1..Len(ops) : /\ i \in Typed(u) <=> i \in Typed(ops)
                             /\ i \in Typed(u) => u[i].at = ops[i].at
  <2>1. DOMAIN u = 1..Len(ops) /\ DOMAIN ops = 1..Len(ops)
    BY <1>1
  <2> QED
    BY <1>1, <2>1 DEF Typed, Ops
<1>3. Ats(Selected(u, Typed(u))) = Ats(Selected(ops, Typed(ops)))
  <2>1. \A i \in 1..Len(u) : /\ i \in Typed(u) <=> i \in Typed(ops)
                             /\ i \in Typed(u) => u[i].at = ops[i].at
    BY <1>1, <1>2
  <2> QED
    BY <1>1, <2>1, SelAlike
<1> QED
  BY <1>3 DEF Reading, u

\* One piece adds at most the place of an operator, its own.
LEMMA ReadingPiece ==
    ASSUME NEW l, LexOK(l), NEW x \in Chars
    PROVE  /\ Reading(l.out) \in Seq(Places)
           /\ \/ Reading(LexPiece(l, x).out) = Reading(l.out)
              \/ /\ x.t \in Operators
                 /\ Reading(LexPiece(l, x).out) = Append(Reading(l.out), x.at)
<1> DEFINE m == LexPiece(l, x)
<1>1. LexOK(m) /\ Shapes(l, m, x)
  BY LexPieceShape
<1> DEFINE Goal == \/ Reading(m.out) = Reading(l.out)
                   \/ x.t \in Operators /\ Reading(m.out) = Append(Reading(l.out), x.at)
<1> HIDE DEF m
<1>2. l.out \in Seq(Tokens)
  BY LexFields DEF LexOK
<1>3. Reading(l.out) \in Seq(Places)
  <2>1. Selected(l.out, Typed(l.out)) \in Seq(Tokens)
    BY <1>2, SelTyped
  <2>2. Ats(Selected(l.out, Typed(l.out))) \in Seq(Places)
    BY <2>1, AtsIs, TokenAts
  <2> QED
    BY <2>2 DEF Reading
<1>4. ASSUME Nothing(l, m) PROVE Goal
  BY <1>4 DEF Nothing
<1>5. ASSUME OneMore(l, m, x) PROVE Goal
  <2>1. PICK t \in Tokens : /\ m.out = Append(l.out, t)
                            /\ t.k = "op" => x.t \in Operators /\ t.at = x.at
    BY <1>5 DEF OneMore
  <2> QED
    BY <1>2, <2>1, ReadingAppend
<1>6. ASSUME Longer(l, m, x) PROVE Goal
  <2>1. l.out # << >> /\ x.t \in Letters /\ m.out = Grown(l.out, x.t)
    BY <1>6 DEF Longer, LexOK
  <2> QED
    BY <1>2, <2>1, ReadingGrown
<1>7. ASSUME Aliased(l, m, x) PROVE Goal
  <2>1. PICK a, b \in Tokens : /\ m.out = Append(Append(l.out, a), b)
                               /\ a.k = "w" /\ b.at = Nowhere
    BY <1>7 DEF Aliased
  <2>2. Append(l.out, a) \in Seq(Tokens)
    BY <1>2, AppendProperties
  <2>3. Reading(Append(l.out, a)) = Reading(l.out)
    <3>1. a.k # "op"
      BY <2>1
    <3> QED
      BY <1>2, <3>1, ReadingAppend
  <2>4. Reading(m.out) = Reading(Append(l.out, a))
    BY <2>1, <2>2, ReadingAppend
  <2> QED
    BY <2>3, <2>4
<1>8. Goal
  <2> HIDE DEF Goal
  <2> QED
    BY <1>1, <1>4, <1>5, <1>6, <1>7 DEF Shapes
<1> QED
  BY <1>3, <1>8 DEF m

\* The tokens so far keep their kind, their place and, but for the last, all else.
Keeps(u, v) ==
    /\ u \in Seq(Tokens) /\ v \in Seq(Tokens) /\ Len(u) <= Len(v)
    /\ \A i \in 1..Len(u) : /\ v[i].k = u[i].k /\ v[i].at = u[i].at
                            /\ i # Len(u) => v[i] = u[i]

LEMMA AppendKeeps ==
    ASSUME NEW u \in Seq(Tokens), NEW t \in Tokens
    PROVE  /\ Keeps(u, Append(u, t)) /\ Len(Append(u, t)) = Len(u) + 1
           /\ Append(u, t)[Len(u) + 1] = t
           /\ \A i \in 1..Len(u) : Append(u, t)[i] = u[i]
<1> DEFINE v == Append(u, t)
<1>1. /\ v \in Seq(Tokens) /\ Len(v) = Len(u) + 1
      /\ v[Len(u) + 1] = t /\ \A i \in 1..Len(u) : v[i] = u[i]
  BY AppendProperties
<1>2. Len(u) \in Nat
  OBVIOUS
<1> HIDE DEF v
<1>3. Keeps(u, v)
  BY <1>1, <1>2 DEF Keeps
<1> QED
  BY <1>1, <1>3 DEF v

\* What one piece leaves of the tokens before it: the last one may get a longer
\* word, while it is open; what is added is a newline only for a newline.
LEMMA PieceKeeps ==
    ASSUME NEW l, LexOK(l), NEW x \in Chars
    PROVE  /\ Keeps(l.out, LexPiece(l, x).out)
           /\ \A i \in 1..Len(l.out) :
                 \/ LexPiece(l, x).out[i] = l.out[i]
                 \/ l.open /\ LexPiece(l, x).open /\ i = Len(l.out)
                    /\ Len(LexPiece(l, x).out) = Len(l.out)
           /\ \A i \in 1..Len(LexPiece(l, x).out) :
                 LexPiece(l, x).out[i].k = "\n" /\ x.t # "\n" => i \in 1..Len(l.out)
           /\ LexPiece(l, x).open => l.open \/ Len(LexPiece(l, x).out) > Len(l.out)
<1> DEFINE m == LexPiece(l, x)
           u == l.out
           v == m.out
           Goal == /\ Keeps(u, v)
                   /\ \A i \in 1..Len(u) :
                         \/ v[i] = u[i]
                         \/ l.open /\ m.open /\ i = Len(u) /\ Len(v) = Len(u)
                   /\ \A i \in 1..Len(v) : v[i].k = "\n" /\ x.t # "\n" => i \in 1..Len(u)
                   /\ m.open => l.open \/ Len(v) > Len(u)
<1>1. LexOK(m) /\ Shapes(l, m, x)
  BY LexPieceShape
<1>2. u \in Seq(Tokens) /\ Len(u) \in Nat
  <2>1. u \in Seq(Tokens)
    BY LexFields DEF LexOK
  <2> HIDE DEF u
  <2> QED
    BY <2>1
<1> HIDE DEF m, u
<1>3. ASSUME Nothing(l, m) PROVE Goal
  <2>1. v = u /\ (m.open => l.open)
    BY <1>3 DEF Nothing, u
  <2> HIDE DEF v
  <2> QED
    BY <1>2, <2>1 DEF Keeps
<1>4. ASSUME OneMore(l, m, x) PROVE Goal
  <2>1. PICK t \in Tokens : v = Append(u, t) /\ (t.k = "\n" <=> x.t = "\n")
    BY <1>4 DEF OneMore, u
  <2>2. /\ Keeps(u, v) /\ Len(v) = Len(u) + 1 /\ v[Len(u) + 1] = t
        /\ \A i \in 1..Len(u) : v[i] = u[i]
    BY <1>2, <2>1, AppendKeeps
  <2> HIDE DEF v
  <2>3. \A i \in 1..Len(v) : i \in 1..Len(u) \/ i = Len(u) + 1
    BY <1>2, <2>2
  <2>4. Len(v) > Len(u)
    BY <1>2, <2>2
  <2> QED
    BY <2>1, <2>2, <2>3, <2>4
<1>5. ASSUME Longer(l, m, x) PROVE Goal
  <2>1. l.open /\ m.open /\ x.t \in Letters /\ v = Grown(u, x.t) /\ u # << >>
    BY <1>5 DEF Longer, LexOK, u
  <2>2. /\ v \in Seq(Tokens) /\ Len(v) = Len(u)
        /\ \A i \in 1..Len(u) : v[i].k = u[i].k /\ v[i].at = u[i].at
                                /\ (i # Len(u) => v[i] = u[i])
    BY <1>2, <2>1, GrownTokens
  <2> HIDE DEF v
  <2>3. Keeps(u, v)
    BY <1>2, <2>2 DEF Keeps
  <2> QED
    BY <2>1, <2>2, <2>3
<1>6. ASSUME Aliased(l, m, x) PROVE Goal
  <2>1. PICK a, b \in Tokens : /\ v = Append(Append(u, a), b) /\ ~m.open
                               /\ a.k = "w" /\ b.k = "op"
    BY <1>6 DEF Aliased, u
  <2> DEFINE w == Append(u, a)
  <2>2. /\ w \in Seq(Tokens) /\ Len(w) = Len(u) + 1 /\ w[Len(u) + 1] = a
        /\ \A i \in 1..Len(u) : w[i] = u[i]
    BY <1>2, AppendKeeps DEF Keeps
  <2>3. v = Append(w, b)
    BY <2>1
  <2> HIDE DEF w
  <2>4. /\ v \in Seq(Tokens) /\ Len(v) = Len(w) + 1 /\ v[Len(w) + 1] = b
        /\ \A i \in 1..Len(w) : v[i] = w[i]
    BY <2>2, <2>3, AppendKeeps DEF Keeps
  <2> HIDE DEF v
  <2>5. \A i \in 1..Len(v) : i \in 1..Len(u) \/ i = Len(u) + 1 \/ i = Len(w) + 1
    BY <1>2, <2>2, <2>4
  <2>6. v[Len(u) + 1] = a
    <3>1. Len(u) + 1 \in 1..Len(w)
      BY <1>2, <2>2
    <3> QED
      BY <2>2, <2>4, <3>1
  <2>7. \A i \in 1..Len(u) : v[i] = u[i]
    <3>1. \A i \in 1..Len(u) : i \in 1..Len(w)
      BY <1>2, <2>2
    <3> QED
      BY <2>2, <2>4, <3>1
  <2>8. Keeps(u, v)
    <3>1. Len(u) <= Len(v)
      BY <1>2, <2>2, <2>4
    <3> QED
      BY <1>2, <2>4, <2>7, <3>1 DEF Keeps
  <2>9. \A i \in 1..Len(v) : v[i].k = "\n" => i \in 1..Len(u)
    BY <2>1, <2>4, <2>5, <2>6
  <2> QED
    BY <2>1, <2>7, <2>8, <2>9
<1>7. Goal
  <2> HIDE DEF Goal
  <2> QED
    BY <1>1, <1>3, <1>4, <1>5, <1>6 DEF Shapes
<1> QED
  BY <1>7 DEF m, u

\* An operator without a word stays without.
LEMMA BrokenStays ==
    ASSUME NEW l, LexOK(l), Broken(l), NEW x \in Chars
    PROVE  Broken(LexPiece(l, x))
<1> DEFINE m == LexPiece(l, x)
<1>1. /\ Keeps(l.out, m.out)
      /\ \A i \in 1..Len(l.out) :
            \/ m.out[i] = l.out[i]
            \/ l.open /\ m.open /\ i = Len(l.out) /\ Len(m.out) = Len(l.out)
      /\ m.open => l.open \/ Len(m.out) > Len(l.out)
  BY PieceKeeps
<1> HIDE DEF m
<1>2. PICK i \in Ops(l.out) : l.out[i].delim = << >> /\ ~(l.open /\ i = Len(l.out))
  BY DEF Broken
<1>3. /\ i \in 1..Len(l.out) /\ i \in 1..Len(m.out) /\ l.out[i].k = "op"
      /\ Len(l.out) \in Nat /\ Len(m.out) \in Nat
  BY <1>1, <1>2 DEF Keeps, Ops
<1>4. m.out[i] = l.out[i]
  BY <1>1, <1>2, <1>3
<1>5. i \in Ops(m.out)
  <2>1. i \in DOMAIN m.out
    BY <1>1, <1>3 DEF Keeps
  <2> QED
    BY <1>3, <1>4, <2>1 DEF Ops
<1>6. ~(m.open /\ i = Len(m.out))
  <2>1. ASSUME m.open, i = Len(m.out) PROVE FALSE
    <3>1. Len(m.out) = Len(l.out)
      BY <1>1, <1>3, <2>1 DEF Keeps
    <3>2. l.open
      BY <1>1, <1>3, <2>1, <3>1
    <3> QED
      BY <1>2, <2>1, <3>1, <3>2
  <2> QED
    BY <2>1
<1>7. Broken(m)
  BY <1>2, <1>4, <1>5, <1>6 DEF Broken
<1> QED
  BY <1>7 DEF m

\* An operator with its word and a newline after it keeps them.
LEMMA EarlyStays ==
    ASSUME NEW l, LexOK(l), Early(l), NEW x \in Chars
    PROVE  Early(LexPiece(l, x))
<1> DEFINE m == LexPiece(l, x)
<1>1. Keeps(l.out, m.out)
  BY PieceKeeps
<1> HIDE DEF m
<1>2. PICK i \in Typed(l.out), j \in DOMAIN l.out :
         i < j /\ l.out[i].delim # << >> /\ l.out[j].k = "\n"
  BY DEF Early
<1>3. /\ i \in 1..Len(l.out) /\ j \in 1..Len(l.out) /\ Len(l.out) \in Nat
      /\ i \in 1..Len(m.out) /\ j \in 1..Len(m.out) /\ Len(m.out) \in Nat
      /\ DOMAIN m.out = 1..Len(m.out)
  BY <1>1, <1>2 DEF Keeps, Typed, Ops
<1>4. m.out[i] = l.out[i] /\ m.out[j].k = "\n"
  <2>1. i # Len(l.out)
    BY <1>2, <1>3
  <2> QED
    BY <1>1, <1>2, <1>3, <2>1 DEF Keeps
<1>5. i \in Typed(m.out)
  BY <1>2, <1>3, <1>4 DEF Typed, Ops
<1>6. Early(m)
  BY <1>2, <1>3, <1>4, <1>5 DEF Early
<1> QED
  BY <1>6 DEF m

\* Only a newline makes the line after an operator begin.
LEMMA EarlyNew ==
    ASSUME NEW l, LexOK(l), NEW x \in Chars, x.t # "\n", Early(LexPiece(l, x))
    PROVE  Early(l)
<1> DEFINE m == LexPiece(l, x)
<1>1. /\ Keeps(l.out, m.out)
      /\ \A i \in 1..Len(m.out) : m.out[i].k = "\n" => i \in 1..Len(l.out)
  BY PieceKeeps
<1>2. PICK i \in Typed(m.out), j \in DOMAIN m.out :
         i < j /\ m.out[i].delim # << >> /\ m.out[j].k = "\n"
  BY DEF Early
<1> HIDE DEF m
<1>3. /\ i \in 1..Len(m.out) /\ j \in 1..Len(m.out) /\ Len(l.out) \in Nat
      /\ DOMAIN l.out = 1..Len(l.out)
  BY <1>1, <1>2 DEF Keeps, Typed, Ops
<1>4. j \in 1..Len(l.out) /\ i \in 1..Len(l.out) /\ i # Len(l.out)
  <2>1. j \in 1..Len(l.out)
    BY <1>1, <1>2, <1>3
  <2> QED
    BY <1>2, <1>3, <2>1
<1>5. m.out[i] = l.out[i] /\ l.out[j].k = "\n"
  BY <1>1, <1>2, <1>4 DEF Keeps
<1>6. i \in Typed(l.out)
  BY <1>2, <1>3, <1>4, <1>5 DEF Typed, Ops
<1> QED
  BY <1>2, <1>3, <1>4, <1>5, <1>6 DEF Early

-------------------------------------------------------------------------------
(* The scanner and the lexer side by side.                                 *)

\* What the lexer does with a piece in quotes,
LEMMA InQuotes ==
    ASSUME NEW l, LexOK(l), l.q # "none", l.sub = 0, NEW x \in Chars, x.t # "$("
    PROVE  /\ LexPiece(l, x).sub = 0 /\ ~LexPiece(l, x).note /\ ~LexPiece(l, x).open
           /\ ~l.note /\ ~l.open
           /\ LexPiece(l, x).q = IF x.t = l.q THEN "none" ELSE l.q
           /\ LexPiece(l, x).out = l.out
<1>1. l \in Lexes /\ ~l.note /\ ~l.open /\ l.q \in Quotes
  BY LexFields DEF LexOK
<1>2. LexPiece(l, x) = LexInside(l, x)
  BY <1>1 DEF LexPiece
<1>3. CASE x.t \in Quotes /\ l.q = x.t
  <2>1. LexInside(l, x) = [l EXCEPT !.q = "none"]
    BY <1>1, <1>3 DEF LexInside, Quotes
  <2> QED
    BY <1>1, <1>2, <1>3, <2>1, SetQuote DEF WithIn
<1>4. CASE ~(x.t \in Quotes /\ l.q = x.t)
  <2>1. LexInside(l, x) = l
    <3>1. CASE x.t \in Quotes
      <4>1. LexInside(l, x) = [l EXCEPT !.q = l.q]
        BY <1>1, <1>4, <3>1 DEF LexInside, Quotes
      <4> QED
        BY <1>1, <4>1 DEF Lexes
    <3>2. CASE x.t \notin Quotes
      <4>1. ~(x.t \in {"(", "$("} /\ l.q # "sq" /\ (x.t = "$(" \/ l.sub > 0))
            /\ ~(x.t = ")" /\ l.q # "sq" /\ l.sub > 0)
        OBVIOUS
      <4> QED
        BY <3>2, <4>1 DEF LexInside
    <3> QED
      BY <3>1, <3>2
  <2> QED
    BY <1>1, <1>2, <1>4, <2>1
<1> QED
  BY <1>3, <1>4

\* and outside.
LEMMA OutQuotes ==
    ASSUME NEW l, LexOK(l), l.q = "none", l.sub = 0, ~l.note, NEW x \in Chars, x.t # "$("
    PROVE  /\ LexPiece(l, x).sub = 0 /\ (LexPiece(l, x).note <=> x.t = "#")
           /\ LexPiece(l, x).q = IF x.t \in Quotes THEN x.t ELSE "none"
           /\ LexPiece(l, x).open <=> (x.t \in Operators \/ (x.t \in Letters /\ l.open))
           /\ x.t \in Operators => LexPiece(l, x).out = Append(l.out, Token("op", x))
           /\ x.t \in Letters /\ l.open => LexPiece(l, x).out = Grown(l.out, x.t)
           /\ x.t = "\n" => LexPiece(l, x).out = Append(l.out, Token("\n", x))
<1> DEFINE m == LexPiece(l, x)
           Goal == /\ m.sub = 0 /\ (m.note <=> x.t = "#")
                   /\ m.q = IF x.t \in Quotes THEN x.t ELSE "none"
                   /\ m.open <=> (x.t \in Operators \/ (x.t \in Letters /\ l.open))
                   /\ x.t \in Operators => m.out = Append(l.out, Token("op", x))
                   /\ x.t \in Letters /\ l.open => m.out = Grown(l.out, x.t)
                   /\ x.t = "\n" => m.out = Append(l.out, Token("\n", x))
<1>1. l \in Lexes /\ l.open \in BOOLEAN
  BY LexFields DEF LexOK
<1>2. m = LexOutside(l, x)
  BY DEF LexPiece
<1>3. \A k \in Kinds : /\ Put(l, k, x) \in Lexes /\ Put(l, k, x).q = "none"
                       /\ Put(l, k, x).sub = 0 /\ ~Put(l, k, x).note
                       /\ Put(l, k, x).open <=> k = "op"
                       /\ Put(l, k, x).out = Append(l.out, Token(k, x))
  BY <1>1, PutIs
<1>4. "w" \in Kinds /\ "op" \in Kinds
  BY DEF Kinds
<1> HIDE DEF m
<1>5. ASSUME x.t \in Quotes PROVE Goal
  <2> DEFINE p == Put(l, "w", x)
  <2>1. m = [p EXCEPT !.q = x.t]
    BY <1>2, <1>5 DEF LexOutside, Quotes, Letters, Operators
  <2>2. p \in Lexes /\ p.sub = 0 /\ ~p.note /\ ~p.open
    BY <1>3, <1>4
  <2> HIDE DEF p
  <2>3. WithIn(p, m, x.t, p.sub, p.note)
    BY <1>5, <2>1, <2>2, SetQuote
  <2>4. m.sub = 0 /\ ~m.note /\ ~m.open /\ m.q = x.t
    BY <2>2, <2>3 DEF WithIn
  <2>5. x.t # "#" /\ x.t \notin Operators /\ x.t \notin Letters /\ x.t # "\n"
    BY <1>5 DEF Quotes, Operators, Letters
  <2> QED
    BY <1>5, <2>4, <2>5
<1>6. ASSUME x.t = "#" PROVE Goal
  <2> DEFINE c == [l EXCEPT !.note = TRUE]
  <2>1. m = [c EXCEPT !.open = FALSE]
    BY <1>2, <1>6 DEF LexOutside, Quotes, Letters, Operators
  <2>2. WithIn(l, c, l.q, l.sub, TRUE)
    BY <1>1, SetNote
  <2> HIDE DEF c
  <2>3. WithOut(c, m, FALSE, c.out)
    BY <2>1, <2>2, SetOpen DEF WithIn
  <2>4. m.sub = 0 /\ m.note /\ ~m.open /\ m.q = "none"
    BY <2>2, <2>3 DEF WithIn, WithOut
  <2> QED
    BY <1>6, <2>4 DEF Quotes, Operators, Letters
<1>7. ASSUME x.t \in Letters, l.open PROVE Goal
  <2>1. m = [l EXCEPT !.out = Grown(l.out, x.t)]
    BY <1>2, <1>7 DEF LexOutside, Quotes, Letters, Operators
  <2>2. m.sub = 0 /\ ~m.note /\ m.open /\ m.q = "none" /\ m.out = Grown(l.out, x.t)
    BY <1>1, <1>7, <2>1 DEF Lexes
  <2> QED
    BY <1>7, <2>2 DEF Quotes, Operators, Letters
<1>8. ASSUME x.t \in Operators PROVE Goal
  <2>1. m = Put(l, "op", x)
    BY <1>2, <1>8 DEF LexOutside, Quotes, Letters, Operators
  <2>2. m.sub = 0 /\ ~m.note /\ m.open /\ m.q = "none" /\ m.out = Append(l.out, Token("op", x))
    BY <1>3, <1>4, <2>1
  <2> QED
    BY <1>8, <2>2 DEF Quotes, Operators, Letters
<1>9. ASSUME x.t = "\t" PROVE Goal
  <2>1. m = [l EXCEPT !.open = FALSE]
    BY <1>2, <1>9 DEF LexOutside, Quotes, Letters, Operators
  <2>2. m.sub = 0 /\ ~m.note /\ ~m.open /\ m.q = "none"
    BY <1>1, <2>1 DEF Lexes
  <2> QED
    BY <1>9, <2>2 DEF Quotes, Operators, Letters
<1>10. ASSUME x.t = "alias", InCommandPosition(l.out) PROVE Goal
  <2>1. m = Expanded(l, x)
    BY <1>2, <1>10 DEF LexOutside, Quotes, Letters, Operators
  <2>2. PICK u : m = [l EXCEPT !.open = FALSE, !.out = u]
    BY <2>1 DEF Expanded
  <2>3. m.sub = 0 /\ ~m.note /\ ~m.open /\ m.q = "none"
    BY <1>1, <2>2 DEF Lexes
  <2> QED
    BY <1>10, <2>3 DEF Quotes, Operators, Letters
<1>11. ASSUME x.t \in {"(", ")", "semi", "|", "\\", "\n"} PROVE Goal
  <2> DEFINE p == Put(l, x.t, x)
  <2>1. x.t \in Kinds /\ x.t # "op"
    BY <1>11 DEF Kinds
  <2>2. m = [p EXCEPT !.note = FALSE]
    BY <1>2, <1>11 DEF LexOutside, Quotes, Letters, Operators
  <2>3. /\ p \in Lexes /\ p.q = "none" /\ p.sub = 0 /\ ~p.open
        /\ p.out = Append(l.out, Token(x.t, x))
    BY <1>3, <2>1
  <2> HIDE DEF p
  <2>4. WithIn(p, m, p.q, p.sub, FALSE)
    BY <2>2, <2>3, SetNote
  <2>5. m.sub = 0 /\ ~m.note /\ ~m.open /\ m.q = "none" /\ m.out = Append(l.out, Token(x.t, x))
    BY <2>3, <2>4 DEF WithIn
  <2> QED
    BY <1>11, <2>5 DEF Quotes, Operators, Letters
<1>12. ASSUME \/ x.t \in {"w", "x#"}
              \/ x.t \in Letters /\ ~l.open
              \/ x.t = "alias" /\ ~InCommandPosition(l.out)
       PROVE  Goal
  <2>1. m = Put(l, "w", x)
    BY <1>2, <1>12 DEF LexOutside, Quotes, Letters, Operators
  <2>2. m.sub = 0 /\ ~m.note /\ ~m.open /\ m.q = "none"
    BY <1>3, <1>4, <2>1
  <2> QED
    BY <1>12, <2>2 DEF Quotes, Operators, Letters
<1>13. Goal
  <2> HIDE DEF Goal
  <2> QED
    BY <1>1, <1>5, <1>6, <1>7, <1>8, <1>9, <1>10, <1>11, <1>12
       DEF Chars, Pieces, Quotes, Letters, Operators
<1> QED
  BY <1>13 DEF m

\* What the scanner does with a piece that does not go on a delimiter.
LEMMA ScanFields ==
    ASSUME NEW c, ScanOK(c), ~c.halt, NEW x \in Chars, ~(c.open /\ x.t \in InDelimiter)
    PROVE  /\ ScanPiece(c, x).sq <=> (IF x.t = "sq" /\ ~c.dq THEN ~c.sq ELSE c.sq)
           /\ ScanPiece(c, x).dq <=> (IF x.t = "dq" /\ ~c.sq THEN ~c.dq ELSE c.dq)
           /\ ScanPiece(c, x).halt
                 <=> \/ x.t = "\\" /\ ~c.sq
                     \/ x.t \in {"#", "x#"} /\ ~c.sq /\ ~c.dq
           /\ ScanPiece(c, x).bs <=> c.bs \/ (x.t = "\\" /\ ~c.sq)
           /\ ScanPiece(c, x).open <=> x.t \in Operators /\ ~c.sq /\ ~c.dq
           /\ ScanPiece(c, x).pending = IF x.t \in Operators /\ ~c.sq /\ ~c.dq
                                        THEN Append(c.pending, Op(x)) ELSE c.pending
<1> DEFINE d == [c EXCEPT !.open = FALSE]
           m == ScanPiece(c, x)
<1>1. /\ d \in Scans /\ ~d.open /\ d.pending = c.pending /\ (d.sq <=> c.sq) /\ (d.dq <=> c.dq)
      /\ ~d.halt /\ (d.bs <=> c.bs) /\ c.sq \in BOOLEAN /\ c.dq \in BOOLEAN
  BY DEF ScanOK, Scans
<1>2. m = CASE x.t = "\\" /\ ~c.sq -> [d EXCEPT !.bs = TRUE, !.halt = TRUE]
            [] x.t = "sq" /\ ~c.dq  -> [d EXCEPT !.sq = ~@]
            [] x.t = "dq" /\ ~c.sq -> [d EXCEPT !.dq = ~@]
            [] OTHER -> IF c.sq \/ c.dq THEN d ELSE Unquoted(d, x)
  BY DEF ScanPiece
<1> HIDE DEF d, m
<1> DEFINE Goal ==
       /\ m.sq <=> (IF x.t = "sq" /\ ~c.dq THEN ~c.sq ELSE c.sq)
       /\ m.dq <=> (IF x.t = "dq" /\ ~c.sq THEN ~c.dq ELSE c.dq)
       /\ m.halt <=> (x.t = "\\" /\ ~c.sq) \/ (x.t \in {"#", "x#"} /\ ~c.sq /\ ~c.dq)
       /\ m.bs <=> c.bs \/ (x.t = "\\" /\ ~c.sq)
       /\ m.open <=> x.t \in Operators /\ ~c.sq /\ ~c.dq
       /\ m.pending = IF x.t \in Operators /\ ~c.sq /\ ~c.dq
                      THEN Append(c.pending, Op(x)) ELSE c.pending
<1>3. ASSUME x.t = "\\", ~c.sq PROVE Goal
  <2>1. m = [d EXCEPT !.bs = TRUE, !.halt = TRUE]
    BY <1>2, <1>3
  <2> QED
    BY <1>1, <1>3, <2>1 DEF Scans, Operators
<1>4. ASSUME x.t = "sq", ~c.dq PROVE Goal
  <2>1. m = [d EXCEPT !.sq = ~d.sq]
    BY <1>2, <1>4
  <2> QED
    BY <1>1, <1>4, <2>1 DEF Scans, Operators
<1>5. ASSUME x.t = "dq", ~c.sq PROVE Goal
  <2>1. m = [d EXCEPT !.dq = ~d.dq]
    BY <1>2, <1>5
  <2> QED
    BY <1>1, <1>5, <2>1 DEF Scans, Operators
<1>6. ASSUME ~(x.t = "\\" /\ ~c.sq), ~(x.t = "sq" /\ ~c.dq), ~(x.t = "dq" /\ ~c.sq)
      PROVE  Goal
  <2>1. m = IF c.sq \/ c.dq THEN d ELSE Unquoted(d, x)
    BY <1>2, <1>6
  <2>2. CASE c.sq \/ c.dq
    BY <1>1, <1>6, <2>1, <2>2
  <2>3. CASE ~c.sq /\ ~c.dq
    <3>1. m = Unquoted(d, x)
      BY <2>1, <2>3
    <3>2. CASE x.t \in Operators
      <4>1. m = [d EXCEPT !.pending = Append(d.pending, Op(x)), !.open = TRUE]
        BY <3>1, <3>2 DEF Unquoted, Operators
      <4> QED
        BY <1>1, <2>3, <3>2, <4>1 DEF Scans, Operators
    <3>3. CASE x.t \in {"#", "x#"}
      <4>1. m = [d EXCEPT !.halt = TRUE]
        BY <3>1, <3>3 DEF Unquoted, Operators
      <4> QED
        BY <1>1, <2>3, <3>3, <4>1 DEF Scans, Operators
    <3>4. CASE x.t \notin Operators /\ x.t \notin {"#", "x#"}
      <4>1. m = d \/ \E n : m = [d EXCEPT !.depth = n]
        BY <3>1, <3>4 DEF Unquoted
      <4>2. /\ m.sq = d.sq /\ m.dq = d.dq /\ m.halt = d.halt /\ m.bs = d.bs
            /\ m.open = d.open /\ m.pending = d.pending
        BY <1>1, <4>1 DEF Scans
      <4> QED
        BY <1>1, <1>6, <2>3, <3>4, <4>2
    <3> QED
      BY <3>2, <3>3, <3>4
  <2> QED
    BY <2>2, <2>3
<1>7. Goal
  <2> HIDE DEF Goal
  <2> QED
    BY <1>3, <1>4, <1>5, <1>6
<1> QED
  BY <1>7 DEF m

\* The scanner and the lexer are in the same quotes and the same word, and the
\* scanner has found the operators the lexer has, after those at pre.
Agree(c, l, pre) ==
    /\ l.sub = 0 /\ (c.sq <=> l.q = "sq") /\ (c.dq <=> l.q = "dq")
    /\ ~c.bs /\ (c.halt <=> l.note) /\ (c.open <=> l.open)
    /\ c.open => /\ Last(c.pending).delim = << >> <=> Last(l.out).delim = << >>
                 /\ Last(l.out).at # Nowhere
    /\ Reading(l.out) = pre \o Ats(c.pending)

\* One piece keeps them together, unless the line goes on at a backslash or an
\* operator has no word or its word is over with the line.
LEMMA AgreeStep ==
    ASSUME NEW c, ScanOK(c), NEW l, LexOK(l), NEW x \in Chars, NEW pre \in Seq(Places),
           Agree(c, l, pre), x.t \notin {"$(", "x#"}, x.t # "\n" => x.at # Nowhere,
           x.t = "\n" => ~l.note
    PROVE  \/ ScanPiece(c, x).bs /\ ScanPiece(c, x).halt
           \/ Broken(LexPiece(l, x))
           \/ x.t = "\n" /\ Early(LexPiece(l, x))
           \/ Agree(ScanPiece(c, x), LexPiece(l, x), pre)
<1> DEFINE d == ScanPiece(c, x)
           m == LexPiece(l, x)
           Goal == \/ d.bs /\ d.halt
                   \/ Broken(m)
                   \/ x.t = "\n" /\ Early(m)
                   \/ Agree(d, m, pre)
<1>0. /\ l.sub = 0 /\ (c.sq <=> l.q = "sq") /\ (c.dq <=> l.q = "dq")
      /\ ~c.bs /\ (c.halt <=> l.note) /\ (c.open <=> l.open)
      /\ c.open => /\ Last(c.pending).delim = << >> <=> Last(l.out).delim = << >>
                   /\ Last(l.out).at # Nowhere
      /\ Reading(l.out) = pre \o Ats(c.pending)
  BY DEF Agree
<1>1. /\ l \in Lexes /\ l.out \in Seq(Tokens) /\ l.q \in Quotes \cup {"none"}
      /\ l.open => l.out # << >> /\ l.out[Len(l.out)].k = "op" /\ ~l.note
                   /\ l.q = "none" /\ l.sub = 0
      /\ l.note => l.q = "none"
  BY LexFields DEF LexOK
<1>2. /\ c.pending \in Seq(Redirs) /\ (c.open => c.pending # << >>)
      /\ c.sq \in BOOLEAN /\ c.dq \in BOOLEAN /\ c.open \in BOOLEAN /\ c.bs \in BOOLEAN
  BY DEF ScanOK, Scans
<1>3. LexOK(m)
  BY LexPieceShape
<1>4. x.t \notin Operators => Reading(m.out) = Reading(l.out)
  BY ReadingPiece
<1>5. ASSUME c.halt PROVE Goal
  <2>1. d = c
    BY <1>5 DEF ScanPiece
  <2>2. m = l
    BY <1>0, <1>5 DEF LexPiece
  <2> HIDE DEF d, m
  <2> QED
    BY <2>1, <2>2
<1>6. ASSUME ~c.halt, c.open, x.t \in Letters PROVE Goal
  <2>1. d = [c EXCEPT !.pending = Grown(c.pending, x.t)]
    BY <1>6 DEF ScanPiece, InDelimiter
  <2>2. /\ m.sub = 0 /\ ~m.note /\ m.q = "none" /\ m.open /\ m.out = Grown(l.out, x.t)
    <3>1. x.t \notin Quotes /\ x.t # "#"
      BY <1>6 DEF Letters, Quotes
    <3> QED
      BY <1>0, <1>1, <1>6, <3>1, OutQuotes
  <2>3. /\ d.pending = Grown(c.pending, x.t) /\ (d.sq <=> c.sq) /\ (d.dq <=> c.dq)
        /\ ~d.bs /\ ~d.halt /\ d.open
    BY <1>0, <1>6, <2>1 DEF ScanOK, Scans
  <2> HIDE DEF d, m
  <2>4. /\ m.out \in Seq(Tokens) /\ Len(m.out) = Len(l.out) /\ m.out # << >>
        /\ m.out[Len(l.out)].delim # << >> /\ m.out[Len(l.out)].at = l.out[Len(l.out)].at
    <3>1. l.out # << >> /\ x.t \in Letters
      BY <1>0, <1>1, <1>6
    <3>2. /\ m.out \in Seq(Tokens) /\ Len(m.out) = Len(l.out)
          /\ m.out[Len(l.out)].delim # << >>
          /\ \A i \in 1..Len(l.out) : m.out[i].at = l.out[i].at
      BY <1>1, <2>2, <3>1, GrownTokens
    <3>3. Len(l.out) \in 1..Len(l.out)
      BY <1>1, <3>1
    <3> QED
      BY <3>2, <3>3
  <2>5. /\ d.pending \in Seq(Redirs) /\ Len(d.pending) = Len(c.pending)
        /\ d.pending[Len(c.pending)].delim # << >> /\ d.pending # << >>
        /\ Ats(d.pending) = Ats(c.pending)
    <3> DEFINE ops == c.pending
               r == ops[Len(ops)]
               e == Append(r.delim, x.t)
               s == [r EXCEPT !.delim = e]
    <3>1. ops \in Seq(Redirs) /\ ops # << >> /\ Len(ops) \in Nat
      BY <1>2, <1>6
    <3>2. r \in Redirs
      <4> HIDE DEF ops
      <4> QED
        BY <3>1
    <3>3. e \in Seq(InDelimiter) /\ e # << >>
      <4>1. r.delim \in Seq(InDelimiter)
        <5> HIDE DEF r
        <5> QED
          BY <3>2 DEF Redirs
      <4>2. x.t \in InDelimiter
        BY <1>6 DEF InDelimiter
      <4> HIDE DEF r
      <4> QED
        BY <4>1, <4>2, AppendProperties
    <3>4. s \in Redirs /\ s.at = r.at /\ s.delim = e
      <4> HIDE DEF e, r
      <4> QED
        BY <3>2, <3>3 DEF Redirs
    <3>5. s = [ops[Len(ops)] EXCEPT !.delim = Append(@, x.t)]
      OBVIOUS
    <3> HIDE DEF s, e, ops
    <3>6. /\ Grown(ops, x.t) \in Seq(Redirs) /\ Len(Grown(ops, x.t)) = Len(ops)
          /\ Grown(ops, x.t) # << >>
          /\ Grown(ops, x.t)[Len(ops)] = s
          /\ \A i \in DOMAIN ops : i # Len(ops) => Grown(ops, x.t)[i] = ops[i]
      BY <3>1, <3>4, <3>5, GrownIs
    <3> DEFINE g == Grown(ops, x.t)
    <3> HIDE DEF g
    <3>7. /\ Ats(ops) \in Seq(Places) /\ Len(Ats(ops)) = Len(ops)
          /\ \A i \in 1..Len(ops) : Ats(ops)[i] = ops[i].at
      BY <3>1, AtsIs, TokenAts
    <3>8. /\ Ats(g) \in Seq(Places) /\ Len(Ats(g)) = Len(g)
          /\ \A i \in 1..Len(g) : Ats(g)[i] = g[i].at
      <4>1. g \in Seq(Redirs)
        BY <3>6 DEF g
      <4> QED
        BY <4>1, AtsIs, TokenAts
    <3>9. /\ Len(g) = Len(ops) /\ \A i \in 1..Len(ops) : g[i].at = ops[i].at
      <4>1. ASSUME NEW i \in 1..Len(ops) PROVE g[i].at = ops[i].at
        <5>1. CASE i = Len(ops)
          BY <3>4, <3>6, <5>1 DEF g
        <5>2. CASE i # Len(ops)
          BY <3>1, <3>6, <5>2 DEF g
        <5> QED
          BY <5>1, <5>2
      <4> QED
        BY <3>6, <4>1 DEF g
    <3>10. Ats(g) = Ats(ops)
      BY <3>7, <3>8, <3>9, SeqEqual
    <3>11. s.delim # << >>
      BY <3>3, <3>4
    <3> QED
      BY <2>3, <3>6, <3>10, <3>11 DEF ops, g
  <2>6. Reading(m.out) = Reading(l.out)
    BY <1>4, <1>6 DEF Letters, Operators
  <2>7. Last(d.pending).delim # << >> /\ Last(m.out).delim # << >>
        /\ Last(m.out).at = Last(l.out).at
    BY <2>4, <2>5 DEF Last
  <2>8. Agree(d, m, pre)
    BY <1>0, <1>1, <1>6, <2>2, <2>3, <2>5, <2>6, <2>7 DEF Agree
  <2> QED
    BY <2>8
<1>7. ASSUME ~c.halt, c.open, x.t = "\n" PROVE Goal
  <2>1. m.out = Append(l.out, Token("\n", x)) /\ ~m.open
    BY <1>0, <1>1, <1>7, OutQuotes DEF Operators, Letters
  <2> DEFINE u == l.out
             t == Token("\n", x)
             n == Len(u)
  <2>2. t \in Tokens /\ t.k = "\n"
    BY <1>1, PutIs DEF Kinds
  <2>3. u \in Seq(Tokens) /\ u # << >> /\ u[n].k = "op" /\ u[n].at # Nowhere
    BY <1>0, <1>1, <1>7 DEF Last
  <2>4. n \in Nat /\ n # 0
    <3> HIDE DEF u
    <3> QED
      BY <2>3
  <2> HIDE DEF u, t, m, n
  <2>5. /\ m.out \in Seq(Tokens) /\ Len(m.out) = n + 1 /\ m.out[n + 1] = t
        /\ \A i \in 1..n : m.out[i] = u[i]
    BY <2>1, <2>2, <2>3, AppendProperties DEF u, t, n
  <2>6. n \in Typed(m.out) /\ n \in Ops(m.out) /\ n + 1 \in DOMAIN m.out /\ n < n + 1
        /\ n \in 1..n
    <3>1. n \in 1..n /\ n \in DOMAIN m.out /\ n + 1 \in DOMAIN m.out /\ n < n + 1
      BY <2>4, <2>5
    <3> QED
      BY <2>3, <2>5, <3>1 DEF Typed, Ops
  <2>7. CASE m.out[n].delim = << >>
    <3>1. Broken(m)
      BY <2>1, <2>6, <2>7 DEF Broken
    <3> QED
      BY <3>1
  <2>8. CASE m.out[n].delim # << >>
    <3>1. m.out[n + 1].k = "\n"
      BY <2>2, <2>5
    <3>2. Early(m)
      BY <2>6, <2>8, <3>1 DEF Early
    <3> QED
      BY <1>7, <3>2
  <2> QED
    BY <2>7, <2>8
<1>8. ASSUME ~c.halt, ~(c.open /\ x.t \in InDelimiter), l.q # "none" PROVE Goal
  <2>1. /\ m.sub = 0 /\ ~m.note /\ ~m.open /\ ~l.note /\ ~l.open
        /\ m.q = IF x.t = l.q THEN "none" ELSE l.q
        /\ m.out = l.out
    BY <1>0, <1>8, InQuotes
  <2>2. /\ d.sq <=> (IF x.t = "sq" /\ ~c.dq THEN ~c.sq ELSE c.sq)
        /\ d.dq <=> (IF x.t = "dq" /\ ~c.sq THEN ~c.dq ELSE c.dq)
        /\ d.halt <=> (x.t = "\\" /\ ~c.sq) \/ (x.t \in {"#", "x#"} /\ ~c.sq /\ ~c.dq)
        /\ d.bs <=> c.bs \/ (x.t = "\\" /\ ~c.sq)
        /\ d.open <=> x.t \in Operators /\ ~c.sq /\ ~c.dq
        /\ d.pending = IF x.t \in Operators /\ ~c.sq /\ ~c.dq
                       THEN Append(c.pending, Op(x)) ELSE c.pending
    BY <1>8, ScanFields
  <2> HIDE DEF d, m
  <2>3. (l.q = "sq" /\ c.sq /\ ~c.dq) \/ (l.q = "dq" /\ ~c.sq /\ c.dq)
    BY <1>0, <1>1, <1>8 DEF Quotes
  <2>4. d.pending = c.pending /\ ~d.open
    BY <2>2, <2>3
  <2>5. CASE x.t = "\\" /\ ~c.sq
    BY <2>2, <2>5
  <2>6. CASE ~(x.t = "\\" /\ ~c.sq)
    <3>1. ~d.halt /\ ~d.bs
      BY <1>0, <2>2, <2>3, <2>6
    <3>2. (d.sq <=> m.q = "sq") /\ (d.dq <=> m.q = "dq")
      BY <2>1, <2>2, <2>3
    <3>3. Agree(d, m, pre)
      BY <1>0, <2>1, <2>4, <3>1, <3>2 DEF Agree
    <3> QED
      BY <3>3
  <2> QED
    BY <2>5, <2>6
<1>9. ASSUME ~c.halt, ~(c.open /\ x.t \in InDelimiter), l.q = "none" PROVE Goal
  <2>1. /\ m.sub = 0 /\ (m.note <=> x.t = "#")
        /\ m.q = IF x.t \in Quotes THEN x.t ELSE "none"
        /\ m.open <=> (x.t \in Operators \/ (x.t \in Letters /\ l.open))
        /\ x.t \in Operators => m.out = Append(l.out, Token("op", x))
    BY <1>0, <1>9, OutQuotes
  <2>2. /\ d.sq <=> (IF x.t = "sq" /\ ~c.dq THEN ~c.sq ELSE c.sq)
        /\ d.dq <=> (IF x.t = "dq" /\ ~c.sq THEN ~c.dq ELSE c.dq)
        /\ d.halt <=> (x.t = "\\" /\ ~c.sq) \/ (x.t \in {"#", "x#"} /\ ~c.sq /\ ~c.dq)
        /\ d.bs <=> c.bs \/ (x.t = "\\" /\ ~c.sq)
        /\ d.open <=> x.t \in Operators /\ ~c.sq /\ ~c.dq
        /\ d.pending = IF x.t \in Operators /\ ~c.sq /\ ~c.dq
                       THEN Append(c.pending, Op(x)) ELSE c.pending
    BY <1>9, ScanFields
  <2> HIDE DEF d, m
  <2>3. ~c.sq /\ ~c.dq
    BY <1>0, <1>9
  <2>4. CASE x.t = "\\"
    BY <2>2, <2>3, <2>4
  <2>5. CASE x.t # "\\"
    <3>1. /\ (d.sq <=> m.q = "sq") /\ (d.dq <=> m.q = "dq")
      BY <2>1, <2>2, <2>3 DEF Quotes
    <3>2. ~d.bs /\ (d.halt <=> m.note)
      BY <1>0, <2>1, <2>2, <2>3, <2>5
    <3>3. d.open <=> m.open
      <4>1. ~(x.t \in Letters /\ l.open)
        BY <1>0, <1>9 DEF InDelimiter
      <4> QED
        BY <2>1, <2>2, <2>3, <4>1
    <3>4. CASE x.t \in Operators
      <4> DEFINE t == Token("op", x)
                 o == Op(x)
                 u == l.out
                 v == c.pending
      <4>1. /\ t \in Tokens /\ t.k = "op" /\ t.at = x.at /\ t.delim = << >>
            /\ o.at = x.at /\ o.delim = << >> /\ o \in Redirs
        <5>1. "op" \in Kinds
          BY DEF Kinds
        <5>2. x.at \in Places /\ (x.t = "<<-") \in BOOLEAN /\ << >> \in Seq(InDelimiter)
          BY EmptySeq DEF Chars
        <5>3. o.at = x.at /\ o.delim = << >> /\ o \in Redirs
          BY <5>2 DEF Op, Redirs
        <5> QED
          BY <1>1, <5>1, <5>3, PutIs
      <4>2. m.out = Append(u, t) /\ d.pending = Append(v, o)
        BY <2>1, <2>2, <2>3, <3>4
      <4>3. u \in Seq(Tokens) /\ v \in Seq(Redirs) /\ Reading(u) = pre \o Ats(v)
        BY <1>0, <1>1, <1>2
      <4>4. x.at # Nowhere
        BY <3>4 DEF Operators
      <4> HIDE DEF t, o, u, v
      <4>5. Reading(m.out) = Append(Reading(u), x.at)
        BY <4>1, <4>2, <4>3, <4>4, ReadingAppend
      <4>6. Ats(d.pending) = Append(Ats(v), x.at) /\ Ats(v) \in Seq(Places)
        <5>1. Ats(v) \in Seq(Places)
          BY <4>3, AtsIs, TokenAts
        <5>2. Ats(Append(v, o)) = Append(Ats(v), o.at)
          BY <4>1, <4>3, AtsAppend, TokenAts
        <5> QED
          BY <4>1, <4>2, <5>1, <5>2
      <4>7. Reading(m.out) = pre \o Ats(d.pending)
        <5>1. x.at \in Places
          BY DEF Chars
        <5> QED
          BY <4>3, <4>5, <4>6, <5>1, ConcatAppend
      <4>8. Last(d.pending) = o /\ Last(m.out) = t
        <5>1. /\ Append(u, t)[Len(Append(u, t))] = t
          BY <4>1, <4>3, AppendProperties
        <5>2. /\ Append(v, o)[Len(Append(v, o))] = o
          BY <4>1, <4>3, AppendProperties
        <5> QED
          BY <4>2, <5>1, <5>2 DEF Last
      <4>9. Agree(d, m, pre)
        BY <2>1, <3>1, <3>2, <3>3, <4>1, <4>4, <4>7, <4>8 DEF Agree
      <4> QED
        BY <4>9
    <3>5. CASE x.t \notin Operators
      <4>1. ~m.open /\ ~d.open /\ d.pending = c.pending
        BY <2>2, <3>3, <3>5
      <4>2. Reading(m.out) = Reading(l.out)
        BY <1>4, <3>5
      <4>3. Agree(d, m, pre)
        BY <1>0, <2>1, <3>1, <3>2, <4>1, <4>2 DEF Agree
      <4> QED
        BY <4>3
    <3> QED
      BY <3>4, <3>5
  <2> QED
    BY <2>4, <2>5
<1>10. Goal
  <2>1. \A t : t \in InDelimiter <=> t \in Letters \/ t = "\n"
    BY DEF InDelimiter
  <2> HIDE DEF Goal
  <2> QED
    BY <2>1, <1>5, <1>6, <1>7, <1>8, <1>9
<1> QED
  BY <1>10

\* An operator without a word stays without over a text.
LEMMA BrokenText ==
    ASSUME NEW text \in Seq(Chars), NEW from \in LexStates, Broken(from)
    PROVE  Broken(Lexed(text, from))
<1> DEFINE S == {p \in LexStates \X Nat : Broken(p[1])}
<1>1. <<from, 0>> \in S
  OBVIOUS
<1>2. ASSUME NEW i \in 1..Len(text), NEW l \in LexStates, <<l, i - 1>> \in S
      PROVE  <<LexPiece(l, text[i]), i>> \in S
  <2>1. LexOK(l) /\ text[i] \in Chars /\ Broken(l) /\ i \in Nat
    BY <1>2 DEF LexStates
  <2>2. LexPiece(l, text[i]) \in LexStates
    BY <2>1, LexPieceShape DEF LexStates, LexOK
  <2>3. Broken(LexPiece(l, text[i]))
    BY <2>1, BrokenStays
  <2> QED
    BY <2>1, <2>2, <2>3
<1>3. <<Lexed(text, from), Len(text)>> \in S
  <2> HIDE DEF S
  <2> QED
    BY <1>1, <1>2, LexInduct
<1> QED
  BY <1>3

\* No newline, no line that begins.
LEMMA EarlyText ==
    ASSUME NEW text \in Seq(Chars), NEW from \in LexStates, ~Early(from),
           \A i \in 1..Len(text) : text[i].t # "\n"
    PROVE  ~Early(Lexed(text, from))
<1> DEFINE S == {p \in LexStates \X Nat : ~Early(p[1])}
<1>1. <<from, 0>> \in S
  OBVIOUS
<1>2. ASSUME NEW i \in 1..Len(text), NEW l \in LexStates, <<l, i - 1>> \in S
      PROVE  <<LexPiece(l, text[i]), i>> \in S
  <2>1. LexOK(l) /\ text[i] \in Chars /\ ~Early(l) /\ i \in Nat /\ text[i].t # "\n"
    BY <1>2 DEF LexStates
  <2>2. LexPiece(l, text[i]) \in LexStates
    BY <2>1, LexPieceShape DEF LexStates, LexOK
  <2>3. ~Early(LexPiece(l, text[i]))
    BY <2>1, EarlyNew
  <2> QED
    BY <2>1, <2>2, <2>3
<1>3. <<Lexed(text, from), Len(text)>> \in S
  <2> HIDE DEF S
  <2> QED
    BY <1>1, <1>2, LexInduct
<1> QED
  BY <1>3

\* a is the beginning of b.
Begins(a, b) ==
    /\ a \in Seq(Places) /\ b \in Seq(Places) /\ Len(a) <= Len(b)
    /\ \A k \in 1..Len(a) : a[k] = b[k]

LEMMA BeginsAppend ==
    ASSUME NEW a, NEW b, Begins(a, b), NEW p \in Places
    PROVE  Begins(a, Append(b, p))
<1>1. a \in Seq(Places) /\ b \in Seq(Places) /\ Len(a) <= Len(b)
      /\ \A k \in 1..Len(a) : a[k] = b[k]
  BY DEF Begins
<1>2. Append(b, p) \in Seq(Places) /\ Len(Append(b, p)) = Len(b) + 1
      /\ \A k \in 1..Len(b) : Append(b, p)[k] = b[k]
  BY <1>1, AppendProperties
<1>3. Len(a) \in Nat /\ Len(b) \in Nat /\ \A k \in 1..Len(a) : k \in 1..Len(b)
  BY <1>1
<1>4. Len(a) <= Len(b) + 1
  BY <1>1, <1>3
<1> QED
  BY <1>1, <1>2, <1>3, <1>4 DEF Begins

\* What has been read stays read; all of it are operators of the text.
LEMMA ReadingText ==
    ASSUME NEW text \in Seq(Chars), NEW from \in LexStates
    PROVE  /\ Begins(Reading(from.out), Reading(Lexed(text, from).out))
           /\ \A k \in 1..Len(Reading(Lexed(text, from).out)) :
                 \/ k \in 1..Len(Reading(from.out))
                 \/ \E i \in 1..Len(text) : /\ text[i].t \in Operators
                                            /\ text[i].at = Reading(Lexed(text, from).out)[k]
<1> DEFINE a == Reading(from.out)
           Found(b, k) == \E i \in 1..Len(text) : text[i].t \in Operators /\ text[i].at = b[k]
           OK(b) == Begins(a, b) /\ \A k \in 1..Len(b) : k \in 1..Len(a) \/ Found(b, k)
           S == {p \in LexStates \X Nat : OK(Reading(p[1].out))}
<1>0. a \in Seq(Places)
  <2>1. from.out \in Seq(Tokens)
    BY LexFields DEF LexStates
  <2>2. Selected(from.out, Typed(from.out)) \in Seq(Tokens)
    BY <2>1, SelTyped
  <2>3. Ats(Selected(from.out, Typed(from.out))) \in Seq(Places)
    BY <2>2, AtsIs, TokenAts
  <2> QED
    BY <2>3 DEF Reading
<1>1. <<from, 0>> \in S
  <2> HIDE DEF a
  <2>1. Begins(a, a)
    <3>1. Len(a) <= Len(a)
      BY <1>0
    <3> QED
      BY <1>0, <3>1 DEF Begins
  <2>2. OK(a)
    BY <2>1
  <2> HIDE DEF OK
  <2> QED
    BY <2>2 DEF a
<1>2. ASSUME NEW i \in 1..Len(text), NEW l \in LexStates, <<l, i - 1>> \in S
      PROVE  <<LexPiece(l, text[i]), i>> \in S
  <2> DEFINE x == text[i]
             m == LexPiece(l, x)
             b == Reading(l.out)
             e == Reading(m.out)
  <2>1. LexOK(l) /\ x \in Chars /\ OK(b) /\ i \in Nat
    <3> HIDE DEF OK
    <3> QED
      BY <1>2 DEF LexStates
  <2>2. m \in LexStates
    BY <2>1, LexPieceShape DEF LexStates, LexOK
  <2>3. b \in Seq(Places) /\ (e = b \/ (x.t \in Operators /\ e = Append(b, x.at)))
    BY <2>1, ReadingPiece
  <2>4. x.at \in Places
    BY <2>1 DEF Chars
  <2> HIDE DEF a, b, e, m
  <2>5. OK(e)
    <3>1. CASE e = b
      BY <2>1, <3>1
    <3>2. CASE x.t \in Operators /\ e = Append(b, x.at)
      <4>1. Begins(a, e)
        BY <2>1, <2>4, <3>2, BeginsAppend
      <4>2. Len(e) = Len(b) + 1 /\ e[Len(b) + 1] = x.at /\ \A k \in 1..Len(b) : e[k] = b[k]
        BY <2>3, <2>4, <3>2, AppendProperties
      <4>3. ASSUME NEW k \in 1..Len(e), k \notin 1..Len(a) PROVE Found(e, k)
        <5>1. Len(b) \in Nat
          BY <2>3
        <5>2. CASE k = Len(b) + 1
          BY <3>2, <4>2, <5>2
        <5>3. CASE k # Len(b) + 1
          <6>1. k \in 1..Len(b)
            BY <4>2, <5>1, <5>3
          <6>2. Found(b, k)
            BY <2>1, <4>3, <6>1
          <6> QED
            BY <4>2, <6>1, <6>2
        <5> QED
          BY <5>2, <5>3
      <4> HIDE DEF Found, x
      <4> QED
        BY <4>1, <4>3
    <3> QED
      BY <2>3, <3>1, <3>2
  <2> HIDE DEF OK
  <2> QED
    BY <2>1, <2>2, <2>5 DEF e, m
<1>3. <<Lexed(text, from), Len(text)>> \in S
  <2> HIDE DEF S
  <2> QED
    BY <1>1, <1>2, LexInduct
<1>4. OK(Reading(Lexed(text, from).out))
  <2> HIDE DEF OK
  <2> QED
    BY <1>3
<1> QED
  BY <1>4

\* A scan from the quotes that the lexer is in finds the operators that the lexer
\* finds in the same text, if no comment is followed by a newline.
LEMMA AgreeText ==
    ASSUME NEW text \in Seq(Chars), NEW from \in LexStates, NEW c,
           ScanFrom(c) \in ScanStates, NEW pre \in Seq(Places),
           Agree(ScanFrom(c), from, pre),
           \A i \in 1..Len(text) : /\ text[i].t \notin {"$(", "x#"}
                                   /\ text[i].t # "\n" => text[i].at # Nowhere,
           \A i, j \in 1..Len(text) : i < j => ~(text[i].t = "#" /\ text[j].t = "\n")
    PROVE  \/ Scanned(text, c).bs
           \/ Broken(Lexed(text, from))
           \/ Early(Lexed(text, from)) /\ \E i \in 1..Len(text) : text[i].t = "\n"
           \/ Agree(Scanned(text, c), Lexed(text, from), pre)
<1> DEFINE Nl(i) == \E j \in 1..i : text[j].t = "\n"
           Note(i) == \E j \in 1..i : text[j].t = "#"
           OK(s, l, i) == \/ s.bs /\ s.halt
                          \/ Broken(l)
                          \/ Early(l) /\ Nl(i)
                          \/ Agree(s, l, pre) /\ (l.note => Note(i))
           S == {p \in ScanStates \X LexStates \X (0..Len(text)) : OK(p[1], p[2], p[3])}
<1>0. Len(text) \in Nat
  OBVIOUS
<1>1. <<ScanFrom(c), from, 0>> \in S
  <2>1. ~ScanFrom(c).halt
    BY DEF ScanFrom
  <2>2. ~from.note
    BY <2>1 DEF Agree
  <2>3. OK(ScanFrom(c), from, 0)
    BY <2>2
  <2>4. 0 \in 0..Len(text)
    BY <1>0
  <2> HIDE DEF OK
  <2> QED
    BY <2>3, <2>4
<1>2. ASSUME NEW i \in 1..Len(text), NEW s \in ScanStates, NEW l \in LexStates,
             <<s, l, i - 1>> \in S
      PROVE  <<ScanPiece(s, text[i]), LexPiece(l, text[i]), i>> \in S
  <2> DEFINE x == text[i]
             d == ScanPiece(s, x)
             m == LexPiece(l, x)
  <2>1. OK(s, l, i - 1) /\ ScanOK(s) /\ LexOK(l) /\ x \in Chars
    <3> HIDE DEF OK
    <3> QED
      BY <1>2 DEF ScanStates, LexStates
  <2>2. d \in ScanStates /\ m \in LexStates
    BY <2>1, ScanPieceTyped, LexPieceShape DEF ScanStates, ScanOK, LexStates, LexOK
  <2>3. i \in 0..Len(text) /\ i \in Nat /\ \A j \in 1..(i - 1) : j \in 1..i /\ j < i
    BY <1>0
  <2>4. /\ x.t \notin {"$(", "x#"} /\ (x.t # "\n" => x.at # Nowhere)
        /\ \A j \in 1..Len(text) : j < i => ~(text[j].t = "#" /\ x.t = "\n")
    OBVIOUS
  <2>5. OK(d, m, i)
    <3>1. CASE s.bs /\ s.halt
      BY <3>1 DEF ScanPiece
    <3>2. CASE Broken(l)
      BY <2>1, <3>2, BrokenStays
    <3>3. CASE Early(l) /\ Nl(i - 1)
      <4>1. Early(m)
        BY <2>1, <3>3, EarlyStays
      <4>2. Nl(i)
        BY <2>3, <3>3
      <4> QED
        BY <4>1, <4>2
    <3>4. CASE Agree(s, l, pre) /\ (l.note => Note(i - 1))
      <4>1. x.t = "\n" => ~l.note
        <5>1. \A j \in 1..(i - 1) : j \in 1..Len(text)
          BY <1>0
        <5> QED
          BY <2>3, <2>4, <3>4, <5>1
      <4>2. \/ d.bs /\ d.halt
            \/ Broken(m)
            \/ x.t = "\n" /\ Early(m)
            \/ Agree(d, m, pre)
        BY <2>1, <2>4, <3>4, <4>1, AgreeStep
      <4>3. m.note => Note(i)
        <5>1. m.note => l.note \/ x.t = "#"
          <6>1. CASE l.note
            BY <6>1
          <6>2. CASE ~l.note /\ l.q # "none"
            BY <2>1, <2>4, <3>4, <6>2, InQuotes DEF Agree
          <6>3. CASE ~l.note /\ l.q = "none"
            BY <2>1, <2>4, <3>4, <6>3, OutQuotes DEF Agree
          <6> QED
            BY <6>1, <6>2, <6>3
        <5>2. x.t = "#" => Note(i)
          <6>1. i \in 1..i
            BY <2>3
          <6> QED
            BY <6>1
        <5>3. Note(i - 1) => Note(i)
          BY <2>3
        <5> HIDE DEF Note, x, m
        <5> QED
          BY <3>4, <5>1, <5>2, <5>3
      <4>4. x.t = "\n" => Nl(i)
        <5>1. i \in 1..i
          BY <2>3
        <5> QED
          BY <5>1
      <4> HIDE DEF Note, Nl, x, m, d
      <4> QED
        BY <4>2, <4>3, <4>4
    <3> HIDE DEF d, m, x, Nl, Note
    <3> QED
      BY <2>1, <3>1, <3>2, <3>3, <3>4
  <2> HIDE DEF OK, d, m
  <2> QED
    BY <2>2, <2>3, <2>5 DEF d, m
<1>3. <<Scanned(text, c), Lexed(text, from), Len(text)>> \in S
  <2> HIDE DEF S
  <2> QED
    BY <1>1, <1>2, BothInduct
<1>4. OK(Scanned(text, c), Lexed(text, from), Len(text))
  <2> HIDE DEF OK
  <2> QED
    BY <1>3
<1> QED
  BY <1>4

-------------------------------------------------------------------------------
(* The walk over the tree.                                                 *)

\* One more token counted.
LEMMA CountStep ==
    ASSUME NEW toks \in Seq(Tokens), NEW k, NEW i \in 1..Len(toks)
    PROVE  /\ Count(toks, i - 1, k) \in Nat /\ Count(toks, i, k) \in Nat
           /\ Count(toks, 0, k) = 0
           /\ toks[i].k = k => Count(toks, i, k) = Count(toks, i - 1, k) + 1
           /\ toks[i].k # k => Count(toks, i, k) = Count(toks, i - 1, k)
<1> DEFINE A(n) == {j \in 1..n : toks[j].k = k}
<1>1. \A n \in Nat : IsFiniteSet(A(n)) /\ Cardinality(A(n)) \in Nat
  <2>1. ASSUME NEW n \in Nat PROVE IsFiniteSet(A(n)) /\ Cardinality(A(n)) \in Nat
    <3>1. IsFiniteSet(1..n)
      BY FS_Interval
    <3>2. A(n) \subseteq 1..n
      OBVIOUS
    <3> HIDE DEF A
    <3> QED
      BY <3>1, <3>2, FS_Subset, FS_CardinalityType
  <2> HIDE DEF A
  <2> QED
    BY <2>1
<1>2. i \in Nat /\ i - 1 \in Nat /\ i # 0
  OBVIOUS
<1>3. A(0) = {} /\ Cardinality({}) = 0
  BY FS_EmptySet
<1>4. toks[i].k = k => A(i) = A(i - 1) \cup {i} /\ i \notin A(i - 1)
  BY <1>2
<1>5. toks[i].k # k => A(i) = A(i - 1)
  BY <1>2
<1>6. \A n : Count(toks, n, k) = Cardinality(A(n))
  BY DEF Count
<1> HIDE DEF A
<1>7. toks[i].k = k => Cardinality(A(i)) = Cardinality(A(i - 1)) + 1
  BY <1>1, <1>2, <1>4, FS_AddElement
<1> QED
  BY <1>1, <1>2, <1>3, <1>5, <1>6, <1>7

\* The extremes of a nonempty set of indices are in it.
LEMMA Extremes ==
    ASSUME NEW n \in Nat, NEW S \in SUBSET (1..n), S # {}
    PROVE  Max(S) \in S /\ Min(S) \in S
<1>1. \E x \in S : \A y \in S : x <= y
  <2>1. S \in SUBSET Nat
    OBVIOUS
  <2> QED
    BY <2>1, LeastIndex
<1>2. \E x \in S : \A y \in S : x >= y
  <2> DEFINE T == {n - x : x \in S}
  <2>1. T \in SUBSET Nat /\ T # {}
    <3>1. PICK a \in S : TRUE
      OBVIOUS
    <3>2. n - a \in T
      OBVIOUS
    <3>3. \A y \in S : y \in 1..n
      OBVIOUS
    <3>4. \A y \in 1..n : n - y \in Nat
      OBVIOUS
    <3> QED
      BY <3>2, <3>3, <3>4
  <2>2. PICK t \in T : \A u \in T : t <= u
    <3> HIDE DEF T
    <3> QED
      BY <2>1, LeastIndex
  <2>3. PICK x \in S : t = n - x
    OBVIOUS
  <2>4. ASSUME NEW y \in S PROVE x >= y
    <3>1. n - y \in T
      OBVIOUS
    <3>2. n - x <= n - y
      BY <2>2, <2>3, <3>1
    <3>3. x \in Nat /\ y \in Nat
      OBVIOUS
    <3> HIDE DEF T
    <3> QED
      BY <3>2, <3>3
  <2> QED
    BY <2>4
<1> QED
  BY <1>1, <1>2 DEF Max, Min

\* A closing parenthesis of a text that parses has its opening one before it.
LEMMA OpenerIn ==
    ASSUME NEW toks \in Seq(Tokens), Parses(toks), NEW j \in 1..Len(toks),
           toks[j].k = ")"
    PROVE  Opener(toks, j) \in 1..(j - 1) /\ toks[Opener(toks, j)].k = "("
<1> DEFINE n == Len(toks)
           D(i) == Depth(toks, i)
           T == {i \in 0..(j - 1) : D(i) >= D(j) + 1}
           S == {i \in 1..(j - 1) : toks[i].k = "(" /\ D(i) = D(j) + 1}
<1>1. \A i \in 1..n : /\ D(i) \in Int /\ D(i - 1) \in Int
                      /\ toks[i].k = "(" => D(i) = D(i - 1) + 1
                      /\ toks[i].k = ")" => D(i) = D(i - 1) - 1
                      /\ toks[i].k \notin {"(", ")"} => D(i) = D(i - 1)
  <2>1. ASSUME NEW i \in 1..n
        PROVE  /\ D(i) \in Int /\ D(i - 1) \in Int
               /\ toks[i].k = "(" => D(i) = D(i - 1) + 1
               /\ toks[i].k = ")" => D(i) = D(i - 1) - 1
               /\ toks[i].k \notin {"(", ")"} => D(i) = D(i - 1)
    <3> DEFINE a == Count(toks, i, "(")
               b == Count(toks, i - 1, "(")
               c == Count(toks, i, ")")
               d == Count(toks, i - 1, ")")
    <3>1. /\ a \in Nat /\ b \in Nat /\ c \in Nat /\ d \in Nat
          /\ toks[i].k = "(" => a = b + 1
          /\ toks[i].k # "(" => a = b
          /\ toks[i].k = ")" => c = d + 1
          /\ toks[i].k # ")" => c = d
      BY CountStep
    <3>2. D(i) = a - c /\ D(i - 1) = b - d
      BY DEF Depth
    <3> HIDE DEF a, b, c, d, D
    <3>3. CASE toks[i].k = "("
      BY <3>1, <3>2, <3>3
    <3>4. CASE toks[i].k = ")"
      BY <3>1, <3>2, <3>4
    <3>5. CASE toks[i].k # "(" /\ toks[i].k # ")"
      BY <3>1, <3>2, <3>5
    <3> QED
      BY <3>3, <3>4, <3>5
  <2> QED
    BY <2>1
<1>2. D(j) \in Int /\ D(j) >= 0 /\ D(0) = 0
  <2>1. Count(toks, j, "(") >= Count(toks, j, ")")
    BY DEF Parses
  <2>2. /\ Count(toks, j, "(") \in Nat /\ Count(toks, j, ")") \in Nat
        /\ Count(toks, 0, "(") = 0 /\ Count(toks, 0, ")") = 0
    BY CountStep
  <2> QED
    BY <2>1, <2>2 DEF Depth
<1> HIDE DEF D
<1>3. j \in 1..n /\ n \in Nat /\ j - 1 \in 0..(j - 1) /\ j \in Nat
  OBVIOUS
<1>4. D(j - 1) = D(j) + 1
  <2>1. D(j) = D(j - 1) - 1 /\ D(j - 1) \in Int
    BY <1>1, <1>3
  <2> QED
    BY <1>2, <2>1
<1>5. j - 1 \in T
  BY <1>2, <1>3, <1>4
<1>6. PICK x \in T : \A y \in T : x <= y
  <2>1. T \in SUBSET Nat
    BY <1>3
  <2> HIDE DEF T
  <2> QED
    BY <1>5, <2>1, LeastIndex
<1>7. x \in 0..(j - 1) /\ D(x) >= D(j) + 1 /\ x # 0
  BY <1>2, <1>6
<1>8. x \in 1..n /\ x \in 1..(j - 1) /\ x - 1 \in 0..(j - 1) /\ ~(x <= x - 1)
  BY <1>3, <1>7
<1>9. ~(D(x - 1) >= D(j) + 1)
  BY <1>6, <1>8
<1>10. D(x) \in Int /\ D(x - 1) \in Int
  BY <1>1, <1>8
<1>11. toks[x].k = "(" /\ D(x) = D(j) + 1
  <2>1. toks[x].k = "("
    <3>1. D(x) # D(x - 1) /\ D(x) # D(x - 1) - 1
      BY <1>2, <1>7, <1>9, <1>10
    <3> QED
      BY <1>1, <1>8, <3>1
  <2>2. D(x) = D(x - 1) + 1
    BY <1>1, <1>8, <2>1
  <2> QED
    BY <1>2, <1>7, <1>9, <1>10, <2>1, <2>2
<1>12. x \in S /\ S \subseteq 1..(j - 1) /\ j - 1 \in Nat
  BY <1>3, <1>8, <1>11
<1>13. Max(S) \in S
  <2> HIDE DEF S
  <2> QED
    BY <1>12, Extremes
<1>14. Opener(toks, j) = Max(S)
  BY DEF Opener, D
<1> QED
  BY <1>13, <1>14

\* An operator follows the redirection list of at most one group.
LEMMA CloserIs ==
    ASSUME NEW toks \in Seq(Tokens), Parses(toks), NEW i \in Ops(toks),
           Closer(toks, i) # {}
    PROVE  \E j \in 1..(i - 1) :
              /\ Closer(toks, i) = {j} /\ Min(Closer(toks, i)) = j
              /\ toks[j].k = ")" /\ \A m \in (j+1)..(i-1) : toks[m].k = "op"
              /\ VisitKey(toks, i) = Opener(toks, j)
              /\ VisitKey(toks, i) \in 1..(j - 1)
<1>1. PICK j \in Closer(toks, i) : TRUE
  OBVIOUS
<1>2. /\ j \in 1..(i - 1) /\ toks[j].k = ")" /\ \A m \in (j+1)..(i-1) : toks[m].k = "op"
      /\ i \in 1..Len(toks) /\ Len(toks) \in Nat
  BY <1>1 DEF Closer, Ops
<1>3. ASSUME NEW h \in Closer(toks, i) PROVE h = j
  <2>1. h \in 1..(i - 1) /\ toks[h].k = ")" /\ \A m \in (h+1)..(i-1) : toks[m].k = "op"
    BY DEF Closer
  <2>2. ~(h < j)
    <3>1. h < j => j \in (h+1)..(i-1)
      BY <1>2, <2>1
    <3>2. toks[j].k # "op"
      BY <1>2
    <3> QED
      BY <2>1, <3>1, <3>2
  <2>3. ~(j < h)
    <3>1. j < h => h \in (j+1)..(i-1)
      BY <1>2, <2>1
    <3>2. toks[h].k # "op"
      BY <2>1
    <3> QED
      BY <1>2, <3>1, <3>2
  <2> QED
    BY <1>2, <2>1, <2>2, <2>3
<1>4. Closer(toks, i) = {j}
  BY <1>1, <1>3
<1>5. Min({j}) = j
  BY <1>2 DEF Min
<1>6. VisitKey(toks, i) = Opener(toks, j)
  BY <1>4 DEF VisitKey
<1>7. j \in 1..Len(toks)
  BY <1>2
<1>8. Opener(toks, j) \in 1..(j - 1)
  BY <1>2, <1>7, OpenerIn
<1> QED
  BY <1>2, <1>4, <1>5, <1>6, <1>8

\* The walk reaches every operator.
LEMMA KeyRange ==
    ASSUME NEW toks \in Seq(Tokens), Parses(toks), NEW i \in Ops(toks)
    PROVE  VisitKey(toks, i) \in 1..Len(toks) /\ VisitKey(toks, i) <= i
           /\ (Closer(toks, i) = {} => VisitKey(toks, i) = i)
<1>1. i \in 1..Len(toks) /\ Len(toks) \in Nat
  BY DEF Ops
<1>2. CASE Closer(toks, i) = {}
  BY <1>1, <1>2 DEF VisitKey
<1>3. CASE Closer(toks, i) # {}
  <2>1. PICK j \in 1..(i - 1) : VisitKey(toks, i) \in 1..(j - 1)
    BY <1>3, CloserIs
  <2> QED
    BY <1>1, <1>3, <2>1
<1> QED
  BY <1>2, <1>3

\* Without a heredoc inside a group that has one in its own redirections, the
\* walk goes through the operators in the order of the text.
LEMMA KeyMonotone ==
    ASSUME NEW toks \in Seq(Tokens), Parses(toks), Flat(toks),
           NEW i \in Ops(toks), NEW j \in Ops(toks), i < j
    PROVE  VisitKey(toks, i) <= VisitKey(toks, j)
<1>1. /\ i \in 1..Len(toks) /\ j \in 1..Len(toks) /\ Len(toks) \in Nat
      /\ toks[i].k = "op" /\ toks[j].k = "op"
  BY DEF Ops
<1>2. VisitKey(toks, i) \in 1..Len(toks) /\ VisitKey(toks, i) <= i
  BY KeyRange
<1>3. CASE Closer(toks, j) = {}
  <2>1. VisitKey(toks, j) = j
    BY <1>3, KeyRange
  <2> QED
    BY <1>1, <1>2, <2>1
<1>4. CASE Closer(toks, j) # {}
  <2>1. PICK c \in 1..(j - 1) :
           /\ Closer(toks, j) = {c} /\ Min(Closer(toks, j)) = c
           /\ toks[c].k = ")" /\ \A m \in (c+1)..(j-1) : toks[m].k = "op"
           /\ VisitKey(toks, j) = Opener(toks, c)
           /\ VisitKey(toks, j) \in 1..(c - 1)
    BY <1>4, CloserIs
  <2>2. \A m \in VisitKey(toks, j)..c : toks[m].k # "op"
    <3>1. j \in DOMAIN toks
      BY <1>1
    <3>2. \A m \in VisitKey(toks, j)..Min(Closer(toks, j)) : toks[m].k # "op"
      BY <1>1, <1>4, <3>1 DEF Flat
    <3> QED
      BY <2>1, <3>2
  <2>3. c \in Nat /\ VisitKey(toks, j) \in Nat
    BY <2>1
  <2>4. CASE i <= c
    <3>1. i < VisitKey(toks, j)
      BY <1>1, <2>2, <2>3, <2>4
    <3> QED
      BY <1>1, <1>2, <2>3, <3>1
  <2>5. CASE c < i
    <3>1. c \in Closer(toks, i)
      <4>1. c \in 1..(i - 1) /\ \A m \in (c+1)..(i-1) : m \in (c+1)..(j-1)
        BY <1>1, <2>1, <2>5
      <4> QED
        BY <2>1, <4>1 DEF Closer
    <3>2. VisitKey(toks, i) = Opener(toks, c)
      <4>1. PICK d \in 1..(i - 1) : /\ Closer(toks, i) = {d}
                                    /\ VisitKey(toks, i) = Opener(toks, d)
        BY <3>1, CloserIs
      <4> QED
        BY <3>1, <4>1
    <3> QED
      BY <2>1, <2>3, <3>2
  <2> QED
    BY <1>1, <2>3, <2>4, <2>5
<1> QED
  BY <1>3, <1>4

\* the operators whose redirection lists the walk visits at token k
VisitedAt(toks, k) == {i \in Ops(toks) : VisitKey(toks, i) = k}

WalkTrace(toks) ==
    CHOOSE walk : walk = [k \in 0..Len(toks) |->
                            IF k = 0 THEN << >>
                            ELSE walk[k - 1] \o Selected(toks, VisitedAt(toks, k))]

\* WalkOrder is the last value of its trace.
LEMMA WalkIs ==
    ASSUME NEW toks
    PROVE  WalkOrder(toks) = WalkTrace(toks)[Len(toks)]
BY DEF WalkOrder, WalkTrace, VisitedAt

\* f holds what the walk has visited up to each token.
WalkFolds(f, toks) ==
    /\ f \in [0..Len(toks) -> Seq(Tokens)] /\ f[0] = << >>
    /\ \A k \in 1..Len(toks) : f[k] = f[k - 1] \o Selected(toks, VisitedAt(toks, k))
    /\ WalkOrder(toks) = f[Len(toks)]

\* The walk is a fold.
LEMMA WalkFold ==
    ASSUME NEW toks \in Seq(Tokens)
    PROVE  \E f : WalkFolds(f, toks)
<1> DEFINE n == Len(toks)
           add(s, k) == s \o Selected(toks, VisitedAt(toks, k))
           step == [p \in Seq(Tokens) \X (1..n) |-> add(p[1], p[2])]
<1>1. n \in Nat /\ << >> \in Seq(Tokens)
  BY EmptySeq
<1>2. step \in [Seq(Tokens) \X (1..n) -> Seq(Tokens)]
  <2>1. ASSUME NEW p \in Seq(Tokens) \X (1..n)
        PROVE  add(p[1], p[2]) \in Seq(Tokens)
    <3>1. p[1] \in Seq(Tokens)
      BY <2>1
    <3>2. Selected(toks, VisitedAt(toks, p[2])) \in Seq(Tokens)
      BY SelTyped
    <3> QED
      BY <3>1, <3>2, ConcatProperties
  <2> HIDE DEF add
  <2> QED
    BY <2>1
<1>3. PICK f : Folds(f, n, Seq(Tokens), << >>, step)
  <2> HIDE DEF step, n
  <2> QED
    BY <1>1, <1>2, Recursion
<1> f \in [0..n -> Seq(Tokens)] /\ f[0] = << >>
  BY <1>3 DEF Folds
<1>4. \A k \in 1..n : f[k] = add(f[k - 1], k)
  <2>1. ASSUME NEW k \in 1..n PROVE f[k] = add(f[k - 1], k)
    <3> HIDE DEF n, add
    <3>1. k - 1 \in 0..n
      BY <1>1
    <3>2. <<f[k - 1], k>> \in Seq(Tokens) \X (1..n)
      BY <3>1
    <3>3. f[k] = step[<<f[k - 1], k>>]
      BY <1>3 DEF Folds
    <3> QED
      BY <3>2, <3>3
  <2> QED
    BY <2>1
<1>5. f = [k \in 0..n |-> IF k = 0 THEN << >> ELSE add(f[k - 1], k)]
  <2> HIDE DEF n, add
  <2>1. \A k \in 0..n : f[k] = IF k = 0 THEN << >> ELSE add(f[k - 1], k)
    <3>1. \A k \in 0..n : k # 0 => k \in 1..n
      BY <1>1
    <3> QED
      BY <1>4, <3>1
  <2> QED
    BY <2>1
<1>6. WalkTrace(toks)
        = [k \in 0..n |-> IF k = 0 THEN << >> ELSE add(WalkTrace(toks)[k - 1], k)]
  BY <1>5 DEF WalkTrace
<1> DEFINE g == WalkTrace(toks)
           S == {k \in 0..n : g[k] = f[k]}
<1>7. g[0] = << >> /\ \A k \in 1..n : g[k] = add(g[k - 1], k)
  <2>1. 0 \in 0..n /\ \A k \in 1..n : k \in 0..n /\ k # 0
    BY <1>1
  <2> HIDE DEF n, add
  <2>2. \A k \in 0..n : g[k] = IF k = 0 THEN << >> ELSE add(g[k - 1], k)
    BY <1>6
  <2> QED
    BY <2>1, <2>2
<1> HIDE DEF g
<1>8. \A k \in 0..n : k \in S
  <2>1. 0 \in S
    BY <1>1, <1>3, <1>7 DEF Folds
  <2>2. ASSUME NEW k \in 0..n, k < n, k \in S PROVE k + 1 \in S
    <3> HIDE DEF add, n
    <3>1. k + 1 \in 1..n /\ (k + 1) - 1 = k /\ k + 1 \in 0..n
      BY <1>1, <2>2
    <3>2. g[k + 1] = add(g[k], k + 1) /\ f[k + 1] = add(f[k], k + 1)
      BY <1>4, <1>7, <3>1
    <3> QED
      BY <2>2, <3>1, <3>2
  <2> HIDE DEF S, n
  <2> QED
    BY <1>1, <2>1, <2>2, UpTo
<1>9. WalkOrder(toks) = f[n]
  BY <1>1, <1>8, WalkIs DEF g, S
<1> QED
  BY <1>4, <1>9 DEF WalkFolds

\* the operators that the walk has visited up to token k
VisitedBy(toks, k) == {i \in Ops(toks) : VisitKey(toks, i) <= k}

\* One more token of the walk.
LEMMA VisitedStep ==
    ASSUME NEW toks \in Seq(Tokens), Parses(toks), NEW k \in 1..Len(toks)
    PROVE  /\ VisitedBy(toks, k) = VisitedBy(toks, k - 1) \cup VisitedAt(toks, k)
           /\ VisitedBy(toks, 0) = {} /\ VisitedBy(toks, Len(toks)) = Ops(toks)
           /\ VisitedBy(toks, k - 1) \in SUBSET Nat /\ VisitedAt(toks, k) \in SUBSET Nat
           /\ \A i : ~(i \in VisitedBy(toks, k - 1) /\ i \in VisitedAt(toks, k))
<1>1. \A i \in Ops(toks) : VisitKey(toks, i) \in 1..Len(toks)
  BY KeyRange
<1>2. k \in Nat /\ Len(toks) \in Nat
  OBVIOUS
<1>3. \A i \in Ops(toks) : i \in Nat
  BY DEF Ops
<1>4. \A i \in Ops(toks) : /\ VisitKey(toks, i) \in Nat
                           /\ VisitKey(toks, i) <= k <=> VisitKey(toks, i) <= k - 1 \/ VisitKey(toks, i) = k
                           /\ ~(VisitKey(toks, i) <= 0) /\ VisitKey(toks, i) <= Len(toks)
                           /\ ~(VisitKey(toks, i) <= k - 1 /\ VisitKey(toks, i) = k)
  BY <1>1, <1>2
<1> QED
  BY <1>3, <1>4 DEF VisitedBy, VisitedAt

\* The walk visits every operator once.
LEMMA WalkLen ==
    ASSUME NEW toks \in Seq(Tokens), Parses(toks)
    PROVE  /\ WalkOrder(toks) \in Seq(Tokens)
           /\ Len(WalkOrder(toks)) = Len(Selected(toks, Ops(toks)))
<1>1. PICK f : WalkFolds(f, toks)
  BY WalkFold
<1> DEFINE n == Len(toks)
           P(k) == Len(f[k]) = Len(Selected(toks, VisitedBy(toks, k)))
           S == {k \in 0..n : P(k)}
<1>2. n \in Nat /\ VisitedBy(toks, 0) = {} /\ VisitedBy(toks, n) = Ops(toks)
  <2>1. CASE n = 0
    BY <2>1 DEF VisitedBy, Ops
  <2>2. CASE n # 0
    BY <2>2, VisitedStep
  <2> QED
    BY <2>1, <2>2
<1>3. /\ f \in [0..n -> Seq(Tokens)] /\ f[0] = << >>
      /\ \A k \in 1..n : f[k] = f[k - 1] \o Selected(toks, VisitedAt(toks, k))
      /\ WalkOrder(toks) = f[n]
  BY <1>1 DEF WalkFolds
<1>4. ASSUME NEW k \in 1..n
      PROVE  Len(Selected(toks, VisitedBy(toks, k)))
                = Len(Selected(toks, VisitedBy(toks, k - 1))) + Len(Selected(toks, VisitedAt(toks, k)))
  <2> DEFINE A == VisitedBy(toks, k - 1)
             B == VisitedAt(toks, k)
  <2>1. VisitedBy(toks, k) = A \cup B /\ \A i : ~(i \in A /\ i \in B)
    BY VisitedStep
  <2> HIDE DEF A, B
  <2>2. Len(Selected(toks, A \cup B)) = Len(Selected(toks, A)) + Len(Selected(toks, B))
    BY <2>1, SelLen
  <2> QED
    BY <2>1, <2>2 DEF A, B
<1> HIDE DEF n
<1>5. \A k \in 0..n : k \in S
  <2>1. 0 \in S
    <3>1. P(0)
      BY <1>2, <1>3, SelEmpty
    <3> HIDE DEF P
    <3> QED
      BY <1>2, <3>1
  <2>2. ASSUME NEW k \in 0..n, k < n, k \in S PROVE k + 1 \in S
    <3>1. k + 1 \in 1..n /\ (k + 1) - 1 = k /\ k + 1 \in 0..n
      BY <1>2, <2>2
    <3> DEFINE s == f[k]
               u == Selected(toks, VisitedAt(toks, k + 1))
    <3>2. s \in Seq(Tokens) /\ u \in Seq(Tokens) /\ f[k + 1] = s \o u
      BY <1>3, <3>1, SelTyped
    <3>3. P(k)
      <4> HIDE DEF P
      <4> QED
        BY <2>2
    <3>4. Len(s \o u) = Len(s) + Len(u)
      <4> HIDE DEF s, u
      <4> QED
        BY <3>2, ConcatProperties
    <3>5. Len(Selected(toks, VisitedBy(toks, k + 1))) = Len(Selected(toks, VisitedBy(toks, k))) + Len(u)
      BY <1>4, <3>1
    <3>6. P(k + 1)
      BY <3>2, <3>3, <3>4, <3>5
    <3> HIDE DEF P
    <3> QED
      BY <3>1, <3>6
  <2> HIDE DEF S
  <2> QED
    BY <1>2, <2>1, <2>2, UpTo
<1>6. P(n)
  <2> HIDE DEF P
  <2> QED
    BY <1>2, <1>5
<1>7. f[n] \in Seq(Tokens)
  BY <1>2, <1>3
<1> QED
  BY <1>2, <1>3, <1>6, <1>7

\* The walk is a sequence of tokens, of any text.
LEMMA WalkTyped ==
    ASSUME NEW toks \in Seq(Tokens)
    PROVE  WalkOrder(toks) \in Seq(Tokens)
<1>1. PICK f : WalkFolds(f, toks)
  BY WalkFold
<1> QED
  BY <1>1 DEF WalkFolds

\* Without a heredoc inside a group that has one in its own redirections, the
\* walk is the operators in the order of the text.
LEMMA WalkFlat ==
    ASSUME NEW toks \in Seq(Tokens), Parses(toks), Flat(toks)
    PROVE  WalkOrder(toks) = Selected(toks, Ops(toks))
<1>1. PICK f : WalkFolds(f, toks)
  BY WalkFold
<1> DEFINE n == Len(toks)
           P(k) == f[k] = Selected(toks, VisitedBy(toks, k))
           S == {k \in 0..n : P(k)}
<1>2. n \in Nat /\ VisitedBy(toks, 0) = {} /\ VisitedBy(toks, n) = Ops(toks)
  <2>1. CASE n = 0
    BY <2>1 DEF VisitedBy, Ops
  <2>2. CASE n # 0
    BY <2>2, VisitedStep
  <2> QED
    BY <2>1, <2>2
<1>3. /\ f[0] = << >>
      /\ \A k \in 1..n : f[k] = f[k - 1] \o Selected(toks, VisitedAt(toks, k))
      /\ WalkOrder(toks) = f[n]
  BY <1>1 DEF WalkFolds
<1>4. ASSUME NEW k \in 1..n
      PROVE  Selected(toks, VisitedBy(toks, k))
                = Selected(toks, VisitedBy(toks, k - 1)) \o Selected(toks, VisitedAt(toks, k))
  <2> DEFINE A == VisitedBy(toks, k - 1)
             B == VisitedAt(toks, k)
  <2>1. VisitedBy(toks, k) = A \cup B /\ A \in SUBSET Nat /\ B \in SUBSET Nat
    BY VisitedStep
  <2>2. ASSUME NEW a \in A, NEW b \in B PROVE a < b
    <3>1. /\ a \in Ops(toks) /\ b \in Ops(toks) /\ VisitKey(toks, a) <= k - 1
          /\ VisitKey(toks, b) = k
      BY DEF VisitedBy, VisitedAt
    <3>2. VisitKey(toks, a) \in 1..Len(toks)
      BY <3>1, KeyRange
    <3>3. a \in Nat /\ b \in Nat /\ k \in Nat
      BY <3>1 DEF Ops
    <3>4. ~(b < a)
      <4>1. b < a => VisitKey(toks, b) <= VisitKey(toks, a)
        BY <3>1, KeyMonotone
      <4> QED
        BY <3>1, <3>2, <3>3, <4>1
    <3>5. a # b
      BY <3>1, <3>2, <3>3
    <3> QED
      BY <3>3, <3>4, <3>5
  <2> HIDE DEF A, B
  <2>3. Selected(toks, A \cup B) = Selected(toks, A) \o Selected(toks, B)
    BY <2>1, <2>2, SelConcat
  <2> QED
    BY <2>1, <2>3 DEF A, B
<1> HIDE DEF n
<1>5. \A k \in 0..n : k \in S
  <2>1. 0 \in S
    <3>1. P(0)
      BY <1>2, <1>3, SelEmpty
    <3> HIDE DEF P
    <3> QED
      BY <1>2, <3>1
  <2>2. ASSUME NEW k \in 0..n, k < n, k \in S PROVE k + 1 \in S
    <3>1. k + 1 \in 1..n /\ (k + 1) - 1 = k /\ k + 1 \in 0..n
      BY <1>2, <2>2
    <3>2. f[k + 1] = f[k] \o Selected(toks, VisitedAt(toks, k + 1))
      BY <1>3, <3>1
    <3>3. P(k)
      <4> HIDE DEF P
      <4> QED
        BY <2>2
    <3>4. Selected(toks, VisitedBy(toks, k + 1))
            = Selected(toks, VisitedBy(toks, k)) \o Selected(toks, VisitedAt(toks, k + 1))
      BY <1>4, <3>1
    <3>5. P(k + 1)
      BY <3>2, <3>3, <3>4
    <3> HIDE DEF P
    <3> QED
      BY <3>1, <3>5
  <2> HIDE DEF S
  <2> QED
    BY <1>2, <2>1, <2>2, UpTo
<1>6. P(n)
  <2> HIDE DEF P
  <2> QED
    BY <1>2, <1>5
<1> QED
  BY <1>2, <1>3, <1>6

\* No more operators were read than the walk visits.
LEMMA ReadingWalk ==
    ASSUME NEW toks \in Seq(Tokens), Parses(toks)
    PROVE  Len(Reading(toks)) <= Len(WalkOrder(toks))
<1> DEFINE A == Typed(toks)
           B == Ops(toks) \ Typed(toks)
           C == Ops(toks)
<1>1. A \cup B = C /\ \A i : ~(i \in A /\ i \in B)
  BY DEF Typed
<1>2. Selected(toks, A) \in Seq(Tokens) /\ Selected(toks, B) \in Seq(Tokens)
  BY SelTyped
<1>3. Len(Reading(toks)) = Len(Selected(toks, A))
  BY <1>2, AtsIs, TokenAts DEF Reading
<1>4. Len(WalkOrder(toks)) = Len(Selected(toks, C))
  BY WalkLen
<1> HIDE DEF A, B, C
<1>5. Len(Selected(toks, A \cup B)) = Len(Selected(toks, A)) + Len(Selected(toks, B))
  BY <1>1, SelLen
<1>6. Len(Selected(toks, A)) \in Nat /\ Len(Selected(toks, B)) \in Nat
  BY <1>2
<1>7. Len(Selected(toks, C)) = Len(Selected(toks, A)) + Len(Selected(toks, B))
  BY <1>1, <1>5
<1> QED
  BY <1>3, <1>4, <1>6, <1>7

\* every operator among the tokens was read
AllRead(toks) == \A i \in Ops(toks) : toks[i].at # Nowhere

\* Without the alias, every operator of a text was read.
LEMMA PlainRead ==
    ASSUME NEW text \in Seq(Chars), NEW from \in LexStates, AllRead(from.out),
           \A i \in 1..Len(text) : /\ text[i].t # "alias"
                                   /\ text[i].t # "\n" => text[i].at # Nowhere
    PROVE  AllRead(Lexed(text, from).out)
<1> DEFINE S == {p \in LexStates \X (0..Len(text)) : AllRead(p[1].out)}
<1>1. <<from, 0>> \in S
  OBVIOUS
<1>2. ASSUME NEW i \in 1..Len(text), NEW l \in LexStates, <<l, i - 1>> \in S
      PROVE  <<LexPiece(l, text[i]), i>> \in S
  <2> DEFINE x == text[i]
             m == LexPiece(l, x)
  <2>1. /\ LexOK(l) /\ AllRead(l.out) /\ l.out \in Seq(Tokens)
        /\ x \in Chars /\ x.t # "alias" /\ (x.t # "\n" => x.at # Nowhere)
        /\ i \in 0..Len(text)
    BY <1>2 DEF LexStates, Lexes
  <2>2. LexOK(m) /\ Shapes(l, m, x)
    BY <2>1, LexPieceShape
  <2>3. m \in LexStates
    BY <2>2 DEF LexStates, LexOK
  <2> HIDE DEF x, m
  <2> DEFINE Goal == AllRead(m.out)
  <2>4. ASSUME Nothing(l, m) PROVE Goal
    BY <2>1, <2>4 DEF Nothing
  <2>5. ASSUME OneMore(l, m, x) PROVE Goal
    <3>1. PICK t \in Tokens : /\ m.out = Append(l.out, t)
                              /\ t.k = "op" => x.t \in Operators /\ t.at = x.at
      BY <2>5 DEF OneMore
    <3>2. /\ Len(Append(l.out, t)) = Len(l.out) + 1 /\ Append(l.out, t)[Len(l.out) + 1] = t
          /\ \A k \in 1..Len(l.out) : Append(l.out, t)[k] = l.out[k]
          /\ Append(l.out, t) \in Seq(Tokens)
      BY <2>1, AppendKeeps, AppendProperties
    <3>3. t.k = "op" => t.at # Nowhere
      BY <2>1, <3>1 DEF Operators
    <3>4. ASSUME NEW k \in 1..(Len(l.out) + 1), m.out[k].k = "op" PROVE m.out[k].at # Nowhere
      <4>1. CASE k = Len(l.out) + 1
        BY <3>1, <3>2, <3>3, <3>4, <4>1
      <4>2. CASE k # Len(l.out) + 1
        <5>1. k \in 1..Len(l.out)
          BY <2>1, <4>2
        <5>2. m.out[k] = l.out[k]
          BY <3>1, <3>2, <5>1
        <5> QED
          BY <2>1, <3>4, <5>1, <5>2 DEF AllRead, Ops
      <4> QED
        BY <4>1, <4>2
    <3> QED
      BY <3>1, <3>2, <3>4 DEF AllRead, Ops
  <2>6. ASSUME Longer(l, m, x) PROVE Goal
    <3>1. m.out = Grown(l.out, x.t) /\ x.t \in Letters /\ l.out # << >>
      BY <2>1, <2>6 DEF Longer, LexOK
    <3>2. /\ m.out \in Seq(Tokens) /\ Len(m.out) = Len(l.out)
          /\ \A k \in 1..Len(l.out) : m.out[k].k = l.out[k].k /\ m.out[k].at = l.out[k].at
      BY <2>1, <3>1, GrownTokens
    <3>3. DOMAIN m.out = 1..Len(l.out) /\ DOMAIN l.out = 1..Len(l.out)
      BY <2>1, <3>2
    <3>4. Ops(m.out) \subseteq Ops(l.out)
      BY <3>2, <3>3 DEF Ops
    <3>5. \A k \in Ops(l.out) : l.out[k].at # Nowhere /\ k \in 1..Len(l.out)
      BY <2>1, <3>3 DEF AllRead, Ops
    <3> QED
      BY <3>2, <3>4, <3>5 DEF AllRead
  <2>7. ~Aliased(l, m, x)
    BY <2>1 DEF Aliased
  <2>8. Goal
    <3> HIDE DEF Goal
    <3> QED
      BY <2>2, <2>4, <2>5, <2>6, <2>7 DEF Shapes, Goal
  <2> QED
    BY <2>1, <2>3, <2>8 DEF m, x
<1>3. <<Lexed(text, from), Len(text)>> \in S
  <2> HIDE DEF S
  <2> QED
    BY <1>1, <1>2, LexInduct
<1> QED
  BY <1>3

\* Then what was read are all the operators.
LEMMA ReadingAll ==
    ASSUME NEW toks \in Seq(Tokens), AllRead(toks)
    PROVE  Reading(toks) = Ats(Selected(toks, Ops(toks)))
<1>1. Typed(toks) = Ops(toks)
  BY DEF Typed, AllRead
<1> QED
  BY <1>1 DEF Reading
===============================================================================
