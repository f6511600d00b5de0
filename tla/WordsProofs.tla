------------------------------ MODULE WordsProofs ------------------------------
(***************************************************************************)
(* Theorems about Words.                                                   *)
(***************************************************************************)
EXTENDS Words, FiniteSetTheorems, SequenceTheorems, WellFoundedInduction, TLAPS

-------------------------------------------------------------------------------
(* Induction up to a length, and on a rank.                                *)

\* A nonempty set of natural numbers has a least one.
LEMMA LeastIndex ==
    ASSUME NEW T \in SUBSET Nat, T # {}
    PROVE  \E x \in T : \A y \in T : x <= y
<1> DEFINE R == OpToRel(<, Nat)
<1>1. \E x \in T : \A y \in T : ~ (<<y, x>> \in R)
  BY NatLessThanWellFounded, WFMin
<1>2. R = {p \in Nat \X Nat : p[1] < p[2]}
  BY DEF OpToRel
<1> HIDE DEF R
<1>3. PICK x \in T : \A y \in T : ~ (<<y, x>> \in R)
  BY <1>1
<1>4. ASSUME NEW y \in T PROVE x <= y
  <2>1. x \in Nat /\ y \in Nat
    OBVIOUS
  <2>2. ~ (y < x)
    BY <1>2, <1>3, <2>1
  <2> QED
    BY <2>1, <2>2
<1> QED
  BY <1>4

\* What holds at 0 and passes from each number below m to the next holds up to m.
LEMMA UpTo ==
    ASSUME NEW m \in Nat, NEW S, 0 \in S,
           \A i \in 0..m : i < m /\ i \in S => i + 1 \in S
    PROVE  \A i \in 0..m : i \in S
<1> DEFINE T == {i \in 0..m : i \notin S}
<1>1. SUFFICES ASSUME T # {} PROVE FALSE
  OBVIOUS
<1>2. PICK x \in T : \A y \in T : x <= y
  <2>1. T \in SUBSET Nat
    OBVIOUS
  <2> HIDE DEF T
  <2> QED
    BY <1>1, <2>1, LeastIndex
<1>3. x \in Nat /\ x # 0 /\ x - 1 \in 0..m /\ x - 1 < m
  BY <1>2
<1>4. x - 1 \notin T
  BY <1>2, <1>3
<1>5. x \in S
  BY <1>3, <1>4
<1> QED
  BY <1>2, <1>5

\* f goes from d by steps.
Folds(f, n, D, d, step) ==
    f \in [0..n -> D] /\ f[0] = d /\ \A i \in 1..n : f[i] = step[<<f[i - 1], i>>]

\* A value and a step in D define a function on 0..n.
LEMMA Recursion ==
    ASSUME NEW n \in Nat, NEW D, NEW d \in D, NEW step \in [D \X (1..n) -> D]
    PROVE  \E f : Folds(f, n, D, d, step)
<1> DEFINE Good(k) == {f \in [0..k -> D] :
                         f[0] = d /\ \A i \in 1..k : f[i] = step[<<f[i - 1], i>>]}
           S == {k \in 0..n : Good(k) # {}}
<1>1. 0 \in S
  <2>1. [i \in 0..0 |-> d] \in Good(0)
    OBVIOUS
  <2> QED
    BY <2>1
<1>2. ASSUME NEW k \in 0..n, k < n, k \in S PROVE k + 1 \in S
  <2>1. PICK f : f \in Good(k)
    BY <1>2
  <2> DEFINE g == [i \in 0..(k + 1) |-> IF i = k + 1 THEN step[<<f[k], k + 1>>] ELSE f[i]]
  <2>2. k \in Nat /\ k + 1 \in 1..n
    BY <1>2
  <2>3. f \in [0..k -> D] /\ f[0] = d /\ \A i \in 1..k : f[i] = step[<<f[i - 1], i>>]
    BY <2>1
  <2>4. f[k] \in D /\ step[<<f[k], k + 1>>] \in D
    BY <2>2, <2>3
  <2>5. g \in [0..(k + 1) -> D]
    BY <2>2, <2>3, <2>4
  <2>6. g[0] = d /\ \A i \in 0..k : g[i] = f[i]
    BY <2>2, <2>3
  <2>7. ASSUME NEW i \in 1..(k + 1) PROVE g[i] = step[<<g[i - 1], i>>]
    <3>1. CASE i = k + 1
      <4>1. g[i] = step[<<f[k], k + 1>>] /\ i - 1 = k /\ g[k] = f[k]
        BY <2>2, <2>6, <3>1
      <4> HIDE DEF g
      <4> QED
        BY <3>1, <4>1
    <3>2. CASE i # k + 1
      <4>1. i \in 1..k /\ i \in 0..k /\ i - 1 \in 0..k
        BY <2>2, <3>2
      <4> QED
        BY <2>3, <2>6, <4>1
    <3> QED
      BY <3>1, <3>2
  <2>8. g \in Good(k + 1)
    BY <2>5, <2>6, <2>7
  <2>9. k + 1 \in 0..n
    BY <2>2
  <2> HIDE DEF Good, g
  <2> QED
    BY <2>8, <2>9
<1>3. n \in S
  <2> HIDE DEF S
  <2> QED
    BY <1>1, <1>2, UpTo
<1> QED
  BY <1>3 DEF Folds

\* Every x with all that is of smaller rank in S is in S.
Inherited(S, Dom, rank) ==
    \A x \in Dom : (\A y \in Dom : rank[y] < rank[x] => y \in S) => x \in S

\* What holds where it holds on every smaller rank holds everywhere.
LEMMA RankInduction ==
    ASSUME NEW Dom, NEW N \in Nat, NEW rank \in [Dom -> 0..N], NEW S,
           Inherited(S, Dom, rank)
    PROVE  \A x \in Dom : x \in S
<1> DEFINE T == {n \in 0..(N + 1) : \A x \in Dom : rank[x] < n => x \in S}
<1>1. \A n \in 0..(N + 1) : n \in T
  <2>1. 0 \in T
    OBVIOUS
  <2>2. ASSUME NEW n \in 0..(N + 1), n < N + 1, n \in T PROVE n + 1 \in T
    <3>1. ASSUME NEW x \in Dom, rank[x] < n + 1 PROVE x \in S
      <4>1. ASSUME NEW y \in Dom, rank[y] < rank[x] PROVE y \in S
        <5>1. rank[x] \in 0..N /\ rank[y] \in 0..N
          OBVIOUS
        <5>2. rank[y] < n
          BY <2>2, <3>1, <4>1, <5>1
        <5> QED
          BY <2>2, <5>2
      <4> QED
        BY <4>1 DEF Inherited
    <3> QED
      BY <2>2, <3>1
  <2>3. N + 1 \in Nat
    OBVIOUS
  <2> HIDE DEF T
  <2> QED
    BY <2>1, <2>2, <2>3, UpTo
<1>2. N + 1 \in T
  <2> HIDE DEF T
  <2> QED
    BY <1>1
<1>3. \A x \in Dom : rank[x] < N + 1
  <2>1. \A x \in Dom : rank[x] \in 0..N
    OBVIOUS
  <2> QED
    BY <2>1
<1> QED
  BY <1>2, <1>3

\* What step makes of a function at a place depends on its values of smaller rank.
Local(step, Fs, Dom, rank) ==
    \A f \in Fs : \A g \in Fs : \A x \in Dom :
        (\A y \in Dom : rank[y] < rank[x] => f[y] = g[y]) => step[f][x] = step[g][x]

FunctionOn(f, Dom) == f = [x \in Dom |-> f[x]]

\* A step that makes a value from values of smaller rank has a fixed point.
LEMMA Ranked ==
    ASSUME NEW Dom, NEW Fs, NEW d \in Fs, \A f \in Fs : FunctionOn(f, Dom),
           NEW N \in Nat, NEW rank \in [Dom -> 0..N],
           NEW step \in [Fs -> Fs], Local(step, Fs, Dom, rank)
    PROVE  \E f \in Fs : step[f] = f
<1> DEFINE next == [p \in Fs \X (1..(N + 1)) |-> step[p[1]]]
<1>1. next \in [Fs \X (1..(N + 1)) -> Fs]
  OBVIOUS
<1>2. PICK F : Folds(F, N + 1, Fs, d, next)
  <2> HIDE DEF next
  <2>1. N + 1 \in Nat
    OBVIOUS
  <2> QED
    BY <1>1, <2>1, Recursion
<1>3. F \in [0..(N + 1) -> Fs] /\ \A i \in 1..(N + 1) : F[i] = step[F[i - 1]]
  <2>1. F \in [0..(N + 1) -> Fs] /\ \A i \in 1..(N + 1) : F[i] = next[<<F[i - 1], i>>]
    BY <1>2 DEF Folds
  <2>2. \A i \in 1..(N + 1) : i - 1 \in 0..(N + 1)
    OBVIOUS
  <2>3. \A i \in 1..(N + 1) : <<F[i - 1], i>> \in Fs \X (1..(N + 1))
    BY <2>1, <2>2
  <2> QED
    BY <2>1, <2>3
<1> DEFINE T == {n \in 0..(N + 1) : \A x \in Dom : rank[x] < n => step[F[n]][x] = F[n][x]}
<1> HIDE DEF next
<1>4. \A n \in 0..(N + 1) : n \in T
  <2>1. 0 \in T
    OBVIOUS
  <2>2. ASSUME NEW n \in 0..(N + 1), n < N + 1, n \in T PROVE n + 1 \in T
    <3>1. n + 1 \in 1..(N + 1) /\ n + 1 \in 0..(N + 1) /\ (n + 1) - 1 = n
      BY <2>2
    <3>2. F[n + 1] = step[F[n]] /\ F[n] \in Fs /\ F[n + 1] \in Fs
      BY <1>3, <3>1
    <3>3. ASSUME NEW x \in Dom, rank[x] < n + 1 PROVE step[F[n + 1]][x] = F[n + 1][x]
      <4>1. ASSUME NEW y \in Dom, rank[y] < rank[x] PROVE F[n + 1][y] = F[n][y]
        <5>1. rank[x] \in 0..N /\ rank[y] \in 0..N
          OBVIOUS
        <5>2. rank[y] < n
          BY <2>2, <3>3, <4>1, <5>1
        <5> QED
          BY <2>2, <3>2, <5>2
      <4>2. step[F[n + 1]][x] = step[F[n]][x]
        BY <3>2, <4>1 DEF Local
      <4> QED
        BY <3>2, <4>2
    <3> QED
      BY <3>1, <3>3
  <2>3. N + 1 \in Nat
    OBVIOUS
  <2> HIDE DEF T
  <2> QED
    BY <2>1, <2>2, <2>3, UpTo
<1>5. N + 1 \in T /\ N + 1 \in 0..(N + 1)
  <2> HIDE DEF T
  <2> QED
    BY <1>4
<1>6. \A x \in Dom : rank[x] < N + 1
  <2>1. \A x \in Dom : rank[x] \in 0..N
    OBVIOUS
  <2> QED
    BY <2>1
<1> DEFINE f == F[N + 1]
<1>7. f \in Fs /\ step[f] \in Fs
  BY <1>3, <1>5
<1>8. \A x \in Dom : step[f][x] = f[x]
  BY <1>5, <1>6
<1> HIDE DEF f
<1>9. step[f] = f
  BY <1>7, <1>8 DEF FunctionOn
<1> QED
  BY <1>7, <1>9

-------------------------------------------------------------------------------
(* Texts.                                                                    *)

\* What is not the end of a text is one of its characters.
LEMMA AtIs ==
    ASSUME NEW s \in Text, NEW i \in Nat
    PROVE  /\ At(s, i) # End => i \in 1..Len(s) /\ At(s, i) = s[i]
           /\ At(s, i) = End => i \notin 1..Len(s)
<1>1. DOMAIN s = 1..Len(s) /\ \A j \in 1..Len(s) : s[j] \in Char
  BY DEF Text
<1>2. \A c \in Char : c # End
  BY WordsAssumption
<1> QED
  BY <1>1, <1>2 DEF At

LEMMA LettersAre ==
    /\ "-" \in Char /\ "$" \in Char /\ "{" \in Char /\ "\\" \in Char
    /\ "s" \in Char /\ "h" \in Char
<1>1. {"-", "$", "{", "\\", "s", "h"} \subseteq Char
  BY WordsAssumption
<1> QED
  BY <1>1

\* A part of a text is a text.
LEMMA PartIs ==
    ASSUME NEW s \in Text, NEW i \in Nat \ {0}, NEW j \in Int, j <= Len(s)
    PROVE  SubSeq(s, i, j) \in Text
<1>1. s \in Seq(Char)
  BY DEF Text
<1>2. \A k \in i..j : s[k] \in Char
  BY <1>1
<1> QED
  BY <1>1, <1>2, SubSeqProperties DEF Text

\* The bytes of a text, marked.
LEMMA BytesTyped ==
    ASSUME NEW s \in Text, NEW split \in BOOLEAN
    PROVE  Bytes(s, split) \in Seq(Char \X BOOLEAN)
<1>1. DOMAIN s = 1..Len(s) /\ Len(s) \in Nat /\ \A i \in 1..Len(s) : s[i] \in Char
  BY DEF Text
<1>2. Bytes(s, split) = [i \in 1..Len(s) |-> <<s[i], split>>]
  BY <1>1 DEF Bytes
<1>3. \A i \in 1..Len(s) : <<s[i], split>> \in Char \X BOOLEAN
  BY <1>1
<1> QED
  BY <1>1, <1>2, <1>3

\* The characters of marked bytes are a text.
LEMMA CharsTyped ==
    ASSUME NEW buf \in Seq(Char \X BOOLEAN)
    PROVE  Chars(buf) \in Text /\ Len(Chars(buf)) = Len(buf)
           /\ \A i \in 1..Len(buf) : Chars(buf)[i] = buf[i][1]
<1>1. DOMAIN buf = 1..Len(buf) /\ Len(buf) \in Nat
      /\ \A i \in 1..Len(buf) : buf[i] \in Char \X BOOLEAN
  OBVIOUS
<1>2. Chars(buf) = [i \in 1..Len(buf) |-> buf[i][1]]
  BY <1>1 DEF Chars
<1>3. \A i \in 1..Len(buf) : buf[i][1] \in Char
  BY <1>1
<1> QED
  BY <1>1, <1>2, <1>3 DEF Text

\* There is a first position from i on whose byte is not in the set.
LEMMA AfterIs ==
    ASSUME NEW s, NEW n \in Nat, Len(s) = n, NEW i \in 1..(n + 1), NEW set
    PROVE  /\ After(s, i, set) \in i..(n + 1)
           /\ After(s, i, set) > n \/ s[After(s, i, set)] \notin set
           /\ \A k \in i..(After(s, i, set) - 1) : s[k] \in set
<1> DEFINE T == {j \in i..(n + 1) : j > n \/ s[j] \notin set}
           P(j) == (j > n \/ s[j] \notin set) /\ \A k \in i..(j - 1) : s[k] \in set
<1>1. PICK j \in T : \A k \in T : j <= k
  <2>1. n + 1 \in T /\ T \in SUBSET Nat
    OBVIOUS
  <2> HIDE DEF T
  <2> QED
    BY <2>1, LeastIndex
<1>2. j \in i..(n + 1) /\ P(j)
  <2>1. ASSUME NEW k \in i..(j - 1) PROVE s[k] \in set
    <3>1. k \in i..(n + 1) /\ ~(k > n) /\ ~(j <= k)
      BY <1>1
    <3>2. k \notin T
      BY <1>1, <3>1
    <3> QED
      BY <3>1, <3>2
  <2> QED
    BY <1>1, <2>1
<1> HIDE DEF P, T
<1>3. After(s, i, set) = CHOOSE x \in i..(n + 1) : P(x)
  BY DEF After, P
<1>4. After(s, i, set) \in i..(n + 1) /\ P(After(s, i, set))
  BY <1>2, <1>3
<1> QED
  BY <1>4 DEF P

-------------------------------------------------------------------------------
(* Arithmetic.                                                               *)

\* Wrapping makes an integer of an integer.
LEMMA WrapTyped ==
    ASSUME NEW v \in Int
    PROVE  Wrap(v) \in Int
<1> DEFINE m == 2 ^ Width
           h == 2 ^ (Width - 1)
<1>1. m \in Nat \ {0} /\ h \in Nat
  BY ArithmeticAssumption
<1>2. Wrap(v) = ((v - (-h)) % m) + (-h)
  BY DEF Wrap, Least
<1> HIDE DEF m, h
<1>3. (v - (-h)) % m \in Int
  BY <1>1
<1> QED
  BY <1>1, <1>2, <1>3

\* Division towards zero makes an integer.
LEMMA QuotientTyped ==
    ASSUME NEW a \in Int, NEW b \in Int, b # 0
    PROVE  Quotient(a, b) \in Int /\ Remainder(a, b) \in Int
<1>1. Abs(a) \in Nat /\ Abs(b) \in Nat \ {0} /\ Sign(a) \in Int /\ Sign(b) \in Int
  BY DEF Abs, Sign
<1>2. Abs(a) \div Abs(b) \in Int
  BY <1>1
<1>3. \A x \in Int, y \in Int : x * y \in Int /\ x - y \in Int
  OBVIOUS
<1>4. Sign(a) * Sign(b) \in Int
  BY <1>1, <1>3
<1>5. Quotient(a, b) \in Int
  BY <1>2, <1>3, <1>4 DEF Quotient
<1> QED
  BY <1>3, <1>5 DEF Remainder

Operators == {"+", "-", "*", "/", "%"}

\* An operation has an integer value, or says why it has none.
LEMMA OperateTyped ==
    ASSUME NEW op \in Operators, NEW a \in Int, NEW b \in Int
    PROVE  Operate(op, a, b) \in [err : {"none", "zero", "trap"}, val : Int]
<1>1. CASE op \in {"/", "%"} /\ b = 0
  BY <1>1 DEF Operate
<1>2. CASE op \in {"/", "%"} /\ b # 0 /\ a = Least /\ b = -1
  BY <1>2 DEF Operate
<1>3. CASE op \in {"/", "%"} /\ b # 0 /\ ~(a = Least /\ b = -1)
  <2>1. Quotient(a, b) \in Int /\ Remainder(a, b) \in Int
    BY <1>3, QuotientTyped
  <2> QED
    BY <1>3, <2>1 DEF Operate
<1>4. CASE op \in {"+", "-", "*"}
  <2>1. a + b \in Int /\ a - b \in Int /\ a * b \in Int
    OBVIOUS
  <2>2. Wrap(a + b) \in Int /\ Wrap(a - b) \in Int /\ Wrap(a * b) \in Int
    BY <2>1, WrapTyped
  <2> QED
    BY <1>4, <2>2 DEF Operate
<1> QED
  BY <1>1, <1>2, <1>3, <1>4 DEF Operators

\* The digit of a character is a number.
LEMMA DigitTyped ==
    ASSUME NEW c, IsDigit(c)
    PROVE  DigitOf(c) \in Int
<1> DEFINE n == CHOOSE d \in DOMAIN Digit : Digit[d] = c
<1>1. \E d \in DOMAIN Digit : Digit[d] = c
  BY DEF IsDigit, Range
<1>2. n \in DOMAIN Digit
  BY <1>1
<1>3. DOMAIN Digit = 1..10
  BY DEF Digit
<1>4. DigitOf(c) = n - 1
  BY DEF DigitOf
<1> HIDE DEF n
<1>5. n \in Int
  BY <1>2, <1>3
<1> QED
  BY <1>4, <1>5

\* The digits are characters, and the end of a text is none of them.
LEMMA DigitsAre ==
    /\ DOMAIN Digit = 1..10
    /\ \A d \in 1..10 : Digit[d] \in Char /\ Digit[d] # End
<1>1. DOMAIN Digit = 1..10
  BY DEF Digit
<1>2. Range(Digit) \subseteq Char /\ End \notin Char
  BY WordsAssumption
<1> QED
  BY <1>1, <1>2 DEF Range

LEMMA EndIsNoDigit == ~IsDigit(End)
BY DigitsAre DEF IsDigit, Range

\* The value of a literal up to each digit.
Digits(s, i, j) ==
    LET val[k \in (i - 1)..(j - 1)] ==
            IF k < i THEN 0 ELSE Wrap(val[k - 1] * 10 + DigitOf(s[k]))
    IN  val

\* The value of the digits of a literal is an integer.
LEMMA DigitsTyped ==
    ASSUME NEW s, NEW i \in Nat, NEW j \in Nat, i <= j,
           \A k \in i..(j - 1) : IsDigit(s[k])
    PROVE  Digits(s, i, j)[j - 1] \in Int
<1> DEFINE Dom == (i - 1)..(j - 1)
           Fs == [Dom -> Int]
           One(f, k) == IF k < i THEN 0 ELSE Wrap(f[k - 1] * 10 + DigitOf(s[k]))
           rank == [k \in Dom |-> k - (i - 1)]
           step == [f \in Fs |-> [k \in Dom |-> One(f, k)]]
           N == j - i
<1>1. N \in Nat /\ rank \in [Dom -> 0..N]
  OBVIOUS
<1>2. ASSUME NEW f \in Fs, NEW k \in Dom PROVE One(f, k) \in Int
  <2>1. CASE k < i
    BY <2>1
  <2>2. CASE ~(k < i)
    <3>1. k - 1 \in Dom /\ IsDigit(s[k])
      BY <2>2
    <3>2. f[k - 1] \in Int /\ DigitOf(s[k]) \in Int
      BY <3>1, DigitTyped
    <3>3. f[k - 1] * 10 + DigitOf(s[k]) \in Int
      BY <3>2
    <3> QED
      BY <2>2, <3>3, WrapTyped
  <2> QED
    BY <2>1, <2>2
<1>3. step \in [Fs -> Fs]
  <2> HIDE DEF One
  <2> QED
    BY <1>2
<1>4. ASSUME NEW f \in Fs, NEW g \in Fs, NEW k \in Dom,
             \A y \in Dom : rank[y] < rank[k] => f[y] = g[y]
      PROVE  step[f][k] = step[g][k]
  <2>1. One(f, k) = One(g, k)
    <3>1. CASE ~(k < i)
      <4>1. k - 1 \in Dom /\ rank[k - 1] < rank[k]
        BY <3>1
      <4>2. f[k - 1] = g[k - 1]
        BY <1>4, <4>1
      <4> QED
        BY <4>2
    <3> QED
      BY <3>1
  <2> HIDE DEF One
  <2> QED
    BY <2>1
<1>5. PICK f \in Fs : step[f] = f
  <2> DEFINE d == [k \in Dom |-> 0]
  <2>1. d \in Fs
    OBVIOUS
  <2>2. \A f \in Fs : FunctionOn(f, Dom)
    BY DEF FunctionOn
  <2> HIDE DEF Fs, Dom, step, rank, N, d
  <2>3. Local(step, Fs, Dom, rank)
    BY <1>4 DEF Local
  <2> QED
    BY <1>1, <1>3, <2>1, <2>2, <2>3, Ranked
<1>6. f = [k \in Dom |-> One(f, k)]
  <2> HIDE DEF One
  <2> QED
    BY <1>5
<1> DEFINE v == Digits(s, i, j)
<1>7. v = [k \in Dom |-> One(v, k)]
  BY <1>6 DEF Digits
<1> HIDE DEF v
<1>8. \A k \in Dom : v[k] \in Int
  <2> DEFINE S == {k \in Dom : v[k] \in Int}
  <2>1. ASSUME NEW k \in Dom, \A y \in Dom : rank[y] < rank[k] => y \in S
        PROVE  k \in S
    <3>1. v[k] = One(v, k)
      <4> HIDE DEF One, Dom
      <4> QED
        BY <1>7
    <3>2. CASE k < i
      BY <3>1, <3>2
    <3>3. CASE ~(k < i)
      <4>1. k - 1 \in Dom /\ rank[k - 1] < rank[k] /\ IsDigit(s[k])
        BY <3>3
      <4>2. v[k - 1] \in Int /\ DigitOf(s[k]) \in Int
        BY <2>1, <4>1, DigitTyped
      <4>3. v[k - 1] * 10 + DigitOf(s[k]) \in Int
        BY <4>2
      <4>4. Wrap(v[k - 1] * 10 + DigitOf(s[k])) \in Int
        BY <4>3, WrapTyped
      <4> QED
        BY <3>1, <3>3, <4>4
    <3> QED
      BY <3>2, <3>3
  <2>2. Inherited(S, Dom, rank)
    BY <2>1 DEF Inherited
  <2> HIDE DEF Dom, rank, S, N
  <2>3. \A k \in Dom : k \in S
    BY <1>1, <2>2, RankInduction
  <2> QED
    BY <2>3 DEF S
<1> QED
  <2>1. j - 1 \in Dom
    OBVIOUS
  <2> QED
    BY <1>8, <2>1 DEF v

\* Where an expression and its parts stop: an integer, past where they began
\* unless they are refused.
Done(s, i) == {r \in [val : Int, i : 1..(Len(s) + 1), err : {"none", "syntax", "zero", "trap"}] :
                  r.i >= i /\ (r.err = "none" => r.i > i)}

\* A literal is a number, and what follows it is past its first digit.
LEMMA LiteralTyped ==
    ASSUME NEW s \in Text, NEW i \in 1..Len(s), IsDigit(s[i])
    PROVE  Literal(s, i).val \in Int /\ Literal(s, i).i \in (i + 1)..(Len(s) + 1)
<1> DEFINE j == After(s, i, Range(Digit))
           n == Len(s)
<1>1. n \in Nat /\ i \in 1..(n + 1)
  BY DEF Text
<1> HIDE DEF n
<1>2. /\ j \in i..(n + 1) /\ (j > n \/ s[j] \notin Range(Digit))
      /\ \A k \in i..(j - 1) : s[k] \in Range(Digit)
  BY <1>1, AfterIs DEF n
<1> HIDE DEF j
<1>3. j # i
  BY <1>1, <1>2 DEF IsDigit, n
<1>4. Digits(s, i, j)[j - 1] \in Int
  <2>1. i \in Nat /\ j \in Nat /\ i <= j
    BY <1>1, <1>2
  <2>2. \A k \in i..(j - 1) : IsDigit(s[k])
    BY <1>2 DEF IsDigit
  <2> QED
    BY <2>1, <2>2, DigitsTyped
<1>5. Literal(s, i) = Result(Digits(s, i, j)[j - 1], j, "none")
  BY DEF Literal, Digits, j
<1> QED
  BY <1>1, <1>2, <1>3, <1>4, <1>5 DEF Result, n

Errors == {"none", "syntax", "zero", "trap"}

\* What an operation or a part of an expression comes to.
Outcome(s) == [val : Int, i : 1..(Len(s) + 1), err : Errors]

\* r is what an expression comes to that begins at i: past i, unless it is refused.
Ended(s, i, r) == r \in Outcome(s) /\ r.i >= i /\ (r.err = "none" => r.i > i)

LEMMA ResultIs ==
    ASSUME NEW s, NEW val \in Int, NEW i \in 1..(Len(s) + 1), NEW err \in Errors
    PROVE  /\ Result(val, i, err) \in Outcome(s)
           /\ Result(val, i, err).i = i /\ Result(val, i, err).err = err
BY DEF Result, Outcome

\* parse_factor stops past a factor or refuses it.
LEMMA FactorTyped ==
    ASSUME NEW s \in Text, NEW i \in 1..(Len(s) + 1), NEW Inside,
           \A j \in 1..(Len(s) + 1) : j > i => Ended(s, j, Inside[j])
    PROVE  Ended(s, i, ParseFactor(s, i, Inside))
<1> DEFINE n    == Len(s)
           i0   == SkipSpaces(s, i)
           sign == IF At(s, i0) = "-" THEN -1 ELSE 1
           i1   == IF sign = -1 THEN i0 + 1 ELSE i0
           e    == Inside[i1 + 1]
           j    == SkipSpaces(s, e.i)
           R    == ParseFactor(s, i, Inside)
<1>1. n \in Nat /\ i \in 1..(n + 1)
  BY DEF Text
<1> SUFFICES Ended(s, i, R)
  OBVIOUS
<1>2. i0 \in i..(n + 1)
  <2> HIDE DEF n
  <2> QED
    BY <1>1, AfterIs DEF SkipSpaces, n
<1>3. sign \in Int /\ (sign = -1 <=> At(s, i0) = "-")
  OBVIOUS
<1> HIDE DEF i0
<1>4. i1 \in i..(n + 1)
  <2>1. i0 \in Nat
    BY <1>1, <1>2
  <2>2. At(s, i0) = "-" => i0 \in 1..n
    BY <2>1, AtIs DEF End
  <2> HIDE DEF n
  <2> QED
    BY <1>1, <1>2, <1>3, <2>2
<1>5. \A c \in Int : sign * c \in Int
  BY <1>3
<1> HIDE DEF sign
<1>6. /\ At(s, i1) = "(" => R = IF e.err = "trap" THEN e
                                ELSE IF At(s, j) = ")"
                                     THEN Result(Wrap(sign * e.val), j + 1, e.err)
                                     ELSE Result(0, j, "syntax")
      /\ At(s, i1) # "(" /\ IsDigit(At(s, i1)) =>
             R = Result(Wrap(sign * Literal(s, i1).val), Literal(s, i1).i, "none")
      /\ At(s, i1) # "(" /\ ~IsDigit(At(s, i1)) => R = Result(0, i1, "syntax")
  <2> USE DEF sign, i0
  <2>1. CASE At(s, i1) = "("
    <3>1. ~IsDigit("(")
      BY DEF IsDigit, Digit, Range
    <3> QED
      BY <2>1, <3>1 DEF ParseFactor
  <2>2. CASE At(s, i1) # "("
    BY <2>2 DEF ParseFactor
  <2> QED
    BY <2>1, <2>2
<1> HIDE DEF i1, R
<1>7. i1 \in Nat
  BY <1>1, <1>4
<1>8. CASE At(s, i1) = "("
  <2>1. i1 \in 1..n /\ i1 + 1 \in 1..(n + 1) /\ i1 + 1 > i
    <3>1. i1 \in 1..Len(s)
      BY <1>7, <1>8, AtIs DEF End
    <3> QED
      BY <1>1, <1>4, <3>1
  <2>2. Ended(s, i1 + 1, e)
    BY <2>1
  <2> HIDE DEF e, n
  <2>3. e.val \in Int /\ e.i \in 1..(n + 1) /\ e.err \in Errors /\ e.i >= i1 + 1
        /\ e \in Outcome(s)
    BY <2>2 DEF Ended, Outcome, n
  <2>4. j \in (e.i)..(n + 1)
    BY <1>1, <2>3, AfterIs DEF SkipSpaces, n
  <2>5. Wrap(sign * e.val) \in Int
    BY <1>5, <2>3, WrapTyped
  <2> HIDE DEF j
  <2>6. CASE e.err = "trap"
    <3>1. R = e
      BY <1>6, <1>8, <2>6
    <3> QED
      BY <1>1, <1>4, <2>1, <2>3, <2>6, <3>1 DEF Ended
  <2>7. CASE e.err # "trap" /\ At(s, j) = ")"
    <3>1. R = Result(Wrap(sign * e.val), j + 1, e.err)
      BY <1>6, <1>8, <2>7
    <3>2. j \in Nat
      BY <1>1, <2>3, <2>4
    <3>3. j \in 1..Len(s)
      BY <2>7, <3>2, AtIs DEF End
    <3>4. j + 1 \in 1..(Len(s) + 1) /\ j + 1 > i
      BY <1>1, <2>1, <2>3, <2>4, <3>3 DEF n
    <3> QED
      BY <2>3, <2>5, <3>1, <3>4, ResultIs DEF Ended
  <2>8. CASE e.err # "trap" /\ At(s, j) # ")"
    <3>1. R = Result(0, j, "syntax")
      BY <1>6, <1>8, <2>8
    <3>2. j \in 1..(Len(s) + 1) /\ j >= i
      BY <1>1, <2>1, <2>3, <2>4 DEF n
    <3> QED
      <4>1. 0 \in Int /\ "syntax" \in Errors
        BY DEF Errors
      <4>2. R \in Outcome(s) /\ R.i = j /\ R.err = "syntax"
        BY <3>1, <3>2, <4>1, ResultIs
      <4> QED
        BY <3>2, <4>2 DEF Ended
  <2> QED
    BY <2>6, <2>7, <2>8
<1>9. CASE At(s, i1) # "(" /\ IsDigit(At(s, i1))
  <2>1. At(s, i1) # End
    <3>1. ~IsDigit(End)
      BY EndIsNoDigit
    <3> QED
      BY <1>9, <3>1
  <2>2. i1 \in 1..Len(s) /\ IsDigit(s[i1])
    BY <1>7, <1>9, <2>1, AtIs
  <2>3. Literal(s, i1).val \in Int /\ Literal(s, i1).i \in (i1 + 1)..(n + 1)
    BY <2>2, LiteralTyped
  <2>4. Wrap(sign * Literal(s, i1).val) \in Int
    BY <1>5, <2>3, WrapTyped
  <2>5. Literal(s, i1).i \in 1..(Len(s) + 1) /\ Literal(s, i1).i > i
    BY <1>1, <1>4, <1>7, <2>3
  <2> QED
    BY <1>6, <1>9, <2>4, <2>5, ResultIs DEF Ended, Errors
<1>10. CASE At(s, i1) # "(" /\ ~IsDigit(At(s, i1))
  <2>1. i1 \in 1..(Len(s) + 1) /\ i1 >= i
    BY <1>1, <1>4, <1>7
  <2> QED
    BY <1>6, <1>10, <2>1, ResultIs DEF Ended, Errors
<1> QED
  BY <1>8, <1>9, <1>10

\* A factor depends on what is inside it, which is past its beginning.
LEMMA FactorLocal ==
    ASSUME NEW s \in Text, NEW i \in 1..(Len(s) + 1), NEW A, NEW B,
           \A j \in 1..(Len(s) + 1) : j > i => A[j] = B[j]
    PROVE  ParseFactor(s, i, A) = ParseFactor(s, i, B)
<1> DEFINE n    == Len(s)
           i0   == SkipSpaces(s, i)
           sign == IF At(s, i0) = "-" THEN -1 ELSE 1
           i1   == IF sign = -1 THEN i0 + 1 ELSE i0
<1>1. n \in Nat /\ i \in 1..(n + 1)
  BY DEF Text
<1>2. i0 \in i..(n + 1)
  <2> HIDE DEF n
  <2> QED
    BY <1>1, AfterIs DEF SkipSpaces, n
<1> HIDE DEF i0
<1>3. i1 \in Nat /\ i1 >= i
  BY <1>1, <1>2
<1>4. At(s, i1) = "(" => A[i1 + 1] = B[i1 + 1]
  <2> HIDE DEF i1
  <2>1. At(s, i1) = "(" => i1 \in 1..n
    BY <1>3, AtIs DEF End
  <2> QED
    BY <1>1, <1>3, <2>1
<1> QED
  BY <1>4 DEF ParseFactor, i0

\* Where a level of the descent may be, and how far it is from its end.
Turns(s) == [level : DOMAIN Levels, res : Results(s)]

Fresh(t) == t.level = "factor" \/ t.res.err = "start"

Depth(t) == CASE t.level = "factor" -> 0
              [] t.level = "term" -> IF t.res.err = "start" THEN 2 ELSE 1
              [] OTHER -> IF t.res.err = "start" THEN 4 ELSE 3

ToDo(s) == [t \in Turns(s) |-> 5 * (Len(s) + 1 - t.res.i) + Depth(t)]

StartOf(level, i) == [level |-> level, res |-> Result(0, i, "start")]

\* a turn of the descent, given what the turns it calls come to
ParseTurn(s, parse, t) ==
    LET inside     == [i \in 1..(Len(s) + 1) |-> parse[StartOf("expr", i)]]
        operand(i) == parse[StartOf(Below[t.level], i)]
        i          == SkipSpaces(s, t.res.i)
    IN  CASE t.level = "factor" -> ParseFactor(s, t.res.i, inside)
          [] t.level # "factor" /\ t.res.err = "start" ->
               parse[[t EXCEPT !.res = operand(t.res.i)]]
          [] t.level # "factor" /\ t.res.err = "none" /\ At(s, i) \in Levels[t.level] ->
               parse[[t EXCEPT !.res = Combine(s[i], t.res, operand(i + 1))]]
          [] OTHER -> [t.res EXCEPT !.i = i]

\* r is what the turn t comes to.
TurnEnds(s, t, r) ==
    /\ r \in Outcome(s) /\ r.i >= t.res.i
    /\ Fresh(t) /\ r.err = "none" => r.i > t.res.i
    /\ ~Fresh(t) /\ t.res.err # "none" => r.err # "none"

\* What f gives for the turns nearer to their end than t is what they come to.
EndsBelow(s, t, f) == \A u \in Turns(s) : ToDo(s)[u] < ToDo(s)[t] => TurnEnds(s, u, f[u])

Descents(s) == {f \in [Turns(s) -> Outcome(s)] : \A t \in Turns(s) : TurnEnds(s, t, f[t])}

LEMMA LevelsAre ==
    /\ DOMAIN Levels = {"expr", "term", "factor"}
    /\ \A l \in {"expr", "term"} : Levels[l] \subseteq Operators
    /\ Below["expr"] = "term" /\ Below["term"] = "factor"
BY DEF Levels, Below, Operators

\* The fields of a turn.
LEMMA TurnIs ==
    ASSUME NEW s \in Text, NEW t \in Turns(s)
    PROVE  /\ t.level \in {"expr", "term", "factor"}
           /\ t.res \in Results(s) /\ t.res.val \in Int /\ t.res.i \in 1..(Len(s) + 1)
           /\ t.res.err \in {"start", "none", "syntax", "zero", "trap"}
           /\ \A r \in Outcome(s) : r \in Results(s) /\ r.err # "start"
                                    /\ [t EXCEPT !.res = r] \in Turns(s)
                                    /\ [t EXCEPT !.res = r].level = t.level
                                    /\ [t EXCEPT !.res = r].res = r
BY LevelsAre DEF Turns, Results, Outcome, Errors

LEMMA StartIs ==
    ASSUME NEW s \in Text, NEW i \in 1..(Len(s) + 1), NEW level \in {"expr", "term", "factor"}
    PROVE  /\ StartOf(level, i) \in Turns(s) /\ Fresh(StartOf(level, i))
           /\ StartOf(level, i).res.i = i /\ StartOf(level, i).level = level
           /\ StartOf(level, i).res.err = "start"
BY LevelsAre DEF StartOf, Turns, Results, Result, Fresh

\* What a turn waits for is nearer to its end.
LEMMA Ranks ==
    ASSUME NEW s \in Text
    PROVE  /\ ToDo(s) \in [Turns(s) -> 0..(5 * Len(s) + 4)]
           /\ \A t \in Turns(s) : \A u \in Turns(s) :
                \/ u.res.i > t.res.i
                \/ u.res.i >= t.res.i /\ Depth(u) < Depth(t)
                => ToDo(s)[u] < ToDo(s)[t]
<1> DEFINE n == Len(s)
<1>1. n \in Nat
  BY DEF Text
<1>2. \A t \in Turns(s) : t.res.i \in 1..(n + 1) /\ Depth(t) \in 0..4
  BY TurnIs DEF Depth
<1>3. \A t \in Turns(s) : ToDo(s)[t] = 5 * (n + 1 - t.res.i) + Depth(t)
  BY DEF ToDo
<1>4. \A i \in 1..(n + 1), d \in 0..4 : 5 * (n + 1 - i) + d \in 0..(5 * n + 4)
  <2> HIDE DEF n
  <2> QED
    BY <1>1
<1>5. \A i \in 1..(n + 1), d \in 0..4, j \in 1..(n + 1), c \in 0..4 :
         (j > i \/ (j >= i /\ c < d)) => 5 * (n + 1 - j) + c < 5 * (n + 1 - i) + d
  <2> HIDE DEF n
  <2> QED
    BY <1>1
<1>6. ToDo(s) = [t \in Turns(s) |-> 5 * (n + 1 - t.res.i) + Depth(t)]
  BY DEF ToDo
<1> HIDE DEF n
<1>7. ToDo(s) \in [Turns(s) -> 0..(5 * n + 4)]
  BY <1>2, <1>4, <1>6
<1>8. ASSUME NEW t \in Turns(s), NEW u \in Turns(s),
             u.res.i > t.res.i \/ (u.res.i >= t.res.i /\ Depth(u) < Depth(t))
      PROVE  ToDo(s)[u] < ToDo(s)[t]
  BY <1>2, <1>3, <1>5, <1>8
<1> QED
  BY <1>7, <1>8 DEF n

\* The step from a result to the next by an operation.
LEMMA CombineTyped ==
    ASSUME NEW s \in Text, NEW op \in Operators, NEW l \in Results(s), NEW r \in Outcome(s)
    PROVE  Combine(op, l, r) \in Outcome(s) /\ Combine(op, l, r).i = r.i
<1>1. r.val \in Int /\ r.i \in 1..(Len(s) + 1) /\ r.err \in Errors /\ l.val \in Int
  BY DEF Outcome, Results
<1> DEFINE o == Operate(op, l.val, r.val)
           e == IF o.err = "none" THEN r.err ELSE o.err
<1>2. o \in [err : {"none", "zero", "trap"}, val : Int]
  BY <1>1, OperateTyped
<1>3. Combine(op, l, r) = IF r.err = "trap" THEN r ELSE Result(o.val, r.i, e)
  BY DEF Combine
<1> HIDE DEF o
<1>4. e \in Errors /\ o.val \in Int
  BY <1>1, <1>2 DEF Errors
<1> HIDE DEF e
<1>5. Result(o.val, r.i, e) \in Outcome(s) /\ Result(o.val, r.i, e).i = r.i
  BY <1>1, <1>4, ResultIs
<1> QED
  BY <1>3, <1>5

\* The cases of a turn: a factor, the first operand, one more operand, the end.
Skipped(s, t) == SkipSpaces(s, t.res.i)

More(s, t) == t.level # "factor" /\ t.res.err = "none" /\ At(s, Skipped(s, t)) \in Levels[t.level]

LEMMA FactorTurn ==
    ASSUME NEW s \in Text, NEW t \in Turns(s), NEW parse, t.level = "factor"
    PROVE  ParseTurn(s, parse, t)
             = ParseFactor(s, t.res.i, [i \in 1..(Len(s) + 1) |-> parse[StartOf("expr", i)]])
BY DEF ParseTurn

LEMMA FirstTurn ==
    ASSUME NEW s \in Text, NEW t \in Turns(s), NEW parse,
           t.level # "factor", t.res.err = "start"
    PROVE  ParseTurn(s, parse, t)
             = parse[[t EXCEPT !.res = parse[StartOf(Below[t.level], t.res.i)]]]
BY DEF ParseTurn

LEMMA MoreTurn ==
    ASSUME NEW s \in Text, NEW t \in Turns(s), NEW parse, More(s, t)
    PROVE  ParseTurn(s, parse, t)
             = parse[[t EXCEPT !.res = Combine(s[Skipped(s, t)], t.res,
                          parse[StartOf(Below[t.level], Skipped(s, t) + 1)])]]
BY DEF ParseTurn, More, Skipped

LEMMA LastTurn ==
    ASSUME NEW s \in Text, NEW t \in Turns(s), NEW parse,
           t.level # "factor", t.res.err # "start", ~More(s, t)
    PROVE  ParseTurn(s, parse, t) = [t.res EXCEPT !.i = Skipped(s, t)]
BY DEF ParseTurn, More, Skipped

\* Where the next operand begins.
LEMMA MoreIs ==
    ASSUME NEW s \in Text, NEW t \in Turns(s)
    PROVE  /\ Skipped(s, t) \in (t.res.i)..(Len(s) + 1)
           /\ More(s, t) => /\ Skipped(s, t) \in 1..Len(s)
                            /\ s[Skipped(s, t)] \in Operators
                            /\ t.level \in {"expr", "term"}
<1> DEFINE k == Skipped(s, t)
<1>1. Len(s) \in Nat /\ t.res.i \in 1..(Len(s) + 1) /\ t.level \in {"expr", "term", "factor"}
  BY TurnIs DEF Text
<1>2. k \in (t.res.i)..(Len(s) + 1)
  BY <1>1, AfterIs DEF Skipped, SkipSpaces
<1> HIDE DEF k
<1>3. k \in Nat
  BY <1>1, <1>2
<1>4. ASSUME More(s, t) PROVE k \in 1..Len(s) /\ s[k] \in Operators /\ t.level \in {"expr", "term"}
  <2>1. t.level \in {"expr", "term"} /\ At(s, k) \in Levels[t.level]
    BY <1>1, <1>4 DEF More, k
  <2>2. At(s, k) \in Operators
    BY <2>1, LevelsAre
  <2>3. At(s, k) # End
    BY <2>2 DEF Operators, End
  <2> QED
    BY <1>3, <2>1, <2>2, <2>3, AtIs
<1> QED
  BY <1>2, <1>4 DEF k

\* The turns a turn waits for.
LEMMA FactorWaits ==
    ASSUME NEW s \in Text, NEW t \in Turns(s), t.level = "factor", NEW f, EndsBelow(s, t, f),
           NEW j \in 1..(Len(s) + 1), j > t.res.i
    PROVE  /\ StartOf("expr", j) \in Turns(s)
           /\ ToDo(s)[StartOf("expr", j)] < ToDo(s)[t]
           /\ Ended(s, j, f[StartOf("expr", j)])
<1> DEFINE u == StartOf("expr", j)
<1>1. u \in Turns(s) /\ Fresh(u) /\ u.res.i = j
  BY StartIs
<1> HIDE DEF u
<1>2. ToDo(s)[u] < ToDo(s)[t]
  BY <1>1, Ranks
<1>3. TurnEnds(s, u, f[u])
  BY <1>1, <1>2 DEF EndsBelow
<1> QED
  BY <1>1, <1>2, <1>3 DEF TurnEnds, Ended, u

LEMMA OperandWaits ==
    ASSUME NEW s \in Text, NEW t \in Turns(s), t.level # "factor", NEW f, EndsBelow(s, t, f),
           NEW i \in 1..(Len(s) + 1),
           i > t.res.i \/ (i = t.res.i /\ t.res.err = "start")
    PROVE  /\ StartOf(Below[t.level], i) \in Turns(s)
           /\ ToDo(s)[StartOf(Below[t.level], i)] < ToDo(s)[t]
           /\ Ended(s, i, f[StartOf(Below[t.level], i)])
<1> DEFINE u == StartOf(Below[t.level], i)
<1>1. t.level \in {"expr", "term"}
  BY TurnIs
<1>2. Below[t.level] \in {"term", "factor"} /\ (t.level = "term" => Below[t.level] = "factor")
  BY <1>1, LevelsAre
<1>3. u \in Turns(s) /\ Fresh(u) /\ u.res.i = i /\ u.level = Below[t.level]
      /\ u.res.err = "start"
  BY <1>2, StartIs
<1> HIDE DEF u
<1>4. t.res.err = "start" => Depth(u) < Depth(t)
  BY <1>1, <1>2, <1>3 DEF Depth
<1>5. t.res.i \in Int
  BY TurnIs
<1>6. ToDo(s)[u] < ToDo(s)[t]
  BY <1>3, <1>4, <1>5, Ranks
<1>7. TurnEnds(s, u, f[u])
  BY <1>3, <1>6 DEF EndsBelow
<1> QED
  BY <1>3, <1>6, <1>7 DEF TurnEnds, Ended, u

LEMMA RestWaits ==
    ASSUME NEW s \in Text, NEW t \in Turns(s), t.level # "factor", NEW f, EndsBelow(s, t, f),
           NEW r \in Outcome(s),
           r.i > t.res.i \/ (r.i >= t.res.i /\ t.res.err = "start")
    PROVE  /\ [t EXCEPT !.res = r] \in Turns(s)
           /\ ToDo(s)[[t EXCEPT !.res = r]] < ToDo(s)[t]
           /\ f[[t EXCEPT !.res = r]] \in Outcome(s)
           /\ f[[t EXCEPT !.res = r]].i >= r.i
           /\ f[[t EXCEPT !.res = r]].err = "none" => r.err = "none"
<1> DEFINE u == [t EXCEPT !.res = r]
<1>1. t.level \in {"expr", "term"} /\ t.res.i \in Int
  BY TurnIs
<1>2. u \in Turns(s) /\ u.level = t.level /\ u.res = r /\ r.err # "start"
  BY TurnIs
<1> HIDE DEF u
<1>3. t.res.err = "start" => Depth(u) < Depth(t)
  BY <1>1, <1>2 DEF Depth
<1>4. r.i \in Int
  BY DEF Outcome
<1>5. ToDo(s)[u] < ToDo(s)[t]
  BY <1>1, <1>2, <1>3, <1>4, Ranks
<1>6. TurnEnds(s, u, f[u])
  BY <1>2, <1>5 DEF EndsBelow
<1>7. ~Fresh(u)
  BY <1>1, <1>2 DEF Fresh
<1> QED
  BY <1>2, <1>5, <1>6, <1>7 DEF TurnEnds, u

\* A turn comes to what it should if those it waits for do, and depends on no other.
LEMMA TurnTyped ==
    ASSUME NEW s \in Text, NEW t \in Turns(s), NEW f, EndsBelow(s, t, f), NEW g,
           \A u \in Turns(s) : ToDo(s)[u] < ToDo(s)[t] => g[u] = f[u]
    PROVE  TurnEnds(s, t, ParseTurn(s, f, t)) /\ ParseTurn(s, g, t) = ParseTurn(s, f, t)
<1> DEFINE i == t.res.i
           R(h) == ParseTurn(s, h, t)
<1>1. i \in 1..(Len(s) + 1) /\ Len(s) \in Nat
  BY TurnIs DEF Text
<1>2. CASE t.level = "factor"
  <2> DEFINE In(h) == [j \in 1..(Len(s) + 1) |-> h[StartOf("expr", j)]]
  <2>1. R(f) = ParseFactor(s, i, In(f)) /\ R(g) = ParseFactor(s, i, In(g))
    BY <1>2, FactorTurn
  <2>2. \A j \in 1..(Len(s) + 1) : j > i =>
           Ended(s, j, f[StartOf("expr", j)]) /\ g[StartOf("expr", j)] = f[StartOf("expr", j)]
    BY <1>2, FactorWaits
  <2>3. \A j \in 1..(Len(s) + 1) : j > i => Ended(s, j, In(f)[j]) /\ In(f)[j] = In(g)[j]
    BY <2>2
  <2> DEFINE a == In(f)
             b == In(g)
  <2>4. \A j \in 1..(Len(s) + 1) : j > i => Ended(s, j, a[j])
    BY <2>3
  <2>5. \A j \in 1..(Len(s) + 1) : j > i => a[j] = b[j]
    BY <2>3
  <2> HIDE DEF a, b
  <2>6. Ended(s, i, ParseFactor(s, i, a))
    BY <1>1, <2>4, FactorTyped
  <2>7. ParseFactor(s, i, a) = ParseFactor(s, i, b)
    BY <1>1, <2>5, FactorLocal
  <2>8. Ended(s, i, R(f)) /\ R(f) = R(g)
    BY <2>1, <2>6, <2>7 DEF a, b
  <2> HIDE DEF R
  <2>9. TurnEnds(s, t, R(f))
    BY <1>2, <2>8 DEF Ended, TurnEnds, Fresh
  <2> QED
    BY <2>8, <2>9 DEF R
<1>3. CASE t.level # "factor" /\ t.res.err = "start"
  <2> DEFINE u == StartOf(Below[t.level], i)
             v == [t EXCEPT !.res = f[u]]
  <2>1. u \in Turns(s) /\ ToDo(s)[u] < ToDo(s)[t] /\ Ended(s, i, f[u])
    BY <1>1, <1>3, OperandWaits
  <2> HIDE DEF u
  <2>2. f[u] \in Outcome(s) /\ f[u].i >= i /\ (f[u].err = "none" => f[u].i > i)
    BY <2>1 DEF Ended
  <2>3. /\ v \in Turns(s) /\ ToDo(s)[v] < ToDo(s)[t] /\ f[v] \in Outcome(s)
        /\ f[v].i >= f[u].i /\ (f[v].err = "none" => f[u].err = "none")
    BY <1>3, <2>2, RestWaits
  <2>4. R(f) = f[v] /\ R(g) = g[[t EXCEPT !.res = g[u]]]
    BY <1>3, FirstTurn DEF u
  <2>5. g[u] = f[u] /\ g[v] = f[v]
    BY <2>1, <2>3
  <2>6. R(g) = R(f)
    BY <2>4, <2>5
  <2> HIDE DEF v, R
  <2>7. f[v].i \in Int /\ f[u].i \in Int
    BY <2>2, <2>3 DEF Outcome
  <2>8. TurnEnds(s, t, R(f))
    BY <1>1, <1>3, <2>2, <2>3, <2>4, <2>7 DEF TurnEnds, Fresh
  <2> QED
    BY <2>6, <2>8 DEF R
<1>4. CASE More(s, t)
  <2> DEFINE k == Skipped(s, t)
             u == StartOf(Below[t.level], k + 1)
             c == Combine(s[k], t.res, f[u])
             v == [t EXCEPT !.res = c]
  <2>1. /\ k \in i..(Len(s) + 1) /\ k \in 1..Len(s) /\ s[k] \in Operators
        /\ t.level # "factor" /\ t.res.err = "none"
    BY <1>4, MoreIs DEF More
  <2> HIDE DEF k
  <2>2. k + 1 \in 1..(Len(s) + 1) /\ k + 1 > i
    BY <1>1, <2>1
  <2>3. u \in Turns(s) /\ ToDo(s)[u] < ToDo(s)[t] /\ Ended(s, k + 1, f[u])
    BY <2>1, <2>2, OperandWaits
  <2> HIDE DEF u
  <2>4. f[u] \in Outcome(s) /\ f[u].i >= k + 1
    BY <2>3 DEF Ended
  <2>5. c \in Outcome(s) /\ c.i = f[u].i
    BY <2>1, <2>4, TurnIs, CombineTyped
  <2> HIDE DEF c
  <2>6. c.i > i /\ f[u].i \in Int
    BY <1>1, <2>2, <2>4, <2>5 DEF Outcome
  <2>7. /\ v \in Turns(s) /\ ToDo(s)[v] < ToDo(s)[t] /\ f[v] \in Outcome(s) /\ f[v].i >= c.i
    BY <2>1, <2>5, <2>6, RestWaits
  <2>8. R(f) = f[[t EXCEPT !.res = Combine(s[k], t.res, f[u])]]
        /\ R(g) = g[[t EXCEPT !.res = Combine(s[k], t.res, g[u])]]
    BY <1>4, MoreTurn DEF u, k
  <2>9. g[u] = f[u] /\ g[v] = f[v]
    BY <2>3, <2>7
  <2>10. R(f) = f[v] /\ R(g) = R(f)
    BY <2>8, <2>9 DEF c
  <2> HIDE DEF v, R
  <2>11. f[v].i \in Int
    BY <2>7 DEF Outcome
  <2>12. TurnEnds(s, t, R(f))
    BY <1>1, <2>1, <2>5, <2>6, <2>7, <2>10, <2>11 DEF TurnEnds, Fresh
  <2> QED
    BY <2>10, <2>12 DEF R
<1>5. CASE t.level # "factor" /\ t.res.err # "start" /\ ~More(s, t)
  <2> DEFINE k == Skipped(s, t)
             r == [t.res EXCEPT !.i = k]
  <2>1. k \in i..(Len(s) + 1)
    BY MoreIs
  <2>2. R(f) = r /\ R(g) = r
    BY <1>5, LastTurn
  <2>3. t.res \in Results(s) /\ t.res.err \in Errors
    BY <1>5, TurnIs DEF Errors
  <2> HIDE DEF k, R
  <2>4. r \in Outcome(s) /\ r.i = k /\ r.err = t.res.err
    BY <1>1, <2>1, <2>3 DEF Results, Outcome
  <2> HIDE DEF r
  <2>5. TurnEnds(s, t, r)
    BY <1>1, <1>5, <2>1, <2>4 DEF TurnEnds, Fresh
  <2> QED
    BY <2>2, <2>5 DEF R
<1> QED
  BY <1>2, <1>3, <1>4, <1>5 DEF More

\* The descent of Parse.
Descent(s) ==
    LET Start(level, i) == [level |-> level, res |-> Result(0, i, "start")]
        parse[t \in [level : DOMAIN Levels, res : Results(s)]] ==
            LET inside     == [i \in 1..(Len(s) + 1) |-> parse[Start("expr", i)]]
                operand(i) == parse[Start(Below[t.level], i)]
                i          == SkipSpaces(s, t.res.i)
            IN  CASE t.level = "factor" -> ParseFactor(s, t.res.i, inside)
                  [] t.level # "factor" /\ t.res.err = "start" ->
                       parse[[t EXCEPT !.res = operand(t.res.i)]]
                  [] t.level # "factor" /\ t.res.err = "none" /\ At(s, i) \in Levels[t.level] ->
                       parse[[t EXCEPT !.res = Combine(s[i], t.res, operand(i + 1))]]
                  [] OTHER -> [t.res EXCEPT !.i = i]
    IN  parse

LEMMA ParseIs == ASSUME NEW s PROVE Parse(s) = Descent(s)[StartOf("expr", 1)]
BY DEF Parse, Descent, StartOf

\* There is a function that descends.
LEMMA DescentExists ==
    ASSUME NEW s \in Text
    PROVE  \E f : f = [t \in Turns(s) |-> ParseTurn(s, f, t)]
<1> DEFINE Dom  == Turns(s)
           Fs   == Descents(s)
           N    == 5 * Len(s) + 4
           rank == ToDo(s)
           step == [f \in Fs |-> [t \in Dom |-> ParseTurn(s, f, t)]]
           d    == [t \in Dom |-> Result(0, t.res.i, "syntax")]
<1>1. N \in Nat /\ rank \in [Dom -> 0..N]
  <2>1. Len(s) \in Nat
    BY DEF Text
  <2> QED
    BY <2>1, Ranks
<1>2. d \in Fs
  <2>1. ASSUME NEW t \in Dom PROVE TurnEnds(s, t, Result(0, t.res.i, "syntax"))
    <3>1. t.res.i \in 1..(Len(s) + 1) /\ 0 \in Int /\ "syntax" \in Errors
      BY TurnIs DEF Errors
    <3>2. Result(0, t.res.i, "syntax") \in Outcome(s)
          /\ Result(0, t.res.i, "syntax").i = t.res.i
          /\ Result(0, t.res.i, "syntax").err = "syntax"
      BY <3>1, ResultIs
    <3> QED
      BY <3>1, <3>2 DEF TurnEnds
  <2> QED
    BY <2>1 DEF Descents, TurnEnds
<1>3. ASSUME NEW f \in Fs, NEW t \in Dom PROVE TurnEnds(s, t, ParseTurn(s, f, t))
  <2>1. EndsBelow(s, t, f)
    BY DEF Descents, EndsBelow
  <2> QED
    BY <2>1, TurnTyped
<1>4. step \in [Fs -> Fs]
  <2>1. ASSUME NEW f \in Fs PROVE [t \in Dom |-> ParseTurn(s, f, t)] \in Fs
    BY <1>3 DEF Descents, TurnEnds
  <2> QED
    BY <2>1
<1>5. Local(step, Fs, Dom, rank)
  <2>1. ASSUME NEW f \in Fs, NEW g \in Fs, NEW t \in Dom,
               \A y \in Dom : rank[y] < rank[t] => f[y] = g[y]
        PROVE  step[f][t] = step[g][t]
    <3>1. EndsBelow(s, t, f)
      BY DEF Descents, EndsBelow
    <3>2. \A u \in Turns(s) : ToDo(s)[u] < ToDo(s)[t] => g[u] = f[u]
      BY <2>1
    <3>3. ParseTurn(s, g, t) = ParseTurn(s, f, t)
      BY <3>1, <3>2, TurnTyped
    <3> QED
      BY <3>3
  <2> HIDE DEF Fs, Dom, step, rank
  <2> QED
    BY <2>1 DEF Local
<1>6. \A f \in Fs : FunctionOn(f, Dom)
  BY DEF FunctionOn, Descents
<1>7. PICK f \in Fs : step[f] = f
  <2> HIDE DEF Fs, Dom, step, rank, N, d
  <2> QED
    BY <1>1, <1>2, <1>4, <1>5, <1>6, Ranked
<1> QED
  BY <1>7

\* Every text comes to a number or is refused.
LEMMA ParseTyped ==
    ASSUME NEW s \in Text
    PROVE  Ended(s, 1, Parse(s))
<1> DEFINE Dom  == Turns(s)
           N    == 5 * Len(s) + 4
           rank == ToDo(s)
           v    == Descent(s)
<1>1. PICK f : f = [t \in Turns(s) |-> ParseTurn(s, f, t)]
  BY DescentExists
<1>2. v = [t \in Dom |-> ParseTurn(s, v, t)]
  BY <1>1 DEF Descent, ParseTurn, StartOf, Turns
<1> HIDE DEF v
<1> DEFINE S == {t \in Dom : TurnEnds(s, t, v[t])}
<1>3. N \in Nat /\ rank \in [Dom -> 0..N]
  <2>1. Len(s) \in Nat
    BY DEF Text
  <2> QED
    BY <2>1, Ranks
<1>4. ASSUME NEW t \in Dom, \A y \in Dom : rank[y] < rank[t] => y \in S
      PROVE  t \in S
  <2>1. EndsBelow(s, t, v)
    BY <1>4 DEF EndsBelow
  <2>2. TurnEnds(s, t, ParseTurn(s, v, t))
    BY <2>1, TurnTyped
  <2>3. v[t] = ParseTurn(s, v, t)
    BY <1>2
  <2> QED
    BY <2>2, <2>3
<1>5. \A t \in Dom : t \in S
  <2>1. Inherited(S, Dom, rank)
    BY <1>4 DEF Inherited
  <2> HIDE DEF Dom, N, rank, S
  <2> QED
    BY <1>3, <2>1, RankInduction
<1> DEFINE u == StartOf("expr", 1)
<1>6. u \in Dom /\ Fresh(u) /\ u.res.i = 1
  <2>1. 1 \in 1..(Len(s) + 1)
    BY DEF Text
  <2> QED
    BY <2>1, StartIs
<1>7. TurnEnds(s, u, v[u])
  BY <1>5, <1>6
<1> HIDE DEF u
<1>8. Ended(s, 1, v[u])
  BY <1>6, <1>7 DEF TurnEnds, Ended
<1> QED
  BY <1>8, ParseIs DEF u, v

\* So does its evaluation.
LEMMA ArithEvalTyped ==
    ASSUME NEW s \in Text
    PROVE  ArithEval(s).val \in Int /\ ArithEval(s).err \in Errors
<1> DEFINE r == Parse(s)
<1>1. r \in Outcome(s)
  BY ParseTyped DEF Ended
<1>2. ArithEval(s) = r \/ ArithEval(s) = [r EXCEPT !.err = "syntax"]
  BY DEF ArithEval
<1> HIDE DEF r
<1> QED
  BY <1>1, <1>2 DEF Outcome, Errors

\* The numerals up to the size of v.
Numerals(v) ==
    LET text[n \in 0..Abs(v)] == IF n < 10 THEN <<Digit[n + 1]>>
                           ELSE Append(text[n \div 10], Digit[(n % 10) + 1])
    IN  text

LEMMA NumeralsTyped ==
    ASSUME NEW v \in Int
    PROVE  \A n \in 0..Abs(v) : Numerals(v)[n] \in Text
<1> DEFINE N       == Abs(v)
           Dom     == 0..N
           Fs      == [Dom -> Text]
           One(f, n) == IF n < 10 THEN <<Digit[n + 1]>>
                        ELSE Append(f[n \div 10], Digit[(n % 10) + 1])
           rank    == [n \in Dom |-> n]
           step    == [f \in Fs |-> [n \in Dom |-> One(f, n)]]
           d       == [n \in Dom |-> << >>]
<1>1. N \in Nat
  BY DEF Abs
<1> HIDE DEF N
<1>2. rank \in [Dom -> 0..N]
  BY <1>1
<1>3. ASSUME NEW n \in Dom, n >= 10 PROVE n \div 10 \in Dom /\ n \div 10 < n
  BY <1>1, <1>3
<1>4. ASSUME NEW n \in Dom, NEW f, n >= 10 => f[n \div 10] \in Text
      PROVE  One(f, n) \in Text
  <2>1. CASE n < 10
    <3>1. n + 1 \in 1..10
      BY <1>1, <2>1
    <3>2. Digit[n + 1] \in Char
      BY <3>1, DigitsAre
    <3>3. <<Digit[n + 1]>> \in Seq(Char)
      BY <3>2
    <3> QED
      BY <2>1, <3>3 DEF Text
  <2>2. CASE ~(n < 10)
    <3>1. n >= 10 /\ (n % 10) + 1 \in 1..10
      BY <1>1, <2>2
    <3>2. f[n \div 10] \in Seq(Char) /\ Digit[(n % 10) + 1] \in Char
      BY <1>4, <3>1, DigitsAre DEF Text
    <3>3. Append(f[n \div 10], Digit[(n % 10) + 1]) \in Seq(Char)
      BY <3>2, AppendProperties
    <3> QED
      BY <2>2, <3>3 DEF Text
  <2> QED
    BY <2>1, <2>2
<1>5. ASSUME NEW n \in Dom, NEW f, NEW g, n >= 10 => f[n \div 10] = g[n \div 10]
      PROVE  One(f, n) = One(g, n)
  BY <1>1, <1>5
<1> HIDE DEF One
<1>6. \A f \in Fs : \A n \in Dom : n >= 10 => f[n \div 10] \in Text
  BY <1>3
<1>7. step \in [Fs -> Fs]
  <2>1. \A f \in Fs : \A n \in Dom : One(f, n) \in Text
    BY <1>4, <1>6
  <2> QED
    BY <2>1
<1>8. Local(step, Fs, Dom, rank)
  <2>1. ASSUME NEW f \in Fs, NEW g \in Fs, NEW n \in Dom,
               \A y \in Dom : rank[y] < rank[n] => f[y] = g[y]
        PROVE  step[f][n] = step[g][n]
    <3>1. n >= 10 => f[n \div 10] = g[n \div 10]
      BY <1>3, <2>1
    <3>2. One(f, n) = One(g, n)
      BY <1>5, <3>1
    <3> QED
      BY <3>2
  <2> HIDE DEF Fs, Dom, step, rank
  <2> QED
    BY <2>1 DEF Local
<1>9. d \in Fs /\ \A f \in Fs : FunctionOn(f, Dom)
  <2>1. << >> \in Text
    BY EmptySeq DEF Text
  <2> QED
    BY <2>1 DEF FunctionOn
<1>10. PICK f \in Fs : step[f] = f
  <2> HIDE DEF Fs, Dom, step, rank, d
  <2> QED
    BY <1>1, <1>2, <1>7, <1>8, <1>9, Ranked
<1>11. f = [n \in Dom |-> One(f, n)]
  BY <1>10
<1> DEFINE w == Numerals(v)
<1>12. w = [n \in Dom |-> One(w, n)]
  BY <1>11 DEF Numerals, One, N
<1> HIDE DEF w
<1> DEFINE S == {n \in Dom : w[n] \in Text}
<1>13. ASSUME NEW n \in Dom, \A y \in Dom : rank[y] < rank[n] => y \in S
       PROVE  n \in S
  <2>1. n >= 10 => w[n \div 10] \in Text
    BY <1>3, <1>13
  <2>2. One(w, n) \in Text
    BY <1>4, <2>1
  <2>3. w[n] = One(w, n)
    BY <1>12
  <2> QED
    BY <2>2, <2>3
<1>14. \A n \in Dom : n \in S
  <2>1. Inherited(S, Dom, rank)
    BY <1>13 DEF Inherited
  <2> HIDE DEF Dom, rank, S
  <2> QED
    BY <1>1, <1>2, <2>1, RankInduction
<1> QED
  BY <1>14 DEF w, N

\* ft_lltoa makes a text.
LEMMA DecimalTyped ==
    ASSUME NEW v \in Int
    PROVE  Decimal(v) \in Text
<1>1. Decimal(v) = IF v < 0 THEN <<"-">> \o Numerals(v)[-v] ELSE Numerals(v)[v]
  BY DEF Decimal, Numerals
<1>2. v < 0 => -v \in 0..Abs(v)
  BY DEF Abs
<1>3. ~(v < 0) => v \in 0..Abs(v)
  BY DEF Abs
<1>4. CASE v < 0
  <2>1. Numerals(v)[-v] \in Seq(Char)
    BY <1>2, <1>4, NumeralsTyped DEF Text
  <2>2. <<"-">> \in Seq(Char)
    <3>1. "-" \in Char
      BY LettersAre
    <3> QED
      BY <3>1
  <2>3. <<"-">> \o Numerals(v)[-v] \in Seq(Char)
    BY <2>1, <2>2, ConcatProperties
  <2> QED
    BY <1>1, <1>4, <2>3 DEF Text
<1>5. CASE ~(v < 0)
  BY <1>1, <1>3, <1>5, NumeralsTyped
<1> QED
  BY <1>4, <1>5

-------------------------------------------------------------------------------
(* What the scan looks up.                                                   *)

\* The least and the greatest of a set of indices.
LEMMA MinIs ==
    ASSUME NEW T \in SUBSET Nat, T # {}
    PROVE  Min(T) \in T /\ \A y \in T : Min(T) <= y
<1>1. \E x \in T : \A y \in T : x <= y
  BY LeastIndex
<1> QED
  BY <1>1 DEF Min

LEMMA MaxIs ==
    ASSUME NEW n \in Nat, NEW T \in SUBSET (0..n), T # {}
    PROVE  Max(T) \in T /\ \A y \in T : Max(T) >= y
<1> DEFINE U == {m \in 0..n : n - m \in T}
<1>1. U # {} /\ U \in SUBSET Nat
  <2>1. PICK x \in T : TRUE
    OBVIOUS
  <2>2. n - x \in 0..n /\ n - (n - x) = x
    BY <2>1
  <2>3. n - x \in U
    BY <2>1, <2>2
  <2>4. U \in SUBSET Nat
    OBVIOUS
  <2> QED
    BY <2>3, <2>4
<1>2. PICK m \in U : \A y \in U : m <= y
  <2> HIDE DEF U
  <2> QED
    BY <1>1, LeastIndex
<1>3. ASSUME NEW y \in T PROVE n - m >= y
  <2>1. y \in 0..n /\ n - y \in 0..n /\ n - (n - y) = y
    OBVIOUS
  <2>2. m <= n - y
    BY <1>2, <2>1
  <2> QED
    BY <1>2, <2>1, <2>2
<1>4. \E x \in T : \A y \in T : x >= y
  BY <1>2, <1>3
<1> QED
  BY <1>4 DEF Max

\* The places where a substitution whose inside begins at i may close.
Closes(w, i) ==
    LET Flip(s, q) == [s EXCEPT !.q = IF @ = q THEN "none" ELSE q]
        Step(s, c) ==
            CASE s.hidden -> [s EXCEPT !.hidden = FALSE]
              [] ~s.hidden /\ c = "\\" /\ s.q # "single" -> [s EXCEPT !.hidden = TRUE]
              [] ~s.hidden /\ c = "'" /\ s.q # "double" -> Flip(s, "single")
              [] ~s.hidden /\ c = "\"" /\ s.q # "single" -> Flip(s, "double")
              [] ~s.hidden /\ c = "(" /\ s.q = "none" -> [s EXCEPT !.depth = @ + 1]
              [] ~s.hidden /\ c = ")" /\ s.q = "none" -> [s EXCEPT !.depth = @ - 1]
              [] OTHER -> s
        after[j \in (i - 1)..Len(w)] ==
            IF j < i THEN [depth |-> 1, q |-> "none", hidden |-> FALSE]
            ELSE Step(after[j - 1], w[j])
    IN  {j \in i..Len(w) : after[j].depth = 0}

\* What closes a substitution is a character of the word after its beginning.
LEMMA FindCloseIs ==
    ASSUME NEW w \in Text, NEW i \in Nat
    PROVE  FindClose(w, i) = 0 \/ FindClose(w, i) \in i..Len(w)
<1> DEFINE C == Closes(w, i)
<1>1. FindClose(w, i) = IF C = {} THEN 0 ELSE Min(C)
  BY DEF FindClose, Closes
<1>2. C \subseteq i..Len(w)
  BY DEF Closes
<1> HIDE DEF C
<1>3. Len(w) \in Nat
  BY DEF Text
<1>4. C \in SUBSET Nat
  BY <1>2, <1>3
<1> QED
  BY <1>1, <1>2, <1>4, MinIs

ArithCloses(w, i) ==
    LET Step(s, j) ==
            CASE s.hidden -> [s EXCEPT !.hidden = FALSE]
              [] ~s.hidden /\ w[j] = "(" /\ At(w, j + 1) = "(" ->
                   [hidden |-> TRUE, depth |-> s.depth + 1]
              [] ~s.hidden /\ w[j] = ")" /\ At(w, j + 1) = ")" ->
                   [hidden |-> TRUE, depth |-> s.depth - 1]
              [] OTHER -> s
        after[j \in (i - 1)..Len(w)] ==
            IF j < i THEN [depth |-> 1, hidden |-> FALSE] ELSE Step(after[j - 1], j)
    IN  {j \in i..(Len(w) - 1) : after[j].depth = 0}

\* So is what closes an expression: two characters.
LEMMA FindArithCloseIs ==
    ASSUME NEW w \in Text, NEW i \in Nat
    PROVE  FindArithClose(w, i) = 0 \/ FindArithClose(w, i) \in (i + 2)..(Len(w) + 1)
<1> DEFINE C == ArithCloses(w, i)
<1>1. FindArithClose(w, i) = IF C = {} THEN 0 ELSE Min(C) + 2
  BY DEF FindArithClose, ArithCloses
<1>2. C \subseteq i..(Len(w) - 1)
  BY DEF ArithCloses
<1> HIDE DEF C
<1>3. Len(w) \in Nat
  BY DEF Text
<1>4. C \in SUBSET Nat
  BY <1>2, <1>3
<1>5. C # {} => Min(C) \in i..(Len(w) - 1)
  BY <1>2, <1>4, MinIs
<1> QED
  BY <1>1, <1>3, <1>5

\* The } of a ${ is after it.
LEMMA BraceIs ==
    ASSUME NEW w \in Text, NEW pos \in Nat, Brace(w, pos) # 0
    PROVE  Brace(w, pos) \in (pos + 2)..Len(w)
<1> DEFINE T == {j \in (pos + 2)..Len(w) : w[j] = "}"}
           P(j) == w[j] = "}" /\ \A k \in (pos + 2)..(j - 1) : w[k] # "}"
<1>1. Len(w) \in Nat
  BY DEF Text
<1>2. \E j \in (pos + 2)..Len(w) : w[j] = "}"
  BY DEF Brace
<1>3. PICK j \in T : \A k \in T : j <= k
  <2>1. T # {}
    BY <1>2
  <2>2. T \in SUBSET Nat
    <3>1. \A x \in (pos + 2)..Len(w) : x \in Nat
      BY <1>1
    <3> QED
      BY <3>1
  <2> HIDE DEF T
  <2> QED
    BY <2>1, <2>2, LeastIndex
<1>4. j \in (pos + 2)..Len(w) /\ P(j)
  <2>1. ASSUME NEW k \in (pos + 2)..(j - 1) PROVE w[k] # "}"
    <3>1. j \in (pos + 2)..Len(w)
      BY <1>3
    <3> HIDE DEF T
    <3>2. k \in (pos + 2)..Len(w) /\ ~(j <= k)
      BY <1>1, <3>1
    <3> QED
      BY <1>3, <3>2 DEF T
  <2> QED
    BY <1>3, <2>1
<1> HIDE DEF P, T
<1>5. Brace(w, pos) = CHOOSE x \in (pos + 2)..Len(w) : P(x)
  BY <1>2 DEF Brace, P
<1> QED
  BY <1>4, <1>5

\* What is left of an output without the newlines at its end is a text.
LEMMA StrippedTyped ==
    ASSUME NEW s \in Text
    PROVE  Stripped(s) \in Text
<1> DEFINE kept == {i \in DOMAIN s : s[i] # "\n"}
<1>1. Len(s) \in Nat /\ DOMAIN s = 1..Len(s)
  BY DEF Text
<1>2. kept \in SUBSET (0..Len(s)) /\ kept \subseteq 1..Len(s)
  BY <1>1
<1>3. Stripped(s) = IF kept = {} THEN << >> ELSE SubSeq(s, 1, Max(kept))
  BY DEF Stripped
<1> HIDE DEF kept
<1>4. << >> \in Text
  BY EmptySeq DEF Text
<1>5. kept # {} => Max(kept) \in 1..Len(s)
  BY <1>1, <1>2, MaxIs
<1>6. kept # {} => SubSeq(s, 1, Max(kept)) \in Text
  <2>1. SUFFICES ASSUME kept # {} PROVE SubSeq(s, 1, Max(kept)) \in Text
    OBVIOUS
  <2>2. 1 \in Nat \ {0} /\ Max(kept) \in Int /\ Max(kept) <= Len(s)
    BY <1>1, <1>5, <2>1
  <2> QED
    BY <2>2, PartIs
<1> QED
  BY <1>3, <1>4, <1>6

\* The values of parameters are texts.
LEMMA ValueTyped ==
    ASSUME case \in Cases, NEW name
    PROVE  ValueOf(name) \in Text
<1>1. case.x \in Text \cup {Unset}
  BY WordsAssumption
<1>2. << >> \in Text
  BY EmptySeq DEF Text
<1> QED
  BY <1>1, <1>2 DEF ValueOf

\* What $? may be.
Codes == Nat \cup {Interrupted}

LEMMA SpecialTyped ==
    ASSUME status \in Codes, NEW c \in {"?", "$", "0"}
    PROVE  SpecialValue(c) \in Text
<1>1. Decimal(status) \in Text
  <2>1. status \in Int
    BY DEF Codes, Interrupted
  <2> QED
    BY <2>1, DecimalTyped
<1>2. Pid \in Text
  <2>1. Digit[2] \in Char /\ Digit[2] = "1"
    BY DigitsAre DEF Digit
  <2> QED
    BY <2>1 DEF Pid, Text
<1>3. ShellName \in Text
  <2>1. Digit[5] \in Char /\ Digit[5] = "4" /\ Digit[3] \in Char /\ Digit[3] = "2"
    BY DigitsAre DEF Digit
  <2>2. "4" \in Char /\ "2" \in Char /\ "s" \in Char /\ "h" \in Char
    BY <2>1, LettersAre
  <2> QED
    BY <2>2 DEF ShellName, Text
<1> QED
  BY <1>1, <1>2, <1>3 DEF SpecialValue

-------------------------------------------------------------------------------
(* The scans.                                                                *)

Pairs == Char \X BOOLEAN

ScanRecords == [word : Text, pos : Nat, quote : {"none", "single", "double"}, buf : Seq(Pairs)]

\* A scan stands in its word or at its end.
Standing == {s \in ScanRecords : s.pos \in 1..(Len(s.word) + 1)}

LEMMA StandingIs ==
    ASSUME NEW s \in Standing
    PROVE  /\ s.word \in Text /\ Len(s.word) \in Nat
           /\ s.pos \in Nat /\ s.pos \in 1..(Len(s.word) + 1)
           /\ s.quote \in {"none", "single", "double"} /\ s.buf \in Seq(Pairs)
BY DEF Standing, ScanRecords, Text

\* What is left to scan, up to each of the scans.
Lefts(s) ==
    LET left[i \in 0..Len(s)] ==
            IF i = 0 THEN 0 ELSE left[i - 1] + Len(s[i].word) + 1 - s[i].pos
    IN  left

LEMMA LeftIs == Left = Lefts(scans)[Len(scans)] /\ Left' = Lefts(scans')[Len(scans')]
BY DEF Left, Lefts

Weight(x) == Len(x.word) + 1 - x.pos

LEMMA LeftsAre ==
    ASSUME NEW s \in Seq(Standing)
    PROVE  /\ \A i \in 0..Len(s) : Lefts(s)[i] \in Int
           /\ Lefts(s)[0] = 0
           /\ \A i \in 1..Len(s) : Lefts(s)[i] = Lefts(s)[i - 1] + Weight(s[i])
<1> DEFINE n         == Len(s)
           Dom       == 0..n
           Fs        == [Dom -> Int]
           One(f, i) == IF i = 0 THEN 0 ELSE f[i - 1] + Len(s[i].word) + 1 - s[i].pos
           rank      == [i \in Dom |-> i]
           step      == [f \in Fs |-> [i \in Dom |-> One(f, i)]]
           d         == [i \in Dom |-> 0]
<1>1. n \in Nat
  OBVIOUS
<1>2. \A i \in 1..n : Len(s[i].word) \in Int /\ s[i].pos \in Int
  <2>1. \A i \in 1..n : s[i] \in Standing
    OBVIOUS
  <2> QED
    BY <2>1, StandingIs
<1> HIDE DEF n
<1>3. ASSUME NEW i \in Dom, NEW f, i # 0 => f[i - 1] \in Int
      PROVE  One(f, i) \in Int /\ (i # 0 => One(f, i) = f[i - 1] + Weight(s[i]))
  <2>1. CASE i = 0
    BY <2>1
  <2>2. CASE i # 0
    <3>1. i \in 1..n
      BY <1>1, <2>2
    <3>2. Len(s[i].word) \in Int /\ s[i].pos \in Int /\ f[i - 1] \in Int
      BY <1>2, <1>3, <2>2, <3>1
    <3> DEFINE a == Len(s[i].word)
               b == s[i].pos
               c == f[i - 1]
    <3>3. One(f, i) = c + a + 1 - b
      BY <2>2
    <3>4. Weight(s[i]) = a + 1 - b
      BY DEF Weight
    <3>5. a \in Int /\ b \in Int /\ c \in Int
      BY <3>2
    <3> HIDE DEF a, b, c, One
    <3>6. One(f, i) \in Int /\ One(f, i) = c + Weight(s[i])
      BY <3>3, <3>4, <3>5
    <3> QED
      BY <3>6 DEF c
  <2> QED
    BY <2>1, <2>2
<1>4. ASSUME NEW i \in Dom, NEW f, NEW g, i # 0 => f[i - 1] = g[i - 1]
      PROVE  One(f, i) = One(g, i)
  BY <1>4
<1>5. \A i \in Dom : i # 0 => i - 1 \in Dom /\ i - 1 < i
  BY <1>1
<1>6. One(d, 0) = 0 /\ \A f : One(f, 0) = 0
  OBVIOUS
<1> HIDE DEF One
<1>7. rank \in [Dom -> 0..n]
  BY <1>1
<1>8. step \in [Fs -> Fs]
  <2>1. \A f \in Fs : \A i \in Dom : One(f, i) \in Int
    BY <1>3, <1>5
  <2> QED
    BY <2>1
<1>9. Local(step, Fs, Dom, rank)
  <2>1. ASSUME NEW f \in Fs, NEW g \in Fs, NEW i \in Dom,
               \A y \in Dom : rank[y] < rank[i] => f[y] = g[y]
        PROVE  step[f][i] = step[g][i]
    <3>1. i # 0 => f[i - 1] = g[i - 1]
      BY <1>5, <2>1
    <3>2. One(f, i) = One(g, i)
      BY <1>4, <3>1
    <3> QED
      BY <3>2
  <2> HIDE DEF Fs, Dom, step, rank
  <2> QED
    BY <2>1 DEF Local
<1>10. d \in Fs /\ \A f \in Fs : FunctionOn(f, Dom)
  <2>1. d \in Fs
    OBVIOUS
  <2>2. \A f \in Fs : FunctionOn(f, Dom)
    BY DEF FunctionOn
  <2> QED
    BY <2>1, <2>2
<1>11. PICK f \in Fs : step[f] = f
  <2> HIDE DEF Fs, Dom, step, rank, d
  <2> QED
    BY <1>1, <1>7, <1>8, <1>9, <1>10, Ranked
<1>12. f = [i \in Dom |-> One(f, i)]
  BY <1>11
<1> DEFINE w == Lefts(s)
<1>13. w = [i \in Dom |-> One(w, i)]
  BY <1>12 DEF Lefts, One, n
<1> HIDE DEF w
<1> DEFINE S == {i \in Dom : w[i] \in Int}
<1>14. ASSUME NEW i \in Dom, \A y \in Dom : rank[y] < rank[i] => y \in S
       PROVE  i \in S
  <2>1. i # 0 => w[i - 1] \in Int
    BY <1>5, <1>14
  <2>2. One(w, i) \in Int
    BY <1>3, <2>1
  <2>3. w[i] = One(w, i)
    BY <1>13
  <2> QED
    BY <2>2, <2>3
<1>15. \A i \in Dom : w[i] \in Int
  <2>1. \A i \in Dom : i \in S
    <3>1. Inherited(S, Dom, rank)
      BY <1>14 DEF Inherited
    <3> HIDE DEF Dom, rank, S
    <3> QED
      BY <1>1, <1>7, <3>1, RankInduction
  <2> QED
    BY <2>1
<1>16. w[0] = 0
  BY <1>1, <1>6, <1>13
<1>17. ASSUME NEW i \in 1..n PROVE w[i] = w[i - 1] + Weight(s[i])
  <2>1. i \in Dom /\ i # 0 /\ i - 1 \in Dom
    BY <1>1
  <2>2. w[i] = One(w, i)
    BY <1>13, <2>1
  <2> QED
    BY <1>3, <1>15, <2>1, <2>2
<1> QED
  BY <1>15, <1>16, <1>17 DEF w, n

\* Scans that agree below an index leave as much up to it.
LEMMA LeftsAgree ==
    ASSUME NEW s \in Seq(Standing), NEW t \in Seq(Standing),
           NEW n \in Nat, n <= Len(s), n <= Len(t), \A i \in 1..n : Weight(s[i]) = Weight(t[i])
    PROVE  Lefts(s)[n] = Lefts(t)[n]
<1> DEFINE a == Lefts(s)
           b == Lefts(t)
           S == {i \in 0..n : a[i] = b[i]}
<1>1. Len(s) \in Nat /\ Len(t) \in Nat
  OBVIOUS
<1>2. a[0] = 0 /\ \A i \in 1..Len(s) : a[i] = a[i - 1] + Weight(s[i])
  BY LeftsAre
<1>3. b[0] = 0 /\ \A i \in 1..Len(t) : b[i] = b[i - 1] + Weight(t[i])
  BY LeftsAre
<1> HIDE DEF a, b
<1>4. 0 \in S
  BY <1>2, <1>3
<1>5. ASSUME NEW i \in 0..n, i < n, i \in S PROVE i + 1 \in S
  <2>1. i + 1 \in 1..n /\ i + 1 \in 1..Len(s) /\ i + 1 \in 1..Len(t) /\ (i + 1) - 1 = i
    BY <1>1, <1>5
  <2>2. a[i + 1] = a[i] + Weight(s[i + 1]) /\ b[i + 1] = b[i] + Weight(t[i + 1])
    BY <1>2, <1>3, <2>1
  <2> QED
    BY <1>5, <2>1, <2>2
<1>6. \A i \in 0..n : i \in S
  <2> HIDE DEF S
  <2> QED
    BY <1>4, <1>5, UpTo
<1> QED
  BY <1>6 DEF a, b

\* From s to t, the last scan goes on in its word.
Moved(s, t) ==
    /\ t \in Seq(Standing) /\ Len(t) = Len(s)
    /\ \A i \in 1..(Len(s) - 1) : t[i] = s[i]
    /\ t[Len(s)].word = s[Len(s)].word
    /\ t[Len(s)].pos > s[Len(s)].pos

LEMMA MovedLeft ==
    ASSUME NEW s \in Seq(Standing), s # << >>, NEW t, Moved(s, t)
    PROVE  Lefts(t)[Len(t)] < Lefts(s)[Len(s)]
<1> DEFINE n == Len(s)
<1>1. n \in Nat /\ n >= 1 /\ n \in 1..n /\ n - 1 \in Nat /\ n - 1 \in 0..n
  OBVIOUS
<1>2. t \in Seq(Standing) /\ Len(t) = n /\ t[n].word = s[n].word /\ t[n].pos > s[n].pos
      /\ \A i \in 1..(n - 1) : t[i] = s[i]
  BY DEF Moved
<1> HIDE DEF n
<1>3. s[n] \in Standing /\ t[n] \in Standing
  BY <1>1, <1>2 DEF n
<1>4. Weight(t[n]) < Weight(s[n]) /\ Weight(t[n]) \in Int /\ Weight(s[n]) \in Int
  <2> DEFINE a == t[n]
             b == s[n]
  <2>1. Len(a.word) \in Int /\ a.pos \in Int
    BY <1>3, StandingIs
  <2>2. Len(b.word) \in Int /\ b.pos \in Int
    BY <1>3, StandingIs
  <2>3. a.word = b.word /\ a.pos > b.pos
    BY <1>2
  <2> HIDE DEF a, b
  <2>4. Weight(a) < Weight(b) /\ Weight(a) \in Int /\ Weight(b) \in Int
    BY <2>1, <2>2, <2>3 DEF Weight
  <2> QED
    BY <2>4 DEF a, b
<1>5. Lefts(s)[n - 1] = Lefts(t)[n - 1]
  <2>1. \A i \in 1..(n - 1) : Weight(s[i]) = Weight(t[i])
    BY <1>2
  <2>2. n - 1 <= Len(s) /\ n - 1 <= Len(t)
    BY <1>1, <1>2 DEF n
  <2> QED
    BY <1>1, <1>2, <2>1, <2>2, LeftsAgree
<1>6. Lefts(s)[n] = Lefts(s)[n - 1] + Weight(s[n]) /\ Lefts(s)[n - 1] \in Int
  BY <1>1, LeftsAre DEF n
<1>7. Lefts(t)[n] = Lefts(t)[n - 1] + Weight(t[n])
  BY <1>1, <1>2, LeftsAre
<1> QED
  BY <1>2, <1>4, <1>5, <1>6, <1>7 DEF n

Stations == [part : {"argv", "value", "target"}, i : Nat]

\* The words still to expand are words of the command.
ToExpand(c, ps) == /\ ps \in Seq(Stations)
                   /\ \A n \in 1..Len(ps) : WordOf(c, ps[n]).text \in Text

\* What every step preserves: types, and that what is scanned are texts.
IInv ==
    /\ phase \in {"idle", "expanding", "ready", "failed", "dead"}
    /\ status \in Codes
    /\ scans \in Seq(Standing)
    /\ phase = "expanding" => scans # << >> /\ todo # << >>
    /\ phase # "idle" => case \in Cases
    /\ phase = "idle" => todo = << >>
    /\ ToExpand(case, todo)

\* The scan of a word is at a character.
LEMMA TopIs ==
    ASSUME IInv, phase = "expanding"
    PROVE  /\ Top \in Standing /\ Len(scans) \in Nat /\ Len(scans) >= 1
           /\ Top.word \in Text /\ Len(Top.word) \in Nat /\ Top.buf \in Seq(Pairs)
           /\ Top.pos \in 1..(Len(Top.word) + 1) /\ Top.pos \in Nat
           /\ \A k \in Nat : Here(k) # End =>
                 /\ Top.pos + k \in 1..Len(Top.word)
                 /\ Here(k) = Top.word[Top.pos + k] /\ Here(k) \in Char
<1>1. scans \in Seq(Standing) /\ scans # << >>
  BY DEF IInv
<1>2. Len(scans) \in Nat /\ Len(scans) >= 1
  BY <1>1
<1>3. Top \in Standing
  BY <1>1, <1>2 DEF Top
<1>4. /\ Top.word \in Text /\ Len(Top.word) \in Nat /\ Top.buf \in Seq(Pairs)
      /\ Top.pos \in 1..(Len(Top.word) + 1) /\ Top.pos \in Nat
  BY <1>3, StandingIs
<1>5. ASSUME NEW k \in Nat, Here(k) # End
      PROVE  /\ Top.pos + k \in 1..Len(Top.word)
             /\ Here(k) = Top.word[Top.pos + k] /\ Here(k) \in Char
  <2>1. Top.pos + k \in Nat
    BY <1>4
  <2>2. Top.pos + k \in 1..Len(Top.word) /\ Here(k) = Top.word[Top.pos + k]
    BY <1>4, <1>5, <2>1, AtIs DEF Here
  <2>3. \A i \in 1..Len(Top.word) : Top.word[i] \in Char
    BY <1>4 DEF Text
  <2> QED
    BY <2>2, <2>3
<1> QED
  BY <1>2, <1>3, <1>4, <1>5

\* Emitting marked bytes and going forward in the word.
LEMMA AdvanceMoves ==
    ASSUME IInv, phase = "expanding", NEW bytes \in Seq(Pairs),
           NEW to \in (Top.pos + 1)..(Len(Top.word) + 1), Advance(bytes, to)
    PROVE  Moved(scans, scans')
<1> DEFINE n == Len(scans)
           t == [Top EXCEPT !.buf = Top.buf \o bytes, !.pos = to]
<1>1. /\ Top \in Standing /\ n \in Nat /\ n >= 1 /\ Top.buf \in Seq(Pairs)
      /\ Top.pos \in Nat /\ Len(Top.word) \in Nat /\ scans \in Seq(Standing)
  BY TopIs DEF IInv
<1>2. Top.buf \o bytes \in Seq(Pairs)
  BY <1>1, ConcatProperties
<1>3. to \in Nat /\ to > Top.pos /\ to \in 1..(Len(Top.word) + 1)
  BY <1>1
<1>4. scans' = [scans EXCEPT ![n] = t]
  BY Zenon DEF Advance
<1>5. t \in Standing /\ t.word = Top.word /\ t.pos = to
  <2>1. \A s \in ScanRecords : \A b \in Seq(Pairs) :
           /\ [s EXCEPT !.buf = b, !.pos = to] \in ScanRecords
           /\ [s EXCEPT !.buf = b, !.pos = to].word = s.word
           /\ [s EXCEPT !.buf = b, !.pos = to].pos = to
    BY <1>3 DEF ScanRecords
  <2>2. Top \in ScanRecords
    BY <1>1 DEF Standing
  <2>3. t \in ScanRecords /\ t.word = Top.word /\ t.pos = to
    BY <1>2, <2>1, <2>2
  <2> HIDE DEF t
  <2> QED
    BY <1>3, <2>3 DEF Standing
<1> HIDE DEF t
<1>6. /\ scans' \in Seq(Standing) /\ Len(scans') = n /\ scans'[n] = t
      /\ \A i \in 1..(n - 1) : scans'[i] = scans[i]
  BY <1>1, <1>4, <1>5
<1>7. scans[n] = Top
  BY DEF Top
<1> QED
  BY <1>1, <1>3, <1>5, <1>6, <1>7 DEF Moved

\* An opening or closing quote is passed over.
LEMMA QuoteMoves ==
    ASSUME IInv, Quote
    PROVE  Moved(scans, scans')
<1> DEFINE n == Len(scans)
           q == IF Here(0) = "'" THEN "single" ELSE "double"
           r == IF Top.quote = q THEN "none" ELSE q
           t == [Top EXCEPT !.pos = Top.pos + 1, !.quote = r]
<1>1. phase = "expanding" /\ Here(0) # End
  BY DEF Quote, Scanning
<1>2. /\ Top \in Standing /\ n \in Nat /\ n >= 1 /\ Top.pos \in Nat
      /\ scans \in Seq(Standing)
  BY <1>1, TopIs DEF IInv
<1>3. Top.pos + 0 \in 1..Len(Top.word)
  BY <1>1, TopIs
<1>4. Top.pos + 1 \in Nat /\ Top.pos + 1 \in 1..(Len(Top.word) + 1)
  BY <1>1, <1>2, <1>3, TopIs
<1>5. scans' = [scans EXCEPT ![n] = t]
  BY Zenon DEF Quote
<1>6. q \in {"single", "double"}
  OBVIOUS
<1> HIDE DEF q
<1>7. r \in {"none", "single", "double"}
  BY <1>6
<1> HIDE DEF r
<1>8. t \in Standing /\ t.word = Top.word /\ t.pos = Top.pos + 1
  <2>1. Top \in ScanRecords
    BY <1>2 DEF Standing
  <2>2. t \in ScanRecords /\ t.word = Top.word /\ t.pos = Top.pos + 1
    BY <1>4, <1>7, <2>1 DEF ScanRecords
  <2> HIDE DEF t
  <2> QED
    BY <1>4, <2>2 DEF Standing
<1> HIDE DEF t
<1>9. /\ scans' \in Seq(Standing) /\ Len(scans') = n /\ scans'[n] = t
      /\ \A i \in 1..(n - 1) : scans'[i] = scans[i]
  BY <1>2, <1>5, <1>8
<1>10. scans[n] = Top
  BY DEF Top
<1> QED
  BY <1>2, <1>8, <1>9, <1>10 DEF Moved

\* A turn of the scan: the last scan goes on, the command stays.
TurnTaken ==
    /\ phase = "expanding" /\ phase' = phase /\ case' = case /\ todo' = todo
    /\ status' \in Codes /\ Moved(scans, scans')

\* One that emits marked bytes and leaves all but the scan alone.
LEMMA Turn ==
    ASSUME IInv, phase = "expanding", NEW s \in Text, NEW split \in BOOLEAN,
           NEW to, to \in (Top.pos + 1)..(Len(Top.word) + 1),
           Advance(Bytes(s, split), to), Unmoved
    PROVE  TurnTaken
<1>1. Bytes(s, split) \in Seq(Pairs)
  BY BytesTyped DEF Pairs
<1>2. Moved(scans, scans')
  BY <1>1, AdvanceMoves
<1>3. phase' = phase /\ case' = case /\ todo' = todo /\ status' = status
  BY DEF Unmoved, command
<1> QED
  BY <1>2, <1>3 DEF TurnTaken, IInv

LEMMA EmptyText == << >> \in Text
BY EmptySeq DEF Text

LEMMA OneCharacter ==
    ASSUME NEW c \in Char
    PROVE  <<c>> \in Text
BY DEF Text

LEMMA QuoteTurn == ASSUME IInv, Quote PROVE TurnTaken
<1>1. phase = "expanding"
  BY DEF Quote, Scanning
<1>2. phase' = phase /\ case' = case /\ todo' = todo /\ status' = status
  BY DEF Quote, Unmoved, command
<1> QED
  BY <1>1, <1>2, QuoteMoves DEF TurnTaken, IInv

LEMMA OrdinaryTurn == ASSUME IInv, Ordinary PROVE TurnTaken
<1>1. phase = "expanding" /\ Here(0) # End
  BY DEF Ordinary, Scanning
<1>2. Top.pos + 0 \in 1..Len(Top.word) /\ Here(0) \in Char /\ Top.pos \in Nat
      /\ Len(Top.word) \in Nat
  BY <1>1, TopIs
<1>3. Top.pos + 1 \in (Top.pos + 1)..(Len(Top.word) + 1)
  BY <1>2
<1>4. <<Here(0)>> \in Text /\ Splitting \in BOOLEAN
  BY <1>2, OneCharacter DEF Splitting
<1>5. Advance(Bytes(<<Here(0)>>, Splitting), Top.pos + 1) /\ Unmoved
  BY DEF Ordinary
<1> QED
  BY <1>1, <1>3, <1>4, <1>5, Turn

LEMMA BackslashTurn == ASSUME IInv, Backslash PROVE TurnTaken
<1> DEFINE s  == IF Here(1) \in {End, "\n"} THEN << >> ELSE <<Here(1)>>
           to == IF Here(1) = End THEN Top.pos + 1 ELSE Top.pos + 2
<1>1. phase = "expanding" /\ Here(0) # End
  BY DEF Backslash, Scanning
<1>2. /\ Top.pos + 0 \in 1..Len(Top.word) /\ Top.pos \in Nat /\ Len(Top.word) \in Nat
      /\ Here(1) # End => Top.pos + 1 \in 1..Len(Top.word) /\ Here(1) \in Char
  BY <1>1, TopIs
<1>3. to \in (Top.pos + 1)..(Len(Top.word) + 1)
  BY <1>2
<1>4. s \in Text
  BY <1>2, EmptyText, OneCharacter
<1>5. Advance(IF Here(1) \in {End, "\n"} THEN << >> ELSE Bytes(<<Here(1)>>, FALSE), to)
      /\ Unmoved
  BY DEF Backslash
<1>6. Bytes(<< >>, FALSE) = << >>
  BY DEF Bytes
<1>7. Advance(Bytes(s, FALSE), to)
  BY <1>5, <1>6
<1> HIDE DEF s, to
<1> QED
  BY <1>1, <1>3, <1>4, <1>5, <1>7, Turn

LEMMA BackslashInDoubleTurn == ASSUME IInv, BackslashInDouble PROVE TurnTaken
<1>1. phase = "expanding" /\ Here(0) # End
  BY DEF BackslashInDouble, Scanning
<1>2. /\ Top.pos + 0 \in 1..Len(Top.word) /\ Top.pos \in Nat /\ Len(Top.word) \in Nat
      /\ Here(1) # End => Top.pos + 1 \in 1..Len(Top.word) /\ Here(1) \in Char
  BY <1>1, TopIs
<1>3. Unmoved
  BY DEF BackslashInDouble
<1>4. CASE Here(1) \in {"\n", "$", Backtick, "\"", "\\"}
  <2> DEFINE s  == IF Here(1) = "\n" THEN << >> ELSE <<Here(1)>>
             to == Top.pos + 2
  <2>1. Here(1) # End
    BY Zenon, <1>4 DEF End, Backtick
  <2>2. to \in (Top.pos + 1)..(Len(Top.word) + 1)
    BY <1>2, <2>1
  <2>3. s \in Text
    BY <1>2, <2>1, EmptyText, OneCharacter
  <2>4. Advance(IF Here(1) = "\n" THEN << >> ELSE Bytes(<<Here(1)>>, FALSE), to)
    BY <1>4 DEF BackslashInDouble
  <2>5. Bytes(<< >>, FALSE) = << >>
    BY DEF Bytes
  <2>6. Advance(Bytes(s, FALSE), to)
    BY <2>4, <2>5
  <2> HIDE DEF s, to
  <2> QED
    BY <1>1, <1>3, <2>2, <2>3, <2>6, Turn
<1>5. CASE Here(1) \notin {"\n", "$", Backtick, "\"", "\\"}
  <2>1. Advance(Bytes(<<"\\">>, FALSE), Top.pos + 1)
    BY <1>5 DEF BackslashInDouble
  <2>2. Top.pos + 1 \in (Top.pos + 1)..(Len(Top.word) + 1)
    BY <1>2
  <2>3. <<"\\">> \in Text
    BY LettersAre, OneCharacter
  <2> QED
    BY <1>1, <1>3, <2>1, <2>2, <2>3, Turn
<1> QED
  BY <1>4, <1>5

\* A tilde prefix ends at a slash or at the end of the word.
LEMMA TildeTurn == ASSUME IInv, Tilde PROVE TurnTaken
<1> DEFINE w    == Top.word
           P(j) == At(w, j) \in {End, "/"} /\ \A k \in 2..(j - 1) : w[k] # "/"
           stop == CHOOSE j \in 2..(Len(w) + 1) : P(j)
           user == SubSeq(w, 2, stop - 1)
           text == CASE user = <<>> /\ case.home # Unset -> case.home
                     [] (user # <<>> \/ case.home = Unset) /\ user \in DOMAIN UserDirs ->
                          UserDirs[user]
                     [] OTHER -> SubSeq(w, 1, stop - 1)
<1>1. phase = "expanding" /\ Here(0) # End /\ Top.pos = 1 /\ case \in Cases
  BY DEF Tilde, Scanning, IInv
<1>2. /\ Top.pos + 0 \in 1..Len(w) /\ Len(w) \in Nat /\ w \in Text
  BY <1>1, TopIs
<1> HIDE DEF w
<1>3. stop \in 2..(Len(w) + 1)
  <2> DEFINE T == {j \in 2..(Len(w) + 1) : At(w, j) \in {End, "/"}}
  <2>1. PICK j \in T : \A k \in T : j <= k
    <3>1. Len(w) + 1 \in 2..(Len(w) + 1)
      BY <1>1, <1>2
    <3>2. Len(w) + 1 \in Nat /\ Len(w) + 1 \notin 1..Len(w)
      BY <1>2
    <3>3. At(w, Len(w) + 1) = End
      BY <1>2, <3>2, AtIs
    <3>4. Len(w) + 1 \in T
      BY <3>1, <3>3
    <3>5. T \in SUBSET Nat
      <4>1. \A x \in 2..(Len(w) + 1) : x \in Nat
        BY <1>2
      <4> QED
        BY <4>1
    <3> HIDE DEF T
    <3> QED
      BY <3>4, <3>5, LeastIndex
  <2>2. j \in 2..(Len(w) + 1) /\ At(w, j) \in {End, "/"}
    BY <2>1
  <2>3. ASSUME NEW k \in 2..(j - 1) PROVE w[k] # "/"
    <3>1. k \in 2..(Len(w) + 1) /\ ~(j <= k) /\ k \in 1..Len(w) /\ k \in Nat
      <4> HIDE DEF T
      <4> QED
        BY <1>2, <2>2
    <3>2. At(w, k) \notin {End, "/"}
      BY <2>1, <3>1
    <3>3. At(w, k) = w[k]
      BY <1>2, <3>1, <3>2, AtIs
    <3> QED
      BY <3>2, <3>3
  <2>4. P(j)
    BY <2>2, <2>3
  <2> HIDE DEF P
  <2> QED
    BY <2>2, <2>4
<1>4. Advance(Bytes(text, FALSE), stop) /\ Unmoved
  BY DEF Tilde, w
<1> HIDE DEF stop
<1>5. stop \in (Top.pos + 1)..(Len(Top.word) + 1)
  BY <1>1, <1>3 DEF w
<1>6. text \in Text
  <2>1. SubSeq(w, 1, stop - 1) \in Text
    <3>1. 1 \in Nat \ {0} /\ stop - 1 \in Int /\ stop - 1 <= Len(w)
      BY <1>2, <1>3
    <3> QED
      BY <1>2, <3>1, PartIs
  <2>2. case.home \in Text \cup {Unset}
    BY <1>1, WordsAssumption
  <2>3. user \in DOMAIN UserDirs => UserDirs[user] \in Text
    BY WordsAssumption DEF Range
  <2> HIDE DEF user
  <2> QED
    BY <2>1, <2>2, <2>3
<1> HIDE DEF text
<1> QED
  BY <1>1, <1>4, <1>5, <1>6, Turn

\* A $ is a character of the word.
LEMMA DollarIs ==
    ASSUME IInv, Dollar
    PROVE  /\ phase = "expanding" /\ case \in Cases /\ Splitting \in BOOLEAN
           /\ Top.word \in Text /\ Len(Top.word) \in Nat
           /\ Top.pos \in Nat \ {0} /\ Top.pos \in 1..Len(Top.word)
           /\ Here(1) # End => Top.pos + 1 \in 1..Len(Top.word)
           /\ Here(2) # End => Top.pos + 2 \in 1..Len(Top.word)
<1>1. phase = "expanding" /\ Here(0) # End
  BY DEF Dollar, Scanning
<1>2. case \in Cases
  BY <1>1 DEF IInv
<1>3. /\ Top.word \in Text /\ Len(Top.word) \in Nat /\ Top.pos \in Nat
      /\ Top.pos + 0 \in 1..Len(Top.word)
      /\ Here(1) # End => Top.pos + 1 \in 1..Len(Top.word)
      /\ Here(2) # End => Top.pos + 2 \in 1..Len(Top.word)
  BY <1>1, TopIs
<1> QED
  BY <1>1, <1>2, <1>3 DEF Splitting

LEMMA DollarAloneTurn == ASSUME IInv, DollarAlone PROVE TurnTaken
<1>1. Dollar /\ Advance(Bytes(<<"$">>, Splitting), Top.pos + 1) /\ Unmoved
  BY DEF DollarAlone
<1>2. Top.pos + 1 \in (Top.pos + 1)..(Len(Top.word) + 1)
  BY <1>1, DollarIs
<1>3. <<"$">> \in Text
  BY LettersAre, OneCharacter
<1> QED
  BY <1>1, <1>2, <1>3, DollarIs, Turn

LEMMA SpecialParameterTurn == ASSUME IInv, SpecialParameter PROVE TurnTaken
<1>1. /\ Dollar /\ Here(1) \in {"?", "$", "0"}
      /\ Advance(Bytes(SpecialValue(Here(1)), Splitting), Top.pos + 2) /\ Unmoved
  BY DEF SpecialParameter
<1>2. Here(1) # End
  BY Zenon, <1>1 DEF End
<1>3. Top.pos + 2 \in (Top.pos + 1)..(Len(Top.word) + 1)
  BY <1>1, <1>2, DollarIs
<1>4. SpecialValue(Here(1)) \in Text
  BY <1>1, SpecialTyped DEF IInv
<1> QED
  BY <1>1, <1>3, <1>4, DollarIs, Turn

LEMMA ParameterTurn == ASSUME IInv, Parameter PROVE TurnTaken
<1> DEFINE names == Name \cup Range(Digit)
           stop  == After(Top.word, Top.pos + 1, names)
           text  == ValueOf(SubSeq(Top.word, Top.pos + 1, stop - 1))
<1>1. Dollar /\ Here(1) \in Name /\ Advance(Bytes(text, Splitting), stop) /\ Unmoved
  BY DEF Parameter
<1>2. Here(1) # End
  BY Zenon, <1>1 DEF End, Name
<1>3. Top.pos + 1 \in 1..Len(Top.word) /\ Len(Top.word) \in Nat /\ Top.pos \in Nat
  BY <1>1, <1>2, DollarIs
<1>4. stop \in (Top.pos + 1)..(Len(Top.word) + 1)
  <2>1. Top.pos + 1 \in 1..(Len(Top.word) + 1)
    BY <1>3
  <2> HIDE DEF names
  <2> QED
    BY <1>3, <2>1, AfterIs
<1>5. text \in Text
  BY <1>1, DollarIs, ValueTyped
<1> HIDE DEF stop, text
<1> QED
  BY <1>1, <1>4, <1>5, DollarIs, Turn

LEMMA BracedTurn == ASSUME IInv, Braced PROVE TurnTaken
<1> DEFINE close == Brace(Top.word, Top.pos)
           name  == SubSeq(Top.word, Top.pos + 2, close - 1)
           text  == IF Len(name) = 1 /\ name[1] \in {"?", "$", "0"}
                    THEN SpecialValue(name[1]) ELSE ValueOf(name)
<1>1. Dollar /\ close # 0 /\ Advance(Bytes(text, Splitting), close + 1) /\ Unmoved
  BY DEF Braced
<1>2. Len(Top.word) \in Nat /\ Top.pos \in Nat /\ Top.word \in Text
  BY <1>1, DollarIs
<1>3. close \in (Top.pos + 2)..Len(Top.word)
  BY <1>1, <1>2, BraceIs
<1> HIDE DEF close
<1>4. close + 1 \in (Top.pos + 1)..(Len(Top.word) + 1)
  BY <1>2, <1>3
<1>5. text \in Text
  <2>1. ValueOf(name) \in Text
    BY <1>1, DollarIs, ValueTyped
  <2> HIDE DEF name
  <2>2. name[1] \in {"?", "$", "0"} => SpecialValue(name[1]) \in Text
    BY SpecialTyped DEF IInv
  <2> QED
    BY <2>1, <2>2
<1> HIDE DEF text
<1> QED
  BY <1>1, <1>4, <1>5, DollarIs, Turn

LEMMA BraceUnterminatedTurn == ASSUME IInv, BraceUnterminated PROVE TurnTaken
<1>1. Dollar
  BY DEF BraceUnterminated
<1>2. Advance(Bytes(<<"$", "{">>, FALSE), Top.pos + 1) /\ Unmoved
  BY DEF BraceUnterminated
<1>3. Len(Top.word) \in Nat /\ Top.pos \in 1..Len(Top.word) /\ phase = "expanding"
  BY <1>1, DollarIs
<1>4. Top.pos + 1 \in (Top.pos + 1)..(Len(Top.word) + 1)
  BY <1>3
<1>5. <<"$", "{">> \in Text
  <2>1. \A c \in Char : \A d \in Char : <<c, d>> \in Seq(Char)
    OBVIOUS
  <2> QED
    BY <2>1, LettersAre DEF Text
<1> QED
  BY <1>2, <1>3, <1>4, <1>5, Turn

\* What a substitution printed takes the place of its text.
LEMMA EmitTurn ==
    ASSUME IInv, Substitutes, FindClose(Top.word, Top.pos + 2) # 0,
           NEW out \in Text, NEW st \in Nat \cup {Killed}, Emit(out, st)
    PROVE  TurnTaken
<1> DEFINE close == FindClose(Top.word, Top.pos + 2)
<1>1. Dollar /\ close # 0
  BY DEF Substitutes
<1>2. /\ Len(Top.word) \in Nat /\ Top.pos \in Nat /\ Top.word \in Text
      /\ phase = "expanding" /\ Splitting \in BOOLEAN
  BY <1>1, DollarIs
<1>3. /\ Advance(Bytes(Stripped(out), Splitting), close + 1)
      /\ status' = IF st = Killed THEN status ELSE st
      /\ phase' = phase /\ case' = case /\ todo' = todo
  BY DEF Emit, command
<1>4. close \in (Top.pos + 2)..Len(Top.word)
  <2>1. Top.pos + 2 \in Nat
    BY <1>2
  <2> QED
    BY <1>1, <1>2, <2>1, FindCloseIs
<1> HIDE DEF close
<1>5. close + 1 \in (Top.pos + 1)..(Len(Top.word) + 1)
  BY <1>2, <1>4
<1>6. Bytes(Stripped(out), Splitting) \in Seq(Pairs)
  <2>1. Stripped(out) \in Text
    BY StrippedTyped
  <2> QED
    BY <1>2, <2>1, BytesTyped DEF Pairs
<1>7. Moved(scans, scans')
  BY <1>2, <1>3, <1>5, <1>6, AdvanceMoves
<1>8. status' \in Codes
  BY <1>3 DEF IInv, Codes
<1> QED
  BY <1>2, <1>3, <1>7, <1>8 DEF TurnTaken

LEMMA SubstitutionTurn == ASSUME IInv, Substitution PROVE TurnTaken
<1>1. Substitutes /\ FindClose(Top.word, Top.pos + 2) # 0
  BY DEF Substitution
<1>2. PICK out \in Outputs, st \in Statuses \cup {Killed} : Emit(out, st)
  BY DEF Substitution
<1>3. Outputs \subseteq Text /\ Statuses \subseteq Nat
  BY WordsAssumption
<1>4. out \in Text /\ st \in Nat \cup {Killed}
  BY <1>3
<1> QED
  BY <1>1, <1>2, <1>4, EmitTurn

LEMMA SubstitutionNotStartedTurn == ASSUME IInv, SubstitutionNotStarted PROVE TurnTaken
<1>1. /\ Substitutes /\ FindClose(Top.word, Top.pos + 2) # 0
      /\ Emit(<< >>, Killed)
  BY DEF SubstitutionNotStarted
<1>2. << >> \in Text /\ Killed \in Nat \cup {Killed}
  BY EmptyText
<1> QED
  BY <1>1, <1>2, EmitTurn

LEMMA NewScanIs ==
    ASSUME NEW w \in Text
    PROVE  NewScan(w) \in Standing /\ NewScan(w).word = w /\ NewScan(w).pos = 1
<1>1. Len(w) \in Nat
  BY DEF Text
<1>2. << >> \in Seq(Pairs)
  BY EmptySeq
<1>3. NewScan(w).word = w /\ NewScan(w).pos = 1 /\ NewScan(w) \in ScanRecords
  BY <1>2 DEF NewScan, ScanRecords
<1>4. NewScan(w).pos \in 1..(Len(NewScan(w).word) + 1)
  BY <1>1, <1>3
<1> QED
  BY <1>3, <1>4 DEF Standing

\* A scan opened above another takes no more than the other leaves to it.
LEMMA OpenedLeft ==
    ASSUME NEW s \in Seq(Standing), s # << >>, NEW x \in Standing, NEW y \in Standing,
           Weight(x) + Weight(y) < Weight(s[Len(s)])
    PROVE  LET t == Append([s EXCEPT ![Len(s)] = x], y)
           IN  t \in Seq(Standing) /\ Lefts(t)[Len(t)] < Lefts(s)[Len(s)]
<1> DEFINE n == Len(s)
           u == [s EXCEPT ![n] = x]
           t == Append(u, y)
<1>1. n \in Nat /\ n >= 1 /\ n \in 1..n /\ n - 1 \in Nat /\ n - 1 \in 0..n
  OBVIOUS
<1>2. u \in Seq(Standing) /\ Len(u) = n /\ u[n] = x /\ \A i \in 1..(n - 1) : u[i] = s[i]
  BY <1>1
<1> HIDE DEF u
<1>3. /\ t \in Seq(Standing) /\ Len(t) = n + 1 /\ t[n + 1] = y /\ t[n] = x
      /\ \A i \in 1..(n - 1) : t[i] = s[i]
  BY <1>1, <1>2
<1> HIDE DEF t, n
<1>4. Lefts(s)[n - 1] = Lefts(t)[n - 1]
  <2>1. \A i \in 1..(n - 1) : Weight(s[i]) = Weight(t[i])
    BY <1>3
  <2>2. n - 1 <= Len(s) /\ n - 1 <= Len(t)
    BY <1>1, <1>3 DEF n
  <2> QED
    BY <1>1, <1>3, <2>1, <2>2, LeftsAgree
<1>5. Lefts(s)[n] = Lefts(s)[n - 1] + Weight(s[n]) /\ Lefts(s)[n - 1] \in Int
  BY <1>1, LeftsAre DEF n
<1>6. Lefts(t)[n] = Lefts(t)[n - 1] + Weight(x)
  BY <1>1, <1>3, LeftsAre
<1>7. Lefts(t)[n + 1] = Lefts(t)[n] + Weight(y)
  <2>1. n + 1 \in 1..(n + 1) /\ (n + 1) - 1 = n
    BY <1>1
  <2> QED
    BY <1>3, <2>1, LeftsAre
<1>8. s[n] \in Standing
  BY <1>1 DEF n
<1>9. Weight(x) \in Int /\ Weight(y) \in Int /\ Weight(s[n]) \in Int
  <2>1. ASSUME NEW z \in Standing PROVE Weight(z) \in Int
    <3>1. Len(z.word) \in Nat /\ z.pos \in Nat
      BY StandingIs
    <3> QED
      BY <3>1 DEF Weight
  <2> QED
    BY <1>8, <2>1
<1>10. Weight(x) + Weight(y) < Weight(s[n])
  BY DEF n
<1>11. Lefts(t)[n + 1] < Lefts(s)[n]
  BY <1>4, <1>5, <1>6, <1>7, <1>9, <1>10
<1> QED
  BY <1>3, <1>11 DEF t, u, n

\* Closing one leaves no more than there was.
LEMMA ClosedLeft ==
    ASSUME NEW s \in Seq(Standing), Len(s) > 1, NEW x \in Standing,
           Weight(x) = Weight(s[Len(s) - 1])
    PROVE  LET t == Append(SubSeq(s, 1, Len(s) - 2), x)
           IN  /\ t \in Seq(Standing) /\ t # << >> /\ Len(t) < Len(s)
               /\ Lefts(t)[Len(t)] <= Lefts(s)[Len(s)]
               /\ Lefts(t)[Len(t)] \in Int /\ Lefts(s)[Len(s)] \in Int
<1> DEFINE n == Len(s)
           u == SubSeq(s, 1, n - 2)
           t == Append(u, x)
<1>1. n \in Nat /\ n >= 2 /\ n \in 1..n /\ n - 1 \in Nat /\ n - 1 \in 1..n /\ n - 2 \in Nat
  OBVIOUS
<1>2. u \in Seq(Standing) /\ Len(u) = n - 2 /\ \A i \in 1..(n - 2) : u[i] = s[i]
  <2>1. \A i \in 1..(n - 2) : s[i] \in Standing
    BY <1>1
  <2>2. 1 \in Int /\ n - 2 \in Int /\ 1 <= (n - 2) + 1
    BY <1>1
  <2> HIDE DEF n
  <2> QED
    BY <1>1, <2>1, <2>2, SubSeqProperties
<1> HIDE DEF u
<1>3. /\ t \in Seq(Standing) /\ Len(t) = n - 1 /\ t[n - 1] = x /\ t # << >>
      /\ \A i \in 1..(n - 2) : t[i] = s[i]
  BY <1>1, <1>2
<1> HIDE DEF t
<1>4. Lefts(s)[n - 1] = Lefts(t)[n - 1]
  <2>1. \A i \in 1..(n - 1) : Weight(s[i]) = Weight(t[i])
    <3>1. Weight(x) = Weight(s[n - 1])
      OBVIOUS
    <3> HIDE DEF n
    <3>2. \A i \in 1..(n - 1) : i = n - 1 \/ i \in 1..(n - 2)
      BY <1>1
    <3> QED
      BY <1>3, <3>1, <3>2
  <2>2. n - 1 <= Len(s) /\ n - 1 <= Len(t)
    BY <1>1, <1>3
  <2> HIDE DEF n
  <2> QED
    BY <1>1, <1>3, <2>1, <2>2, LeftsAgree
<1>5. Lefts(s)[n] = Lefts(s)[n - 1] + Weight(s[n]) /\ Lefts(s)[n - 1] \in Int
  BY <1>1, LeftsAre
<1>6. Weight(s[n]) \in Int /\ Weight(s[n]) >= 0
  <2> DEFINE z == s[n]
  <2>1. z \in Standing
    BY <1>1
  <2> HIDE DEF z, n
  <2>2. Len(z.word) \in Nat /\ z.pos \in 1..(Len(z.word) + 1)
    BY <2>1, StandingIs
  <2>3. Weight(z) \in Int /\ Weight(z) >= 0
    BY <2>2 DEF Weight
  <2> QED
    BY <2>3 DEF z
<1>7. /\ Lefts(t)[n - 1] <= Lefts(s)[n]
      /\ Lefts(t)[n - 1] \in Int /\ Lefts(s)[n] \in Int /\ n - 1 < n
  <2> HIDE DEF n
  <2> QED
    BY <1>1, <1>4, <1>5, <1>6
<1> QED
  BY <1>3, <1>7 DEF t, u

\* The last step of an expansion that fails.
Stopped ==
    /\ phase = "expanding" /\ phase' \in {"ready", "failed", "dead"}
    /\ case' = case /\ todo' = todo /\ scans' = scans /\ status' \in Codes

\* A step that begins or ends an expression.
Nested ==
    /\ phase = "expanding" /\ phase' = phase /\ case' = case /\ todo' = todo
    /\ status' \in Codes /\ scans' \in Seq(Standing) /\ scans' # << >>
    /\ \/ Lefts(scans')[Len(scans')] < Lefts(scans)[Len(scans)]
       \/ /\ Lefts(scans')[Len(scans')] = Lefts(scans)[Len(scans)]
          /\ Len(scans') < Len(scans)

\* One that goes on to the next word.
WordTaken == phase = "expanding" /\ NextWord

LEMMA FailStops ==
    ASSUME IInv, phase = "expanding", NEW st \in Codes, NEW depth, Fail(depth, st)
    PROVE  Stopped
<1>1. case' = case /\ todo' = todo /\ scans' = scans
  BY DEF Fail, Die, command
<1>2. CASE Die
  BY <1>1, <1>2 DEF Die, Stopped, IInv
<1>3. CASE ~Die
  <2>1. phase' \in {"ready", "failed"} /\ status' \in {1, st}
    BY <1>3 DEF Fail
  <2>2. 1 \in Codes
    BY DEF Codes
  <2> QED
    BY <1>1, <2>1, <2>2 DEF Stopped
<1> QED
  BY <1>2, <1>3

LEMMA UnmatchedStops == ASSUME IInv, Unmatched PROVE Stopped
<1>1. Fail(Len(scans), 2) /\ phase = "expanding"
  BY DEF Unmatched, Substitutes, Dollar, Scanning
<1>2. 2 \in Codes
  BY DEF Codes
<1> QED
  BY <1>1, <1>2, FailStops

LEMMA ArithmeticBeginsNested == ASSUME IInv, ArithmeticBegins PROVE Nested \/ Stopped
<1> DEFINE w    == Top.word
           pos  == Top.pos
           next == FindArithClose(w, pos + 3)
           n    == Len(scans)
           x    == [Top EXCEPT !.pos = next]
           y    == NewScan(SubSeq(w, pos + 3, next - 3))
<1>1. Dollar /\ phase = "expanding" /\ Here(2) # End
  <2>1. Computes
    BY DEF ArithmeticBegins
  <2> QED
    BY Zenon, <2>1 DEF Computes, Dollar, Scanning, End
<1>2. Top \in Standing /\ w \in Text /\ Len(w) \in Nat /\ pos \in Nat /\ n \in Nat /\ n >= 1
  BY <1>1, TopIs
<1>3. CASE next = 0
  <2>1. Fail(Len(scans), status)
    BY <1>3 DEF ArithmeticBegins
  <2> QED
    BY <1>1, <2>1, FailStops DEF IInv
<1>4. CASE next # 0
  <2>1. scans' = Append([scans EXCEPT ![Len(scans)].pos = next], y) /\ Unmoved
    BY <1>4 DEF ArithmeticBegins
  <2>2. next \in (pos + 5)..(Len(w) + 1)
    <3>1. pos + 3 \in Nat /\ (pos + 3) + 2 = pos + 5
      BY <1>2
    <3> HIDE DEF w, pos
    <3> QED
      BY <1>2, <1>4, <3>1, FindArithCloseIs
  <2> HIDE DEF next
  <2>3. x \in Standing /\ x.word = w /\ x.pos = next
    <3>1. next \in Nat /\ next \in 1..(Len(w) + 1)
      BY <1>2, <2>2
    <3>2. Top \in ScanRecords
      BY <1>2 DEF Standing
    <3>3. x \in ScanRecords /\ x.word = w /\ x.pos = next
      BY <3>1, <3>2 DEF ScanRecords
    <3> HIDE DEF x
    <3> QED
      BY <3>1, <3>3 DEF Standing
  <2>4. scans[n] = Top
    BY DEF Top
  <2>5. scans \in Seq(Standing) /\ scans # << >>
    BY <1>1 DEF IInv
  <2>6. [scans EXCEPT ![n].pos = next] = [scans EXCEPT ![n] = x]
    BY <1>2, <2>4
  <2> HIDE DEF x
  <2> DEFINE v == SubSeq(w, pos + 3, next - 3)
  <2>7. v \in Text /\ Len(v) = next - pos - 5
    <3> HIDE DEF w, pos
    <3>1. /\ pos + 3 \in Nat \ {0} /\ next - 3 \in Int /\ next - 3 <= Len(w)
          /\ pos + 3 <= (next - 3) + 1 /\ pos + 3 \in Int
      BY <1>2, <2>2
    <3>2. v \in Text
      BY <1>2, <3>1, PartIs
    <3>3. Len(v) = ((next - 3) - (pos + 3)) + 1
      <4>1. w \in Seq(Char) /\ \A k \in (pos + 3)..(next - 3) : w[k] \in Char
        <5>1. \A k \in (pos + 3)..(next - 3) : k \in 1..Len(w)
          BY <1>2, <2>2
        <5> QED
          BY <1>2, <5>1 DEF Text
      <4> QED
        BY <3>1, <4>1, SubSeqProperties
    <3> QED
      BY <1>2, <2>2, <3>2, <3>3
  <2> HIDE DEF v
  <2>8. y \in Standing /\ y.word = v /\ y.pos = 1
    BY <2>7, NewScanIs DEF v
  <2> HIDE DEF y
  <2>9. Weight(x) + Weight(y) < Weight(Top)
    <3>1. Weight(x) = Len(w) + 1 - next
      BY <2>3 DEF Weight
    <3>2. Weight(y) = next - pos - 5 + 1 - 1
      BY <2>7, <2>8 DEF Weight
    <3>3. Weight(Top) = Len(w) + 1 - pos
      BY DEF Weight
    <3> HIDE DEF w, pos
    <3> QED
      BY <1>2, <2>2, <3>1, <3>2, <3>3
  <2>10. /\ scans' \in Seq(Standing)
         /\ Lefts(scans')[Len(scans')] < Lefts(scans)[Len(scans)]
    <3>1. scans' = Append([scans EXCEPT ![Len(scans)] = x], y)
      BY <2>1, <2>6
    <3> QED
      BY <2>3, <2>4, <2>5, <2>8, <2>9, <3>1, OpenedLeft
  <2>11. scans' # << >>
    <3>1. [scans EXCEPT ![n] = x] \in Seq(Standing)
      BY <1>2, <2>3, <2>5
    <3> HIDE DEF n
    <3> QED
      BY <2>1, <2>6, <2>8, <3>1
  <2>12. phase' = phase /\ case' = case /\ todo' = todo /\ status' \in Codes
    BY <2>1 DEF Unmoved, command, IInv
  <2> QED
    BY <1>1, <2>10, <2>11, <2>12 DEF Nested
<1> QED
  BY <1>3, <1>4

LEMMA ArithmeticEndsNested == ASSUME IInv, ArithmeticEnds PROVE Nested \/ Stopped
<1> DEFINE r     == ArithEval(Chars(Top.buf))
           n     == Len(scans)
           outer == scans[n - 1]
           bytes == Bytes(Decimal(r.val), outer.quote = "none")
           x     == [outer EXCEPT !.buf = outer.buf \o bytes]
<1>1. phase = "expanding" /\ n > 1 /\ scans \in Seq(Standing)
  BY DEF ArithmeticEnds, AtEnd, IInv
<1>2. r.val \in Int /\ r.err \in Errors
  <2>1. Top.buf \in Seq(Char \X BOOLEAN)
    BY <1>1, TopIs DEF Pairs
  <2>2. Chars(Top.buf) \in Text
    BY <2>1, CharsTyped
  <2> QED
    BY <2>2, ArithEvalTyped
<1> HIDE DEF r
<1>3. CASE r.err = "none"
  <2>1. scans' = Append(SubSeq(scans, 1, n - 2), x) /\ Unmoved
    BY Zenon, <1>3 DEF ArithmeticEnds, r
  <2>2. outer \in Standing
    BY <1>1
  <2> HIDE DEF outer, n
  <2>3. outer.buf \o bytes \in Seq(Pairs)
    <3>1. Decimal(r.val) \in Text
      BY <1>2, DecimalTyped
    <3>2. (outer.quote = "none") \in BOOLEAN
      OBVIOUS
    <3>3. bytes \in Seq(Pairs)
      BY <3>1, <3>2, BytesTyped DEF Pairs
    <3>4. outer.buf \in Seq(Pairs)
      BY <2>2, StandingIs
    <3> HIDE DEF bytes
    <3> QED
      BY <3>3, <3>4, ConcatProperties
  <2> HIDE DEF bytes
  <2>4. x \in Standing /\ x.word = outer.word /\ x.pos = outer.pos
    <3>1. outer \in ScanRecords /\ outer.pos \in 1..(Len(outer.word) + 1)
      BY <2>2 DEF Standing
    <3>2. x \in ScanRecords /\ x.word = outer.word /\ x.pos = outer.pos
      BY <2>3, <3>1 DEF ScanRecords
    <3> HIDE DEF x
    <3> QED
      BY <3>1, <3>2 DEF Standing
  <2> HIDE DEF x
  <2>5. Weight(x) = Weight(outer)
    BY <2>4 DEF Weight
  <2>6. Len(scans) > 1 /\ Weight(x) = Weight(scans[Len(scans) - 1])
    BY <1>1, <2>5 DEF outer, n
  <2>7. scans' = Append(SubSeq(scans, 1, Len(scans) - 2), x)
    BY <2>1 DEF n
  <2>8. /\ scans' \in Seq(Standing) /\ scans' # << >> /\ Len(scans') < Len(scans)
        /\ Lefts(scans')[Len(scans')] <= Lefts(scans)[Len(scans)]
        /\ Lefts(scans')[Len(scans')] \in Int /\ Lefts(scans)[Len(scans)] \in Int
    BY <1>1, <2>4, <2>6, <2>7, ClosedLeft
  <2>9. phase' = phase /\ case' = case /\ todo' = todo /\ status' \in Codes
    BY <2>1 DEF Unmoved, command, IInv
  <2> QED
    BY <1>1, <2>8, <2>9 DEF Nested
<1>4. CASE r.err = "trap"
  <2>1. phase' = "dead" /\ UNCHANGED <<command, scans, status, log>>
    BY Zenon, <1>4 DEF ArithmeticEnds, Die, r
  <2>2. case' = case /\ todo' = todo /\ scans' = scans /\ status' = status
    BY <2>1 DEF command
  <2> QED
    BY <1>1, <2>1, <2>2 DEF Stopped, IInv
<1>5. CASE r.err \in {"syntax", "zero"}
  <2>1. Fail(Len(scans) - 1, status)
    BY Zenon, <1>5 DEF ArithmeticEnds, r
  <2> QED
    BY <1>1, <2>1, FailStops DEF IInv
<1> QED
  BY <1>2, <1>3, <1>4, <1>5 DEF Errors

LEMMA WordEnds ==
    ASSUME IInv, ArgumentEnds \/ ValueEnds \/ TargetEnds
    PROVE  WordTaken \/ Stopped
<1>1. CASE ArgumentEnds
  BY <1>1 DEF ArgumentEnds, AtEnd, WordTaken
<1>2. CASE ValueEnds
  BY <1>2 DEF ValueEnds, AtEnd, WordTaken
<1>3. CASE TargetEnds
  <2>1. phase = "expanding" /\ (NextWord \/ Fail(1, status))
    BY <1>3 DEF TargetEnds, AtEnd
  <2> QED
    BY <2>1, FailStops DEF WordTaken, IInv
<1> QED
  BY <1>1, <1>2, <1>3

\* Every step of a scan is one of these.
LEMMA ScanIs ==
    ASSUME IInv, Scan
    PROVE  TurnTaken \/ Nested \/ WordTaken \/ Stopped
<1>1. CASE Quote
  BY <1>1, QuoteTurn
<1>2. CASE Ordinary
  BY <1>2, OrdinaryTurn
<1>3. CASE Backslash
  BY <1>3, BackslashTurn
<1>4. CASE BackslashInDouble
  BY <1>4, BackslashInDoubleTurn
<1>5. CASE Tilde
  BY <1>5, TildeTurn
<1>6. CASE DollarAlone
  BY <1>6, DollarAloneTurn
<1>7. CASE SpecialParameter
  BY <1>7, SpecialParameterTurn
<1>8. CASE Parameter
  BY <1>8, ParameterTurn
<1>9. CASE Braced
  BY <1>9, BracedTurn
<1>10. CASE BraceUnterminated
  BY <1>10, BraceUnterminatedTurn
<1>11. CASE Unmatched
  BY <1>11, UnmatchedStops
<1>12. CASE Substitution
  BY <1>12, SubstitutionTurn
<1>13. CASE SubstitutionNotStarted
  BY <1>13, SubstitutionNotStartedTurn
<1>14. CASE ArithmeticBegins
  BY <1>14, ArithmeticBeginsNested
<1>15. CASE ArithmeticEnds
  BY <1>15, ArithmeticEndsNested
<1>16. CASE ArgumentEnds \/ ValueEnds \/ TargetEnds
  BY <1>16, WordEnds
<1> QED
  BY <1>1, <1>2, <1>3, <1>4, <1>5, <1>6, <1>7, <1>8, <1>9, <1>10, <1>11, <1>12, <1>13,
     <1>14, <1>15, <1>16 DEF Scan

-------------------------------------------------------------------------------
(* The words of a command.                                                   *)

\* The places of c that hold a text.
Places(c) == {p \in Stations : WordOf(c, p).text \in Text}

LEMMA ToExpandIs ==
    ASSUME NEW c, NEW ps
    PROVE  ToExpand(c, ps) <=> ps \in Seq(Places(c))
<1>1. ASSUME ps \in Seq(Stations), \A n \in 1..Len(ps) : WordOf(c, ps[n]).text \in Text
      PROVE  ps \in Seq(Places(c))
  <2>1. \A n \in 1..Len(ps) : ps[n] \in Places(c)
    BY <1>1 DEF Places
  <2> QED
    BY <1>1, <2>1
<1>2. ASSUME ps \in Seq(Places(c))
      PROVE  ps \in Seq(Stations) /\ \A n \in 1..Len(ps) : WordOf(c, ps[n]).text \in Text
  <2>1. \A p \in Places(c) : p \in Stations /\ WordOf(c, p).text \in Text
    BY DEF Places
  <2> HIDE DEF Places
  <2> QED
    BY <1>2, <2>1
<1> QED
  BY <1>1, <1>2 DEF ToExpand

\* The targets among the first i redirections.
TargetsOf(k) ==
    LET upTo[i \in 0..Len(k.redirs)] ==
            CASE i = 0 -> <<>>
              [] i > 0 /\ k.redirs[i].heredoc -> upTo[i - 1]
              [] OTHER -> Append(upTo[i - 1], [part |-> "target", i |-> i])
    IN  upTo

TargetStep(k, f, i) ==
    CASE i = 0 -> <<>>
      [] i > 0 /\ k.redirs[i].heredoc -> f[i - 1]
      [] OTHER -> Append(f[i - 1], [part |-> "target", i |-> i])

LEMMA TargetsAre ==
    ASSUME NEW c, c.redirs \in Seq(Range(c.redirs)),
           \A i \in 1..Len(c.redirs) : [part |-> "target", i |-> i] \in Places(c)
    PROVE  TargetsOf(c)[Len(c.redirs)] \in Seq(Places(c))
<1> DEFINE n       == Len(c.redirs)
           D       == Seq(Places(c))
           Dom     == 0..n
           Fs      == [Dom -> D]
           rank    == [i \in Dom |-> i]
           One(f, i) == TargetStep(c, f, i)
           step    == [f \in Fs |-> [i \in Dom |-> One(f, i)]]
<1>1. n \in Nat /\ << >> \in D
  <2>1. \A r : r \in Seq(Range(r)) => Len(r) \in Nat
    OBVIOUS
  <2> QED
    BY <2>1, EmptySeq
<1>2. ASSUME NEW i \in 1..n PROVE [part |-> "target", i |-> i] \in Places(c)
  OBVIOUS
<1> HIDE DEF n
<1>3. ASSUME NEW f \in Fs, NEW i \in Dom PROVE One(f, i) \in D
  <2>1. CASE i = 0
    BY <1>1, <2>1 DEF TargetStep
  <2>2. CASE i # 0
    <3>1. i \in 1..n /\ i > 0 /\ i - 1 \in Dom
      BY <1>1, <2>2
    <3>2. f[i - 1] \in D
      BY <3>1
    <3>3. [part |-> "target", i |-> i] \in Places(c)
      BY <1>2, <3>1
    <3>4. Append(f[i - 1], [part |-> "target", i |-> i]) \in D
      BY <3>2, <3>3, AppendProperties
    <3>5. One(f, i) \in {f[i - 1], Append(f[i - 1], [part |-> "target", i |-> i])}
      BY <3>1, <2>2 DEF TargetStep
    <3> QED
      BY <3>2, <3>4, <3>5
  <2> QED
    BY <2>1, <2>2
<1>4. ASSUME NEW f \in Fs, NEW g \in Fs, NEW i \in Dom,
             \A j \in Dom : rank[j] < rank[i] => f[j] = g[j]
      PROVE  One(f, i) = One(g, i)
  <2>1. CASE i = 0
    BY <2>1 DEF TargetStep
  <2>2. CASE i # 0
    <3>1. i - 1 \in Dom /\ rank[i - 1] < rank[i]
      BY <1>1, <2>2
    <3>2. f[i - 1] = g[i - 1]
      BY <1>4, <3>1
    <3> QED
      BY <3>2 DEF TargetStep
  <2> QED
    BY <2>1, <2>2
<1>5. rank \in [Dom -> 0..n]
  OBVIOUS
<1> DEFINE d == [i \in Dom |-> << >>]
<1>6. d \in Fs
  BY <1>1
<1>7. step \in [Fs -> Fs]
  <2> HIDE DEF One
  <2> QED
    BY <1>3
<1>8. \A f \in Fs : FunctionOn(f, Dom)
  BY DEF FunctionOn
<1>9. Local(step, Fs, Dom, rank)
  <2>1. \A f \in Fs : \A i \in Dom : step[f][i] = One(f, i)
    <3> HIDE DEF One
    <3> QED
      OBVIOUS
  <2> HIDE DEF One, step, Fs, rank, Dom
  <2> QED
    BY <1>4, <2>1 DEF Local
<1>10. PICK f \in Fs : step[f] = f
  <2> HIDE DEF step, Fs, rank, Dom, d
  <2> QED
    BY <1>1, <1>5, <1>6, <1>7, <1>8, <1>9, Ranked
<1>11. f = [i \in Dom |-> One(f, i)]
  <2> HIDE DEF One
  <2> QED
    BY <1>10
<1> DEFINE v == TargetsOf(c)
<1>12. v = [i \in Dom |-> One(v, i)]
  BY <1>11 DEF TargetsOf, TargetStep, n
<1> HIDE DEF v
<1> DEFINE S == {i \in Dom : v[i] \in D}
<1>13. \A i \in 0..n : v[i] = One(v, i)
  <2> HIDE DEF One
  <2> QED
    BY <1>12
<1>14. 0 \in S
  <2>1. TargetStep(c, v, 0) = << >>
    BY DEF TargetStep
  <2>2. 0 \in Dom
    BY <1>1
  <2> HIDE DEF D
  <2> QED
    BY <1>1, <1>13, <2>1, <2>2
<1>15. ASSUME NEW i \in 0..n, i < n, i \in S PROVE i + 1 \in S
  <2>1. i + 1 \in 1..n /\ i + 1 \in 0..n /\ (i + 1) - 1 = i /\ i + 1 > 0 /\ i + 1 # 0
    BY <1>1, <1>15
  <2>2. v[i] \in D
    BY <1>15
  <2>3. [part |-> "target", i |-> i + 1] \in Places(c)
    BY <1>2, <2>1
  <2>4. Append(v[i], [part |-> "target", i |-> i + 1]) \in D
    BY <2>2, <2>3, AppendProperties
  <2>5. v[i + 1] \in {v[i], Append(v[i], [part |-> "target", i |-> i + 1])}
    BY <1>13, <2>1 DEF TargetStep
  <2> QED
    BY <2>1, <2>2, <2>4, <2>5
<1>16. \A i \in 0..n : i \in S
  <2> HIDE DEF S
  <2> QED
    BY <1>1, <1>14, <1>15, UpTo
<1> QED
  BY <1>1, <1>16 DEF v, n

\* The words of a command are to be expanded.
LEMMA PartsTyped ==
    ASSUME NEW c \in Cases
    PROVE  ToExpand(c, Parts(c))
<1> DEFINE D == Places(c)
           A == [i \in DOMAIN c.argv |-> [part |-> "argv", i |-> i]]
           B == [i \in DOMAIN c.values |-> [part |-> "value", i |-> i]]
           C == TargetsOf(c)[Len(c.redirs)]
<1>1. /\ Written(c.argv) /\ Written(c.values)
      /\ Written([i \in DOMAIN c.redirs |-> c.redirs[i].target])
      /\ c.redirs \in Seq(Range(c.redirs))
  BY WordsAssumption
<1>2. \A ws : Written(ws) => /\ DOMAIN ws = 1..Len(ws) /\ Len(ws) \in Nat
                             /\ \A i \in 1..Len(ws) : ws[i].text \in Text
  BY DEF Written
<1>3. A \in Seq(D)
  <2>1. /\ DOMAIN c.argv = 1..Len(c.argv) /\ Len(c.argv) \in Nat
        /\ \A i \in 1..Len(c.argv) : c.argv[i].text \in Text
    BY <1>1, <1>2
  <2>2. \A i \in 1..Len(c.argv) : [part |-> "argv", i |-> i] \in D
    <3>1. ASSUME NEW i \in 1..Len(c.argv) PROVE [part |-> "argv", i |-> i] \in D
      <4> DEFINE p == [part |-> "argv", i |-> i]
      <4>1. p \in Stations
        BY <2>1 DEF Stations
      <4>2. WordOf(c, p) = c.argv[i]
        BY DEF WordOf
      <4> HIDE DEF p
      <4>3. p \in D
        BY <2>1, <4>1, <4>2 DEF Places
      <4> QED
        BY <4>3 DEF p
    <3> QED
      BY <3>1
  <2> HIDE DEF D
  <2> QED
    BY <2>1, <2>2
<1>4. B \in Seq(D)
  <2>1. /\ DOMAIN c.values = 1..Len(c.values) /\ Len(c.values) \in Nat
        /\ \A i \in 1..Len(c.values) : c.values[i].text \in Text
    BY <1>1, <1>2
  <2>2. \A i \in 1..Len(c.values) : [part |-> "value", i |-> i] \in D
    <3>1. ASSUME NEW i \in 1..Len(c.values) PROVE [part |-> "value", i |-> i] \in D
      <4> DEFINE p == [part |-> "value", i |-> i]
      <4>1. p \in Stations
        BY <2>1 DEF Stations
      <4>2. WordOf(c, p) = c.values[i]
        BY DEF WordOf
      <4> HIDE DEF p
      <4>3. p \in D
        BY <2>1, <4>1, <4>2 DEF Places
      <4> QED
        BY <4>3 DEF p
    <3> QED
      BY <3>1
  <2> HIDE DEF D
  <2> QED
    BY <2>1, <2>2
<1>5. C \in Seq(D)
  <2> DEFINE ws == [i \in DOMAIN c.redirs |-> c.redirs[i].target]
  <2>1. DOMAIN c.redirs = 1..Len(c.redirs) /\ Len(c.redirs) \in Nat
    <3>1. \A r : r \in Seq(Range(r)) => DOMAIN r = 1..Len(r) /\ Len(r) \in Nat
      OBVIOUS
    <3> QED
      BY <1>1, <3>1
  <2>2. \A i \in 1..Len(c.redirs) : c.redirs[i].target.text \in Text
    <3>1. DOMAIN ws = 1..Len(c.redirs) /\ \A i \in 1..Len(c.redirs) : ws[i] = c.redirs[i].target
      BY <2>1
    <3>2. \A i \in DOMAIN ws : ws[i].text \in Text
      BY <1>1 DEF Written
    <3> QED
      BY <3>1, <3>2
  <2>3. \A i \in 1..Len(c.redirs) : [part |-> "target", i |-> i] \in D
    <3>1. ASSUME NEW i \in 1..Len(c.redirs) PROVE [part |-> "target", i |-> i] \in D
      <4> DEFINE p == [part |-> "target", i |-> i]
      <4>1. p \in Stations
        BY <2>1 DEF Stations
      <4>2. WordOf(c, p) = c.redirs[i].target
        BY DEF WordOf
      <4> HIDE DEF p
      <4>3. p \in D
        BY <2>2, <4>1, <4>2 DEF Places
      <4> QED
        BY <4>3 DEF p
    <3> QED
      BY <3>1
  <2> QED
    BY <1>1, <2>3, TargetsAre
<1>6. Parts(c) = A \o B \o C
  BY DEF Parts, TargetsOf
<1> HIDE DEF A, B, C, D
<1>7. (A \o B) \o C \in Seq(D)
  BY <1>3, <1>4, <1>5, ConcatProperties
<1> QED
  BY <1>6, <1>7, ToExpandIs DEF D

-------------------------------------------------------------------------------
(* The invariant.                                                            *)

LEMMA InitIInv == ASSUME Init PROVE IInv
<1>1. /\ phase = "idle" /\ status = 0 /\ todo = << >> /\ scans = << >>
  BY DEF Init
<1>2. scans \in Seq(Standing)
  BY <1>1, EmptySeq
<1>3. ToExpand(case, todo)
  BY <1>1, EmptySeq DEF ToExpand
<1> QED
  BY <1>1, <1>2, <1>3 DEF IInv, Codes

\* A scan of the first of the words to expand.
LEMMA FirstScan ==
    ASSUME NEW c, NEW ps, ToExpand(c, ps), ps # << >>
    PROVE  /\ <<NewScan(WordOf(c, Head(ps)).text)>> \in Seq(Standing)
           /\ <<NewScan(WordOf(c, Head(ps)).text)>> # << >>
<1> DEFINE w == WordOf(c, Head(ps)).text
<1>1. w \in Text
  <2>1. ps \in Seq(Stations) /\ \A n \in 1..Len(ps) : WordOf(c, ps[n]).text \in Text
    BY DEF ToExpand
  <2>2. Head(ps) = ps[1] /\ 1 \in 1..Len(ps)
    BY <2>1
  <2> QED
    BY <2>1, <2>2
<1>2. NewScan(w) \in Standing
  BY <1>1, NewScanIs
<1> QED
  BY <1>2

LEMMA WordTakenKeeps ==
    ASSUME IInv, WordTaken
    PROVE  IInv' /\ (phase' # "expanding" \/ Len(todo') < Len(todo))
<1>1. /\ todo' = Tail(todo) /\ case' = case /\ status' = status
      /\ phase' = IF todo' = <<>> THEN "ready" ELSE "expanding"
      /\ scans' = IF todo' = <<>> THEN <<>> ELSE <<NewScan(WordOf(case, Head(todo')).text)>>
  BY DEF WordTaken, NextWord
<1>2. case \in Cases /\ ToExpand(case, todo) /\ todo # << >> /\ status \in Codes
  BY DEF WordTaken, IInv
<1>3. ToExpand(case, todo') /\ Len(todo') < Len(todo)
  <2>1. todo \in Seq(Places(case))
    BY <1>2, ToExpandIs
  <2> HIDE DEF Places
  <2>2. todo' \in Seq(Places(case)) /\ Len(todo') < Len(todo)
    BY <1>1, <1>2, <2>1
  <2> QED
    BY <2>2, ToExpandIs
<1>4. scans' \in Seq(Standing) /\ (todo' # << >> => scans' # << >>)
  <2>1. CASE todo' = << >>
    BY <1>1, <2>1, EmptySeq
  <2>2. CASE todo' # << >>
    BY <1>1, <1>3, <2>2, FirstScan
  <2> QED
    BY <2>1, <2>2
<1>5. /\ phase' \in {"ready", "expanding"} /\ (phase' = "expanding" => todo' # << >>)
      /\ case' \in Cases /\ status' \in Codes /\ ToExpand(case', todo')
  BY <1>1, <1>2, <1>3
<1> QED
  BY <1>3, <1>4, <1>5 DEF IInv

LEMMA TurnTakenKeeps ==
    ASSUME IInv, TurnTaken
    PROVE  IInv' /\ Left' < Left
<1>1. /\ phase = "expanding" /\ phase' = phase /\ case' = case /\ todo' = todo
      /\ status' \in Codes /\ Moved(scans, scans')
  BY DEF TurnTaken
<1>2. /\ scans \in Seq(Standing) /\ scans # << >> /\ todo # << >> /\ case \in Cases
      /\ ToExpand(case, todo)
  BY <1>1 DEF IInv
<1>3. scans' \in Seq(Standing) /\ scans' # << >>
  BY <1>1, <1>2 DEF Moved
<1>4. ToExpand(case', todo')
  BY <1>1, <1>2
<1>5. IInv'
  BY <1>1, <1>2, <1>3, <1>4 DEF IInv
<1>6. Lefts(scans')[Len(scans')] < Lefts(scans)[Len(scans)]
  BY <1>1, <1>2, MovedLeft
<1> QED
  BY <1>5, <1>6, LeftIs

LEMMA NestedKeeps ==
    ASSUME IInv, Nested
    PROVE  IInv' /\ (Left' < Left \/ (Left' = Left /\ Len(scans') < Len(scans)))
<1>1. /\ phase = "expanding" /\ phase' = phase /\ case' = case /\ todo' = todo
      /\ status' \in Codes /\ scans' \in Seq(Standing) /\ scans' # << >>
  BY DEF Nested
<1>2. todo # << >> /\ case \in Cases /\ ToExpand(case, todo)
  BY <1>1 DEF IInv
<1>3. ToExpand(case', todo')
  BY <1>1, <1>2
<1>4. IInv'
  BY <1>1, <1>2, <1>3 DEF IInv
<1> QED
  BY <1>4, LeftIs DEF Nested

LEMMA StoppedKeeps ==
    ASSUME IInv, Stopped
    PROVE  IInv' /\ phase' # "expanding"
<1>1. /\ phase = "expanding" /\ phase' \in {"ready", "failed", "dead"}
      /\ case' = case /\ todo' = todo /\ scans' = scans /\ status' \in Codes
  BY DEF Stopped
<1>2. case \in Cases /\ ToExpand(case, todo) /\ scans \in Seq(Standing)
  BY <1>1 DEF IInv
<1>3. ToExpand(case', todo')
  BY <1>1, <1>2
<1> QED
  BY <1>1, <1>2, <1>3 DEF IInv

LEMMA BeginKeeps == ASSUME IInv, Begin PROVE IInv'
<1>1. /\ case' \in Cases /\ todo' = Parts(case') /\ status' = status
      /\ scans' = IF todo' = <<>> THEN <<>> ELSE <<NewScan(WordOf(case', Head(todo')).text)>>
      /\ phase' = IF todo' = <<>> THEN "ready" ELSE "expanding"
  BY DEF Begin
<1>2. ToExpand(case', todo')
  BY <1>1, PartsTyped
<1>3. scans' \in Seq(Standing) /\ (todo' # << >> => scans' # << >>)
  <2>1. CASE todo' = << >>
    BY <1>1, <2>1, EmptySeq
  <2>2. CASE todo' # << >>
    BY <1>1, <1>2, <2>2, FirstScan
  <2> QED
    BY <2>1, <2>2
<1>4. phase' \in {"ready", "expanding"} /\ (phase' = "expanding" => todo' # << >>)
  BY <1>1
<1> QED
  BY <1>1, <1>2, <1>3, <1>4 DEF IInv

LEMMA OverKeeps == ASSUME IInv, Over PROVE IInv'
<1>1. phase' = "idle" /\ todo' = << >> /\ scans' = << >>
  BY DEF Over
<1>2. status' \in Codes
  <2>1. Statuses \cup {Interrupted} \subseteq Codes /\ 0 \in Codes
    BY WordsAssumption DEF Codes
  <2>2. phase = "ready" => status' \in Statuses \cup {Interrupted}
    BY DEF Over
  <2>3. phase = "failed" => status' = status
    BY DEF Over
  <2>4. phase = "dead" => status' = 0
    BY DEF Over
  <2>5. phase \in {"ready", "failed", "dead"} /\ status \in Codes
    BY DEF Over, IInv
  <2>6. phase = "ready" => status' \in Codes
    BY <2>1, <2>2
  <2>7. phase = "failed" => status' \in Codes
    BY <2>3, <2>5
  <2>8. phase = "dead" => status' \in Codes
    BY <2>1, <2>4
  <2> QED
    BY <2>5, <2>6, <2>7, <2>8
<1>3. scans' \in Seq(Standing)
  BY <1>1, EmptySeq
<1>4. ToExpand(case', todo')
  BY <1>1, EmptySeq DEF ToExpand
<1> QED
  BY <1>1, <1>2, <1>3, <1>4 DEF IInv

LEMMA Keeps == ASSUME IInv, [Next]_vars PROVE IInv'
<1>1. CASE Scan
  BY <1>1, ScanIs, TurnTakenKeeps, NestedKeeps, WordTakenKeeps, StoppedKeeps
<1>2. CASE UNCHANGED vars
  BY <1>2 DEF IInv, vars, command
<1> QED
  BY <1>1, <1>2, BeginKeeps, OverKeeps DEF Next

LEMMA Invariant == Spec => []IInv
<1>1. Init => IInv
  BY InitIInv
<1>2. IInv /\ [Next]_vars => IInv'
  BY Keeps
<1> QED
  BY <1>1, <1>2, PTL DEF Spec

\* The scan of every word stays in the word or at its end, and marks one byte
\* for each it emits: expand_word never reads past the end of a word.
THEOREM TypeCorrect == Spec => []TypeOK
<1>1. ASSUME IInv PROVE TypeOK
  <2>1. ASSUME NEW i \in DOMAIN scans
        PROVE  /\ scans[i].pos \in 1..(Len(scans[i].word) + 1)
               /\ scans[i].quote \in {"none", "single", "double"}
               /\ Marked(scans[i].buf)
    <3> DEFINE s == scans[i]
    <3>1. s \in Standing
      BY <1>1 DEF IInv
    <3> HIDE DEF s
    <3>2. /\ s.pos \in 1..(Len(s.word) + 1) /\ s.quote \in {"none", "single", "double"}
          /\ s.buf \in Seq(Pairs)
      BY <3>1, StandingIs
    <3>3. Marked(s.buf)
      <4>1. \A p \in Pairs : p[1] # End /\ p[2] \in BOOLEAN
        <5>1. \A c \in Char : c # End
          BY WordsAssumption
        <5> QED
          BY <5>1 DEF Pairs
      <4>2. \A n \in DOMAIN s.buf : s.buf[n] \in Pairs
        BY <3>2
      <4> QED
        BY <4>1, <4>2 DEF Marked
    <3> QED
      BY <3>2, <3>3 DEF s
  <2> QED
    BY <1>1, <2>1 DEF IInv, TypeOK, Codes
<1> QED
  BY <1>1, Invariant, PTL

\* The expansion of every command ends, whatever was typed: every step of the
\* scan leaves fewer words, fewer characters, or an expression less.
THEOREM AdvanceCorrect == Spec => EveryStepAdvances
<1> DEFINE Advances == phase = "expanding" =>
                          \/ phase' # "expanding"
                          \/ Len(todo') < Len(todo)
                          \/ Left' < Left
                          \/ Left' = Left /\ Len(scans') < Len(scans)
<1>1. ASSUME IInv, Next PROVE Advances
  <2>1. SUFFICES ASSUME phase = "expanding" PROVE Advances
    OBVIOUS
  <2>2. Scan
    BY <1>1, <2>1 DEF Next, Begin, Over
  <2> QED
    BY <1>1, <2>2, ScanIs, TurnTakenKeeps, NestedKeeps, WordTakenKeeps, StoppedKeeps
<1>2. IInv /\ [Next]_vars => [Advances]_vars
  BY <1>1
<1>3. EveryStepAdvances <=> [][Advances]_vars
  BY DEF EveryStepAdvances
<1> HIDE DEF Advances
<1> QED
  BY <1>2, <1>3, Invariant, PTL DEF Spec

-------------------------------------------------------------------------------
(* Fields: the runs of bytes and of what separates them.                     *)

LEMMA KindsAre ==
    ASSUME NEW b
    PROVE  /\ Soft(b) => Splits(b) /\ ~Hard(b)
           /\ Hard(b) => Splits(b) /\ ~Soft(b)
           /\ Splits(b) => Soft(b) \/ Hard(b)
BY DEF Soft, Hard

\* The whitespace from i on ends at the first byte that is none.
LEMMA SkipIs ==
    ASSUME NEW buf, NEW n \in Nat, Len(buf) = n, NEW i \in 1..(n + 1)
    PROVE  /\ SkipIfsWs(buf, i) \in i..(n + 1)
           /\ SkipIfsWs(buf, i) > n \/ ~Soft(buf[SkipIfsWs(buf, i)])
           /\ \A k \in i..(SkipIfsWs(buf, i) - 1) : Soft(buf[k])
<1> DEFINE T == {j \in i..(n + 1) : j > n \/ ~Soft(buf[j])}
           P(j) == (j > n \/ ~Soft(buf[j])) /\ \A k \in i..(j - 1) : Soft(buf[k])
<1>1. PICK j \in T : \A k \in T : j <= k
  <2>1. n + 1 \in T /\ T \in SUBSET Nat
    OBVIOUS
  <2> HIDE DEF T
  <2> QED
    BY <2>1, LeastIndex
<1>2. j \in i..(n + 1) /\ P(j)
  <2>1. ASSUME NEW k \in i..(j - 1) PROVE Soft(buf[k])
    <3>1. k \in i..(n + 1) /\ ~(k > n) /\ ~(j <= k)
      BY <1>1
    <3>2. k \notin T
      BY <1>1, <3>1
    <3> QED
      BY <3>1, <3>2
  <2> QED
    BY <1>1, <2>1
<1> HIDE DEF P, T
<1>3. SkipIfsWs(buf, i) = CHOOSE x \in i..(n + 1) : P(x)
  BY DEF SkipIfsWs, Past, P
<1>4. SkipIfsWs(buf, i) \in i..(n + 1) /\ P(SkipIfsWs(buf, i))
  BY <1>2, <1>3
<1> QED
  BY <1>4 DEF P

\* Where the bytes from i on end.
ByteEnd(buf, i) ==
    LET Byte(b) == ~Splits(b)
    IN  Past(buf, i, Byte)

LEMMA ByteEndIs ==
    ASSUME NEW buf, NEW n \in Nat, Len(buf) = n, NEW i \in 1..(n + 1)
    PROVE  /\ ByteEnd(buf, i) \in i..(n + 1)
           /\ ByteEnd(buf, i) > n \/ Splits(buf[ByteEnd(buf, i)])
           /\ \A k \in i..(ByteEnd(buf, i) - 1) : ~Splits(buf[k])
<1> DEFINE T == {j \in i..(n + 1) : j > n \/ Splits(buf[j])}
           P(j) == (j > n \/ ~~Splits(buf[j])) /\ \A k \in i..(j - 1) : ~Splits(buf[k])
<1>1. PICK j \in T : \A k \in T : j <= k
  <2>1. n + 1 \in T /\ T \in SUBSET Nat
    OBVIOUS
  <2> HIDE DEF T
  <2> QED
    BY <2>1, LeastIndex
<1>2. j \in i..(n + 1) /\ P(j)
  <2>1. ASSUME NEW k \in i..(j - 1) PROVE ~Splits(buf[k])
    <3>1. k \in i..(n + 1) /\ ~(k > n) /\ ~(j <= k)
      BY <1>1
    <3>2. k \notin T
      BY <1>1, <3>1
    <3> QED
      BY <3>1, <3>2
  <2> QED
    BY <1>1, <2>1
<1> HIDE DEF P, T
<1>3. ByteEnd(buf, i) = CHOOSE x \in i..(n + 1) : P(x)
  BY DEF ByteEnd, Past, P
<1>4. ByteEnd(buf, i) \in i..(n + 1) /\ P(ByteEnd(buf, i))
  BY <1>2, <1>3
<1> QED
  BY <1>4 DEF P

\* The bytes of j..(m - 1) are whitespace but for one hard delimiter.
HardRun(buf, j, m) ==
    \E e \in j..(m - 1) : Hard(buf[e]) /\ \A k \in j..(m - 1) : k # e => Soft(buf[k])

\* They are whitespace, and something else or the end is after them.
SoftRun(buf, j, m) ==
    /\ \A k \in j..(m - 1) : Soft(buf[k])
    /\ m > Len(buf) \/ ~Splits(buf[m])

\* A delimiter is a run of whitespace, around one hard delimiter or none.
LEMMA ConsumeIs ==
    ASSUME NEW buf, NEW n \in Nat, Len(buf) = n, NEW j \in 1..n, Splits(buf[j])
    PROVE  LET m == ConsumeDelimiter(buf, j)
           IN  /\ m \in (j + 1)..(n + 1)
               /\ m > n \/ ~Soft(buf[m])
               /\ HardRun(buf, j, m) \/ SoftRun(buf, j, m)
<1> DEFINE m == ConsumeDelimiter(buf, j)
           e == SkipIfsWs(buf, j)
<1>1. /\ e \in j..(n + 1) /\ (e > n \/ ~Soft(buf[e]))
      /\ \A k \in j..(e - 1) : Soft(buf[k])
  <2>1. j \in 1..(n + 1)
    OBVIOUS
  <2> QED
    BY <2>1, SkipIs
<1>2. m = IF e <= n /\ Hard(buf[e]) THEN SkipIfsWs(buf, e + 1) ELSE e
  BY DEF ConsumeDelimiter
<1> HIDE DEF m, e
<1>3. CASE e <= n /\ Hard(buf[e])
  <2>1. e + 1 \in 1..(n + 1) /\ m = SkipIfsWs(buf, e + 1)
    BY <1>1, <1>2, <1>3
  <2>2. /\ m \in (e + 1)..(n + 1) /\ (m > n \/ ~Soft(buf[m]))
        /\ \A k \in (e + 1)..(m - 1) : Soft(buf[k])
    BY <2>1, SkipIs
  <2>3. e \in j..(m - 1) /\ m \in (j + 1)..(n + 1)
    BY <1>1, <1>3, <2>2
  <2>4. ASSUME NEW k \in j..(m - 1), k # e PROVE Soft(buf[k])
    <3>1. k \in j..(e - 1) \/ k \in (e + 1)..(m - 1)
      BY <1>1, <2>3, <2>4
    <3> QED
      BY <1>1, <2>2, <3>1
  <2>5. HardRun(buf, j, m)
    BY <1>3, <2>3, <2>4 DEF HardRun
  <2> QED
    BY <2>2, <2>3, <2>5 DEF m
<1>4. CASE ~(e <= n /\ Hard(buf[e]))
  <2>1. m = e
    BY <1>2, <1>4
  <2>2. e # j
    BY <1>1, <1>4, KindsAre
  <2>3. m \in (j + 1)..(n + 1)
    BY <1>1, <2>1, <2>2
  <2>4. e > n \/ ~Splits(buf[e])
    <3>1. CASE e > n
      BY <3>1
    <3>2. CASE ~(e > n)
      <4>1. e <= n
        BY <1>1, <3>2
      <4> QED
        BY <1>1, <1>4, <3>2, <4>1, KindsAre
    <3> QED
      BY <3>1, <3>2
  <2>5. SoftRun(buf, j, m)
    BY <1>1, <2>1, <2>4 DEF SoftRun
  <2> QED
    BY <1>1, <2>1, <2>3, <2>5 DEF m
<1> QED
  BY <1>3, <1>4

LEMMA SeparatorIs ==
    ASSUME NEW buf \in Seq(Pairs), NEW s \in 1..Len(buf)
    PROVE  s \in Separators(buf) <=>
             \/ Hard(buf[s])
             \/ /\ Soft(buf[s]) /\ s > 1 /\ ~Splits(buf[s - 1])
                /\ \E j \in s..Len(buf) : /\ \A k \in s..j : Soft(buf[k])
                                          /\ j < Len(buf) /\ ~Splits(buf[j + 1])
<1>1. s \in DOMAIN buf
  OBVIOUS
<1> QED
  BY <1>1 DEF Separators

\* One thing separates in a run around a hard delimiter.
LEMMA HardRunSeparates ==
    ASSUME NEW buf \in Seq(Pairs), NEW j \in 1..Len(buf), NEW m \in (j + 1)..(Len(buf) + 1),
           HardRun(buf, j, m)
    PROVE  \E e \in j..(m - 1) : \A s \in j..(m - 1) : s \in Separators(buf) <=> s = e
<1> DEFINE n == Len(buf)
<1>1. n \in Nat
  OBVIOUS
<1> HIDE DEF n
<1>2. PICK e \in j..(m - 1) : /\ Hard(buf[e])
                              /\ \A k \in j..(m - 1) : k # e => Soft(buf[k])
  BY DEF HardRun
<1>3. e \in 1..n /\ j \in 1..n /\ m \in Int /\ j \in Int /\ e \in Int /\ m <= n + 1
  BY <1>1, <1>2 DEF n
<1>4. e \in Separators(buf)
  <2>1. e \in 1..Len(buf)
    BY <1>3 DEF n
  <2> QED
    BY <1>2, <2>1, SeparatorIs
<1>5. ASSUME NEW s \in j..(m - 1), s \in Separators(buf), s # e PROVE FALSE
  <2>1. s \in 1..n /\ s \in 1..Len(buf) /\ s \in Int
    BY <1>3 DEF n
  <2>2. Soft(buf[s]) /\ ~Hard(buf[s])
    BY <1>2, <1>5, KindsAre
  <2>3. s > 1 /\ ~Splits(buf[s - 1])
    BY <1>5, <2>1, <2>2, SeparatorIs
  <2>4. PICK t \in s..n : (\A k \in s..t : Soft(buf[k])) /\ t < n /\ ~Splits(buf[t + 1])
    BY <1>5, <2>1, <2>2, SeparatorIs DEF n
  <2>5. s = j
    <3>1. SUFFICES ASSUME s # j PROVE FALSE
      OBVIOUS
    <3>2. s - 1 \in j..(m - 1)
      BY <1>3, <2>1, <3>1
    <3> QED
      BY <1>2, <2>3, <3>2, KindsAre
  <2>6. j < e
    BY <1>3, <1>5, <2>5
  <2>7. ~(e <= t)
    <3>1. e <= t => e \in s..t
      BY <1>3, <2>1, <2>5, <2>6
    <3> QED
      BY <1>2, <2>4, <3>1, KindsAre
  <2>8. t + 1 \in j..(m - 1)
    BY <1>3, <2>1, <2>4, <2>5, <2>7
  <2> QED
    BY <1>2, <2>4, <2>8, KindsAre
<1> QED
  BY <1>2, <1>4, <1>5

\* One does in a run of whitespace between two bytes.
LEMMA SoftRunSeparates ==
    ASSUME NEW buf \in Seq(Pairs), NEW j \in 1..Len(buf), NEW m \in (j + 1)..Len(buf),
           SoftRun(buf, j, m), j > 1, ~Splits(buf[j - 1])
    PROVE  \A s \in j..(m - 1) : s \in Separators(buf) <=> s = j
<1> DEFINE n == Len(buf)
<1>1. n \in Nat /\ j \in 1..n /\ m \in (j + 1)..n /\ j \in Int /\ m \in Int
  OBVIOUS
<1>2. (\A k \in j..(m - 1) : Soft(buf[k])) /\ ~Splits(buf[m])
  <2>1. ~(m > Len(buf))
    OBVIOUS
  <2> QED
    BY <2>1 DEF SoftRun
<1>3. j \in Separators(buf)
  <2>1. m - 1 \in j..Len(buf) /\ m - 1 < Len(buf) /\ (m - 1) + 1 = m /\ j \in j..(m - 1)
    OBVIOUS
  <2>2. \E t \in j..Len(buf) : /\ \A k \in j..t : Soft(buf[k])
                               /\ t < Len(buf) /\ ~Splits(buf[t + 1])
    BY <1>2, <2>1
  <2>3. Soft(buf[j])
    BY <1>2, <2>1
  <2> QED
    BY <2>2, <2>3, SeparatorIs
<1>4. ASSUME NEW s \in j..(m - 1), s \in Separators(buf) PROVE s = j
  <2>1. s \in 1..Len(buf) /\ (s # j => s - 1 \in j..(m - 1))
    BY <1>1
  <2>2. Soft(buf[s]) /\ ~Hard(buf[s])
    BY <1>2, KindsAre
  <2>3. ~Splits(buf[s - 1])
    BY <1>4, <2>1, <2>2, SeparatorIs
  <2> QED
    BY <1>2, <2>1, <2>3, KindsAre
<1> QED
  BY <1>3, <1>4

\* None does in a run of whitespace at an end.
LEMMA EndSeparatesNothing ==
    ASSUME NEW buf \in Seq(Pairs), NEW j \in Nat \ {0}, NEW m \in j..(Len(buf) + 1),
           \A k \in j..(m - 1) : Soft(buf[k]), j = 1 \/ m = Len(buf) + 1
    PROVE  \A s \in j..(m - 1) : s \notin Separators(buf)
<1> DEFINE n == Len(buf)
<1>1. n \in Nat /\ m \in j..(n + 1) /\ j \in Int /\ m \in Int
  OBVIOUS
<1>2. ASSUME NEW s \in j..(m - 1), s \in Separators(buf) PROVE FALSE
  <2>1. s \in 1..Len(buf) /\ s \in Int /\ s \in j..n
    BY <1>1
  <2>2. Soft(buf[s]) /\ ~Hard(buf[s])
    BY KindsAre
  <2>3. s > 1 /\ ~Splits(buf[s - 1])
    BY <1>2, <2>1, <2>2, SeparatorIs
  <2>4. PICK t \in s..n : t < n /\ ~Splits(buf[t + 1])
    BY <1>2, <2>1, <2>2, SeparatorIs
  <2>5. CASE j = 1
    <3>1. s - 1 \in j..(m - 1)
      BY <1>1, <2>1, <2>3, <2>5
    <3> QED
      BY <2>3, <3>1, KindsAre
  <2>6. CASE m = n + 1
    <3>1. t + 1 \in j..(m - 1)
      BY <1>1, <2>1, <2>4, <2>6
    <3> QED
      BY <2>4, <3>1, KindsAre
  <2> QED
    BY <2>5, <2>6
<1> QED
  BY <1>2

-------------------------------------------------------------------------------
(* Fields: how many separators are before a byte.                            *)

SepsBefore(buf, i) == {s \in Separators(buf) : s < i}
Count(buf, i)      == Cardinality(SepsBefore(buf, i))

LEMMA CountIs ==
    ASSUME NEW buf \in Seq(Pairs), NEW i \in 1..(Len(buf) + 1), NEW m \in i..(Len(buf) + 1)
    PROVE  /\ Count(buf, i) \in Nat /\ Count(buf, m) \in Nat /\ Count(buf, i) <= Count(buf, m)
           /\ (\A s \in i..(m - 1) : s \notin Separators(buf)) => Count(buf, m) = Count(buf, i)
           /\ \A e \in i..(m - 1) :
                 (\A s \in i..(m - 1) : s \in Separators(buf) <=> s = e)
                     => Count(buf, m) = Count(buf, i) + 1
<1> DEFINE S == Separators(buf)
           A == SepsBefore(buf, i)
           B == SepsBefore(buf, m)
<1>1. Len(buf) \in Nat /\ i \in Int /\ m \in Int /\ S \subseteq 1..Len(buf)
  <2>1. DOMAIN buf = 1..Len(buf)
    OBVIOUS
  <2> QED
    BY <2>1 DEF Separators
<1> HIDE DEF S
<1>2. /\ \A s : s \in A <=> s \in S /\ s < i
      /\ \A s : s \in B <=> s \in S /\ s < m
      /\ \A s \in S : s \in Int
  BY <1>1 DEF SepsBefore, S
<1>3. IsFiniteSet(A) /\ IsFiniteSet(B)
  <2>1. A \subseteq 1..Len(buf) /\ B \subseteq 1..Len(buf)
    BY <1>1, <1>2
  <2>2. IsFiniteSet(1..Len(buf))
    BY <1>1, FS_Interval
  <2> HIDE DEF A, B
  <2> QED
    BY <2>1, <2>2, FS_Subset
<1> HIDE DEF A, B
<1>4. A \subseteq B
  <2>1. \A s \in A : s \in S /\ s < i /\ s \in Int
    BY <1>2
  <2>2. i <= m
    BY <1>1
  <2>3. \A s \in A : s < m
    BY <1>1, <2>1, <2>2
  <2> QED
    BY <1>2, <2>1, <2>3
<1>5. Cardinality(A) \in Nat /\ Cardinality(B) \in Nat /\ Cardinality(A) <= Cardinality(B)
  BY <1>3, <1>4, FS_CardinalityType, FS_Subset
<1>6. ASSUME NEW s \in B, s \notin A PROVE s \in S /\ s \in i..(m - 1)
  <2>1. s \in S /\ s < m /\ ~(s < i) /\ s \in Int
    BY <1>2, <1>6
  <2> QED
    BY <1>1, <2>1
<1>7. ASSUME \A s \in i..(m - 1) : s \notin S PROVE A = B
  BY <1>4, <1>6, <1>7
<1>8. ASSUME NEW e \in i..(m - 1), \A s \in i..(m - 1) : s \in S <=> s = e
      PROVE  Cardinality(B) = Cardinality(A) + 1
  <2>1. e \in S /\ e < m /\ ~(e < i)
    BY <1>1, <1>8
  <2>2. e \in B /\ e \notin A
    BY <1>2, <2>1
  <2>3. B = A \cup {e}
    BY <1>4, <1>6, <1>8, <2>2
  <2> QED
    BY <1>3, <2>2, <2>3, FS_AddElement
<1> QED
  BY <1>5, <1>7, <1>8 DEF Count, S, A, B

-------------------------------------------------------------------------------
(* Fields: what field_split collects from a byte on.                         *)

FieldsFrom(buf) ==
    LET Byte(b) == ~Splits(b)
        from[i \in 1..(Len(buf) + 1)] ==
            IF i > Len(buf) THEN <<>>
            ELSE LET j    == Past(buf, i, Byte)
                     rest == IF j > Len(buf) THEN <<>> ELSE from[ConsumeDelimiter(buf, j)]
                 IN  <<Chars(SubSeq(buf, i, j - 1))>> \o rest
    IN  from

LEMMA CollectIs == ASSUME NEW buf PROVE CollectFields(buf) = FieldsFrom(buf)[SkipIfsWs(buf, 1)]
BY DEF CollectFields, FieldsFrom

Bytes1(buf, i) == Chars(SubSeq(buf, i, ByteEnd(buf, i) - 1))
Next1(buf, i)  == ConsumeDelimiter(buf, ByteEnd(buf, i))

FieldStep(buf, f, i) ==
    IF i > Len(buf) THEN <<>>
    ELSE <<Bytes1(buf, i)>> \o (IF ByteEnd(buf, i) > Len(buf) THEN <<>> ELSE f[Next1(buf, i)])

\* The field at i, and where the next one begins.
LEMMA FieldAt ==
    ASSUME NEW buf \in Seq(Pairs), NEW i \in 1..Len(buf)
    PROVE  /\ Bytes1(buf, i) \in Text /\ ByteEnd(buf, i) \in i..(Len(buf) + 1)
           /\ ~(ByteEnd(buf, i) > Len(buf)) =>
                 Next1(buf, i) \in 1..(Len(buf) + 1) /\ Next1(buf, i) > i
<1> DEFINE j == ByteEnd(buf, i)
<1>1. /\ Len(buf) \in Nat /\ i \in Int
      /\ j \in i..(Len(buf) + 1) /\ (j > Len(buf) \/ Splits(buf[j]))
  <2>1. Len(buf) \in Nat /\ i \in 1..(Len(buf) + 1) /\ i \in Int
    OBVIOUS
  <2> QED
    BY <2>1, ByteEndIs
<1> HIDE DEF j
<1>2. Chars(SubSeq(buf, i, j - 1)) \in Text
  <2>1. \A k \in i..(j - 1) : buf[k] \in Pairs
    BY <1>1
  <2>2. SubSeq(buf, i, j - 1) \in Seq(Pairs)
    BY <1>1, <2>1, SubSeqProperties
  <2> QED
    BY <2>2, CharsTyped DEF Pairs
<1>3. ASSUME ~(j > Len(buf))
      PROVE  ConsumeDelimiter(buf, j) \in 1..(Len(buf) + 1) /\ ConsumeDelimiter(buf, j) > i
  <2>1. j \in 1..Len(buf) /\ Splits(buf[j])
    BY <1>1, <1>3
  <2>2. ConsumeDelimiter(buf, j) \in (j + 1)..(Len(buf) + 1)
    BY <1>1, <2>1, ConsumeIs
  <2> QED
    BY <1>1, <2>1, <2>2
<1> QED
  BY <1>1, <1>2, <1>3 DEF Bytes1, Next1, j

LEMMA FieldsFromIs ==
    ASSUME NEW buf \in Seq(Pairs)
    PROVE  \A i \in 1..(Len(buf) + 1) :
              FieldsFrom(buf)[i] = FieldStep(buf, FieldsFrom(buf), i)
<1> DEFINE n       == Len(buf)
           D       == Seq(Text)
           Dom     == 1..(n + 1)
           Fs      == [Dom -> D]
           rank    == [i \in Dom |-> n + 1 - i]
           One(f, i) == FieldStep(buf, f, i)
           step    == [f \in Fs |-> [i \in Dom |-> One(f, i)]]
<1>1. n \in Nat /\ << >> \in D
  BY EmptySeq
<1>2. ASSUME NEW i \in 1..n
      PROVE  /\ Bytes1(buf, i) \in Text
             /\ ~(ByteEnd(buf, i) > n) => Next1(buf, i) \in Dom /\ Next1(buf, i) > i
  BY FieldAt
<1>3. ASSUME NEW f \in Fs, NEW i \in Dom PROVE One(f, i) \in D
  <2>1. CASE i > n
    <3>1. One(f, i) = << >>
      BY <2>1 DEF FieldStep
    <3> HIDE DEF D
    <3> QED
      BY <1>1, <3>1
  <2>2. CASE ~(i > n)
    <3> DEFINE rest == IF ByteEnd(buf, i) > n THEN << >> ELSE f[Next1(buf, i)]
    <3>1. i \in 1..n
      BY <1>1, <2>2
    <3>2. rest \in D
      <4> HIDE DEF D, Dom, n
      <4> QED
        BY <1>1, <1>2, <3>1
    <3>3. One(f, i) = <<Bytes1(buf, i)>> \o rest
      BY <2>2 DEF FieldStep
    <3> HIDE DEF rest
    <3>4. <<Bytes1(buf, i)>> \in Seq(Text)
      BY <1>2, <3>1
    <3>5. <<Bytes1(buf, i)>> \o rest \in Seq(Text)
      BY <3>2, <3>4, ConcatProperties
    <3> QED
      BY <3>3, <3>5
  <2> QED
    BY <2>1, <2>2
<1>4. ASSUME NEW f \in Fs, NEW g \in Fs, NEW i \in Dom,
             \A j \in Dom : rank[j] < rank[i] => f[j] = g[j]
      PROVE  One(f, i) = One(g, i)
  <2>1. CASE i > n
    BY <2>1 DEF FieldStep
  <2>2. CASE ~(i > n)
    <3>1. i \in 1..n
      BY <1>1, <2>2
    <3>2. ~(ByteEnd(buf, i) > n) => f[Next1(buf, i)] = g[Next1(buf, i)]
      <4>1. SUFFICES ASSUME ~(ByteEnd(buf, i) > n) PROVE f[Next1(buf, i)] = g[Next1(buf, i)]
        OBVIOUS
      <4>2. Next1(buf, i) \in Dom /\ Next1(buf, i) > i
        BY <1>2, <3>1, <4>1
      <4>3. rank[Next1(buf, i)] < rank[i]
        BY <1>1, <4>2
      <4> QED
        BY <1>4, <4>2, <4>3
    <3> QED
      BY <3>2 DEF FieldStep
  <2> QED
    BY <2>1, <2>2
<1>5. rank \in [Dom -> 0..n] /\ n \in Nat
  BY <1>1
<1> DEFINE d == [i \in Dom |-> << >>]
<1>6. d \in Fs
  <2> HIDE DEF D
  <2> QED
    BY <1>1
<1>7. step \in [Fs -> Fs]
  <2> HIDE DEF One
  <2> QED
    BY <1>3
<1>8. \A f \in Fs : FunctionOn(f, Dom)
  BY DEF FunctionOn
<1>9. Local(step, Fs, Dom, rank)
  <2>1. \A f \in Fs : \A i \in Dom : step[f][i] = One(f, i)
    <3> HIDE DEF One
    <3> QED
      OBVIOUS
  <2> HIDE DEF One, step, Fs, rank, Dom
  <2> QED
    BY <1>4, <2>1 DEF Local
<1>10. PICK f \in Fs : step[f] = f
  <2> HIDE DEF step, Fs, rank, Dom, d, n
  <2> QED
    BY <1>5, <1>6, <1>7, <1>8, <1>9, Ranked
<1>11. f = [i \in Dom |-> One(f, i)]
  <2> HIDE DEF One
  <2> QED
    BY <1>10
<1> DEFINE v == FieldsFrom(buf)
<1>12. v = [i \in Dom |-> One(v, i)]
  BY <1>11 DEF FieldsFrom, FieldStep, Bytes1, Next1, ByteEnd
<1> HIDE DEF v
<1>13. \A i \in Dom : v[i] = One(v, i)
  <2> HIDE DEF One
  <2> QED
    BY <1>12
<1> QED
  BY <1>13 DEF v

-------------------------------------------------------------------------------
(* Fields: those of the rules.                                               *)

BytesOf(buf) == {i \in DOMAIN buf : ~Splits(buf[i])}

FieldBytes(buf, n) == {i \in BytesOf(buf) : Count(buf, i) + 1 = n}

FieldOf(buf, n) == IF FieldBytes(buf, n) = {} THEN << >>
                   ELSE Chars(SubSeq(buf, Min(FieldBytes(buf, n)), Max(FieldBytes(buf, n))))

Number(buf) ==
    LET last == Cardinality(Separators(buf)) + 1
    IN  IF \E i \in BytesOf(buf) : Count(buf, i) + 1 = last THEN last ELSE last - 1

LEMMA RuleIs ==
    ASSUME NEW buf
    PROVE  FieldsByRule(buf) = IF case.ifs = <<>> THEN <<Chars(buf)>>
                               ELSE [n \in 1..Number(buf) |-> FieldOf(buf, n)]
BY DEF FieldsByRule, Number, FieldOf, FieldBytes, BytesOf, Count, SepsBefore

\* There are as many fields as separators, or one more.
LEMMA NumberIs ==
    ASSUME NEW buf \in Seq(Pairs)
    PROVE  LET total == Count(buf, Len(buf) + 1)
           IN  /\ total \in Nat
               /\ Number(buf) = IF \E b \in BytesOf(buf) : Count(buf, b) = total
                                THEN total + 1 ELSE total
<1> DEFINE n     == Len(buf)
           total == Count(buf, n + 1)
<1>1. n \in Nat /\ DOMAIN buf = 1..n
  OBVIOUS
<1>2. Separators(buf) = SepsBefore(buf, n + 1)
  <2>1. Separators(buf) \subseteq 1..n
    BY <1>1 DEF Separators
  <2>2. \A s \in 1..n : s < n + 1
    BY <1>1
  <2> QED
    BY <2>1, <2>2 DEF SepsBefore
<1>3. Cardinality(Separators(buf)) = total
  BY <1>2 DEF Count
<1>4. \A b \in 1..(n + 1) : Count(buf, b) \in Nat
  <2>1. \A b \in 1..(n + 1) : n + 1 \in b..(n + 1)
    BY <1>1
  <2> QED
    BY <2>1, CountIs
<1>5. n + 1 \in 1..(n + 1)
  BY <1>1
<1>6. total \in Nat
  <2> HIDE DEF n
  <2> QED
    BY <1>4, <1>5
<1>7. \A b \in BytesOf(buf) : Count(buf, b) \in Nat
  <2>1. \A b \in BytesOf(buf) : b \in 1..(n + 1)
    BY <1>1 DEF BytesOf
  <2> QED
    BY <1>4, <2>1
<1> HIDE DEF total, n
<1>8. (\E b \in BytesOf(buf) : Count(buf, b) + 1 = total + 1)
         <=> (\E b \in BytesOf(buf) : Count(buf, b) = total)
  BY <1>6, <1>7
<1>9. Number(buf) = IF \E b \in BytesOf(buf) : Count(buf, b) + 1 = total + 1
                    THEN total + 1 ELSE (total + 1) - 1
  BY <1>3 DEF Number
<1> QED
  BY <1>6, <1>8, <1>9 DEF total, n

LEMMA BytesSeparateNothing ==
    ASSUME NEW buf \in Seq(Pairs), NEW k \in 1..Len(buf), ~Splits(buf[k])
    PROVE  k \notin Separators(buf)
BY SeparatorIs, KindsAre

\* A field may begin at i: it is behind what separates it from the bytes before.
Start(buf, i) ==
    /\ i \in 1..(Len(buf) + 1)
    /\ i > Len(buf) \/ ~Soft(buf[i])
    /\ \A b \in BytesOf(buf) : b < i => Count(buf, b) < Count(buf, i)

\* The bytes from there on are a field.
LEMMA FieldIs ==
    ASSUME NEW buf \in Seq(Pairs), NEW i \in 1..Len(buf), Start(buf, i),
           \A b \in BytesOf(buf) : b >= ByteEnd(buf, i) => Count(buf, b) > Count(buf, i)
    PROVE  FieldOf(buf, Count(buf, i) + 1) = Bytes1(buf, i)
<1> DEFINE n  == Len(buf)
           j  == ByteEnd(buf, i)
           of == FieldBytes(buf, Count(buf, i) + 1)
<1>1. n \in Nat /\ DOMAIN buf = 1..n /\ i \in Int /\ i \in 1..n /\ i \in 1..(n + 1)
  OBVIOUS
<1>2. j \in i..(n + 1) /\ j \in Int /\ \A k \in i..(j - 1) : ~Splits(buf[k])
  <2>1. j \in i..(n + 1) /\ \A k \in i..(j - 1) : ~Splits(buf[k])
    BY <1>1, ByteEndIs
  <2> HIDE DEF j
  <2> QED
    BY <1>1, <2>1
<1>3. \A b \in BytesOf(buf) : b \in 1..n /\ b \in Int /\ ~(b >= j /\ Count(buf, b) = Count(buf, i))
  <2>1. \A b \in BytesOf(buf) : b \in 1..n /\ b \in 1..(n + 1) /\ b \in Int
    BY <1>1 DEF BytesOf
  <2>2. \A b \in 1..(n + 1) : Count(buf, b) \in Nat
    <3>1. \A b \in 1..(n + 1) : n + 1 \in b..(n + 1)
      BY <1>1
    <3> QED
      BY <3>1, CountIs
  <2> HIDE DEF n
  <2> QED
    BY <1>1, <2>1, <2>2
<1> HIDE DEF j, n
<1>4. ASSUME NEW b \in of PROVE b \in i..(j - 1)
  <2>1. b \in BytesOf(buf) /\ Count(buf, b) + 1 = Count(buf, i) + 1
    BY <1>4 DEF FieldBytes
  <2>2. Count(buf, b) = Count(buf, i) /\ ~(Count(buf, b) < Count(buf, i))
    <3>1. b \in 1..(Len(buf) + 1) /\ i \in 1..(Len(buf) + 1) /\ Len(buf) + 1 \in b..(Len(buf) + 1)
          /\ Len(buf) + 1 \in i..(Len(buf) + 1)
      BY <1>1, <1>3, <2>1 DEF n
    <3>2. Count(buf, b) \in Nat /\ Count(buf, i) \in Nat
      BY <3>1, CountIs
    <3> QED
      BY <2>1, <3>2
  <2>3. ~(b < i)
    BY <2>1, <2>2 DEF Start
  <2>4. ~(b >= j)
    BY <1>3, <2>1, <2>2
  <2> QED
    BY <1>1, <1>2, <1>3, <2>1, <2>3, <2>4
<1>5. ASSUME NEW b \in i..(j - 1) PROVE b \in of
  <2>1. b \in 1..n /\ b \in BytesOf(buf)
    BY <1>1, <1>2 DEF BytesOf
  <2>2. \A s \in i..(b - 1) : s \notin Separators(buf)
    <3>1. \A s \in i..(b - 1) : s \in 1..Len(buf) /\ ~Splits(buf[s])
      BY <1>1, <1>2, <2>1 DEF n
    <3> QED
      BY <3>1, BytesSeparateNothing
  <2>3. Count(buf, b) = Count(buf, i)
    <3>1. i \in 1..(Len(buf) + 1) /\ b \in i..(Len(buf) + 1)
      BY <1>1, <1>2, <2>1 DEF n
    <3> QED
      BY <2>2, <3>1, CountIs
  <2> QED
    BY <2>1, <2>3 DEF FieldBytes
<1>6. FieldOf(buf, Count(buf, i) + 1)
        = IF of = {} THEN << >> ELSE Chars(SubSeq(buf, Min(of), Max(of)))
  BY DEF FieldOf
<1> HIDE DEF of
<1>7. CASE j = i
  <2>1. of = {}
    <3>1. \A b : ~(b \in i..(j - 1))
      BY <1>1, <1>7
    <3> QED
      BY <1>4, <3>1
  <2>2. SubSeq(buf, i, i - 1) = << >>
    <3>1. /\ \A k \in i..(i - 1) : buf[k] \in Pairs
          /\ i \in Int /\ i - 1 \in Int /\ i <= (i - 1) + 1
      BY <1>1
    <3>2. SubSeq(buf, i, i - 1) \in Seq(Pairs) /\ Len(SubSeq(buf, i, i - 1)) = ((i - 1) - i) + 1
      BY <3>1, SubSeqProperties
    <3> QED
      BY <1>1, <3>2
  <2>3. Chars(<< >>) = << >>
    BY DEF Chars
  <2>4. Bytes1(buf, i) = Chars(SubSeq(buf, i, i - 1))
    BY <1>7 DEF Bytes1, j
  <2> QED
    BY <1>6, <2>1, <2>2, <2>3, <2>4
<1>8. CASE j # i
  <2>1. i \in i..(j - 1) /\ j - 1 \in i..(j - 1)
    BY <1>1, <1>2, <1>8
  <2>2. i \in of /\ j - 1 \in of
    BY <1>5, <2>1
  <2>3. Min(of) = i
    <3>1. of \in SUBSET Nat
      <4>1. \A b \in i..(j - 1) : b \in Nat
        BY <1>1
      <4> QED
        BY <1>4, <4>1
    <3>2. Min(of) \in of /\ Min(of) <= i
      BY <2>2, <3>1, MinIs
    <3>3. Min(of) \in i..(j - 1)
      BY <1>4, <3>2
    <3> QED
      BY <1>1, <3>2, <3>3
  <2>4. Max(of) = j - 1
    <3>1. of \in SUBSET (0..(n + 1)) /\ n + 1 \in Nat
      <4>1. \A b \in i..(j - 1) : b \in 0..(n + 1)
        BY <1>1, <1>2
      <4> QED
        BY <1>1, <1>4, <4>1
    <3>2. Max(of) \in of /\ Max(of) >= j - 1
      BY <2>2, <3>1, MaxIs
    <3>3. Max(of) \in i..(j - 1)
      BY <1>4, <3>2
    <3> QED
      BY <1>1, <1>2, <3>2, <3>3
  <2> QED
    BY <1>6, <2>2, <2>3, <2>4 DEF Bytes1, j
<1> QED
  BY <1>7, <1>8

\* From a field one comes to the next, behind one more separator, or to the end.
LEMMA FieldEnds ==
    ASSUME NEW buf \in Seq(Pairs), NEW i \in 1..Len(buf), Start(buf, i)
    PROVE  LET c == Count(buf, i)
               m == Next1(buf, i)
           IN  /\ FieldOf(buf, c + 1) = Bytes1(buf, i)
               /\ ByteEnd(buf, i) > Len(buf) => Number(buf) = c + 1
               /\ ~(ByteEnd(buf, i) > Len(buf)) =>
                     \/ m > i /\ Start(buf, m) /\ Count(buf, m) = c + 1
                     \/ m = Len(buf) + 1 /\ Number(buf) = c + 1
<1> DEFINE n == Len(buf)
           c == Count(buf, i)
           j == ByteEnd(buf, i)
           m == Next1(buf, i)
<1>1. n \in Nat /\ DOMAIN buf = 1..n /\ i \in Int /\ i \in 1..n /\ i \in 1..(n + 1)
  OBVIOUS
<1>2. j \in i..(n + 1) /\ (j > n \/ Splits(buf[j])) /\ \A k \in i..(j - 1) : ~Splits(buf[k])
  BY <1>1, ByteEndIs
<1> HIDE DEF j, m
<1>3. j \in Int /\ j \in 1..(n + 1) /\ n + 1 \in i..(n + 1)
  BY <1>1, <1>2
<1>4. \A b \in BytesOf(buf) : b \in 1..n /\ b \in 1..(n + 1) /\ b \in Int /\ ~Splits(buf[b])
  BY <1>1 DEF BytesOf
<1>5. \A b \in 1..(n + 1) : Count(buf, b) \in Nat
  <2>1. \A b \in 1..(n + 1) : n + 1 \in b..(n + 1)
    BY <1>1
  <2> QED
    BY <2>1, CountIs
<1>6. c \in Nat
  BY <1>1, <1>5
<1>7. Count(buf, j) = c
  <2>1. \A s \in i..(j - 1) : s \in 1..Len(buf) /\ ~Splits(buf[s])
    BY <1>1, <1>2
  <2>2. \A s \in i..(j - 1) : s \notin Separators(buf)
    BY <2>1, BytesSeparateNothing
  <2>3. i \in 1..(Len(buf) + 1) /\ j \in i..(Len(buf) + 1)
    BY <1>1, <1>2
  <2> QED
    BY <2>2, <2>3, CountIs
<1>8. ASSUME \A b \in BytesOf(buf) : ~(b >= j), i < j, Count(buf, n + 1) = c
      PROVE  Number(buf) = c + 1 /\ FieldOf(buf, c + 1) = Bytes1(buf, i)
  <2>1. FieldOf(buf, c + 1) = Bytes1(buf, i)
    <3>1. \A b \in BytesOf(buf) : b >= ByteEnd(buf, i) => Count(buf, b) > Count(buf, i)
      BY <1>8 DEF j
    <3> QED
      BY <3>1, FieldIs
  <2>2. i \in BytesOf(buf)
    <3>1. i \in i..(j - 1)
      BY <1>1, <1>3, <1>8
    <3> QED
      BY <1>1, <1>2, <3>1 DEF BytesOf
  <2>3. \E b \in BytesOf(buf) : Count(buf, b) = Count(buf, Len(buf) + 1)
    BY <1>8, <2>2
  <2>4. Number(buf) = Count(buf, Len(buf) + 1) + 1
    BY <2>3, NumberIs
  <2> QED
    BY <1>8, <2>1, <2>4
<1>9. CASE j > n
  <2>1. j = n + 1
    BY <1>1, <1>3, <1>9
  <2>2. (\A b \in BytesOf(buf) : ~(b >= j)) /\ i < j
    BY <1>1, <1>4, <2>1
  <2> QED
    BY <1>7, <1>8, <1>9, <2>1, <2>2 DEF j
<1>10. CASE ~(j > n)
  <2>1. j \in 1..n /\ Splits(buf[j]) /\ m = ConsumeDelimiter(buf, j)
    BY <1>1, <1>2, <1>3, <1>10 DEF j, m, Next1
  <2>2. /\ m \in (j + 1)..(n + 1) /\ (m > n \/ ~Soft(buf[m]))
        /\ HardRun(buf, j, m) \/ SoftRun(buf, j, m)
    BY <1>1, <2>1, ConsumeIs
  <2>3. m \in Int /\ m > i /\ m \in 1..(n + 1) /\ m \in j..(n + 1) /\ m > j
    BY <1>1, <1>2, <2>1, <2>2
  <2>4. \A k \in j..(m - 1) : Splits(buf[k])
    <3>1. CASE HardRun(buf, j, m)
      <4>1. \A k \in j..(m - 1) : Hard(buf[k]) \/ Soft(buf[k])
        BY <3>1 DEF HardRun
      <4> QED
        BY <4>1, KindsAre
    <3>2. CASE SoftRun(buf, j, m)
      <4>1. \A k \in j..(m - 1) : Soft(buf[k])
        BY <3>2 DEF SoftRun
      <4> QED
        BY <4>1, KindsAre
    <3> QED
      BY <2>2, <3>1, <3>2
  <2>5. \A b \in BytesOf(buf) : b >= j => b >= m
    <3>1. ASSUME NEW b \in BytesOf(buf), b >= j, ~(b >= m) PROVE FALSE
      <4>1. b \in j..(m - 1)
        BY <1>3, <1>4, <2>3, <3>1
      <4> QED
        BY <1>4, <2>4, <4>1
    <3> QED
      BY <3>1
  <2>6. ASSUME Count(buf, m) = c + 1
        PROVE  Start(buf, m) /\ FieldOf(buf, c + 1) = Bytes1(buf, i)
    <3>1. \A b \in BytesOf(buf) : b >= j => Count(buf, b) > c
      <4>1. ASSUME NEW b \in BytesOf(buf), b >= j PROVE Count(buf, b) > c
        <5>1. b \in m..(Len(buf) + 1) /\ m \in 1..(Len(buf) + 1) /\ b \in 1..(n + 1)
          BY <1>4, <2>3, <2>5, <4>1
        <5>2. Count(buf, m) <= Count(buf, b)
          BY <5>1, CountIs
        <5> QED
          BY <1>5, <1>6, <2>6, <5>1, <5>2
      <4> QED
        BY <4>1
    <3>2. FieldOf(buf, c + 1) = Bytes1(buf, i)
      BY <3>1, FieldIs DEF j
    <3>3. \A b \in BytesOf(buf) : b < m => Count(buf, b) < Count(buf, m)
      <4>1. ASSUME NEW b \in BytesOf(buf), b < m PROVE Count(buf, b) < Count(buf, m)
        <5>1. ~(b >= m) /\ b < j
          BY <1>3, <1>4, <2>3, <2>5, <4>1
        <5>2. b \in 1..(Len(buf) + 1) /\ j \in b..(Len(buf) + 1)
          BY <1>3, <1>4, <5>1
        <5>3. Count(buf, b) <= Count(buf, j)
          BY <5>2, CountIs
        <5> QED
          BY <1>5, <1>6, <1>7, <2>6, <5>2, <5>3
      <4> QED
        BY <4>1
    <3> QED
      BY <2>2, <2>3, <3>2, <3>3 DEF Start
  <2>7. CASE \E e \in j..(m - 1) : \A s \in j..(m - 1) : s \in Separators(buf) <=> s = e
    <3>1. j \in 1..(Len(buf) + 1) /\ m \in j..(Len(buf) + 1)
      BY <1>3, <2>3
    <3>2. Count(buf, m) = Count(buf, j) + 1
      BY <2>7, <3>1, CountIs
    <3> QED
      BY <1>7, <1>10, <2>3, <2>6, <3>2 DEF j, m
  <2>8. CASE HardRun(buf, j, m)
    BY <2>1, <2>2, <2>7, <2>8, HardRunSeparates
  <2>9. CASE SoftRun(buf, j, m)
    <3>1. \A k \in j..(m - 1) : Soft(buf[k])
      BY <2>9 DEF SoftRun
    <3>2. i < j
      <4>1. j \in j..(m - 1)
        BY <1>3, <2>3
      <4>2. Soft(buf[j])
        BY <3>1, <4>1
      <4>3. ~Soft(buf[i])
        BY <1>1 DEF Start
      <4>4. i # j
        BY <4>2, <4>3
      <4> QED
        BY <1>1, <1>2, <1>3, <4>4
    <3>3. CASE m <= n
      <4>1. m \in (j + 1)..Len(buf) /\ j \in 1..Len(buf) /\ j > 1
        BY <1>1, <1>3, <2>1, <2>2, <3>2, <3>3
      <4>2. ~Splits(buf[j - 1])
        <5>1. j - 1 \in i..(j - 1)
          BY <1>1, <1>3, <3>2
        <5> QED
          BY <1>2, <5>1
      <4>3. \A s \in j..(m - 1) : s \in Separators(buf) <=> s = j
        BY <2>9, <4>1, <4>2, SoftRunSeparates
      <4>4. j \in j..(m - 1)
        BY <1>3, <2>3
      <4> QED
        BY <2>7, <4>3, <4>4
    <3>4. CASE m = n + 1
      <4>1. j \in Nat \ {0} /\ m \in j..(Len(buf) + 1) /\ j \in 1..(Len(buf) + 1)
        BY <1>3, <2>3
      <4>2. \A s \in j..(m - 1) : s \notin Separators(buf)
        BY <3>1, <3>4, <4>1, EndSeparatesNothing
      <4>3. Count(buf, m) = Count(buf, j)
        BY <4>1, <4>2, CountIs
      <4>4. \A b \in BytesOf(buf) : ~(b >= j)
        BY <1>1, <1>4, <2>5, <3>4
      <4> QED
        BY <1>7, <1>8, <1>10, <3>2, <3>4, <4>3, <4>4 DEF j, m
    <3> QED
      BY <1>1, <2>3, <3>3, <3>4
  <2> QED
    BY <2>2, <2>8, <2>9
<1> QED
  BY <1>9, <1>10

LEMMA Prepend ==
    ASSUME NEW D, NEW k \in Nat, NEW g \in [1..(k + 1) -> D]
    PROVE  <<g[1]>> \o [x \in 1..k |-> g[x + 1]] = g
<1> DEFINE t == [x \in 1..k |-> g[x + 1]]
<1>1. g[1] \in D /\ \A x \in 1..k : x + 1 \in 1..(k + 1) /\ g[x + 1] \in D
  OBVIOUS
<1>2. t \in Seq(D) /\ Len(t) = k /\ \A x \in 1..k : t[x] = g[x + 1]
  BY <1>1
<1>3. <<g[1]>> \in Seq(D) /\ Len(<<g[1]>>) = 1 /\ <<g[1]>>[1] = g[1]
  BY <1>1
<1> HIDE DEF t
<1> DEFINE u == <<g[1]>>
           h == u \o t
<1>4. u \in Seq(D) /\ Len(u) = 1 /\ u[1] = g[1]
  BY <1>3
<1> HIDE DEF u
<1>5. h \in Seq(D) /\ Len(h) = k + 1
      /\ \A x \in 1..(k + 1) : h[x] = IF x <= 1 THEN u[x] ELSE t[x - 1]
  <2>1. h \in Seq(D) /\ Len(h) = Len(u) + Len(t)
        /\ \A x \in 1..(Len(u) + Len(t)) : h[x] = IF x <= Len(u) THEN u[x] ELSE t[x - Len(u)]
    <3>1. \A s1 \in Seq(D) : \A s2 \in Seq(D) :
             /\ s1 \o s2 \in Seq(D) /\ Len(s1 \o s2) = Len(s1) + Len(s2)
             /\ \A x \in 1..(Len(s1) + Len(s2)) :
                   (s1 \o s2)[x] = IF x <= Len(s1) THEN s1[x] ELSE s2[x - Len(s1)]
      BY Zenon, ConcatProperties
    <3> QED
      BY Zenon, <1>2, <1>4, <3>1
  <2>2. Len(u) + Len(t) = k + 1
    BY <1>2, <1>4
  <2> HIDE DEF h
  <2> QED
    BY <1>4, <2>1, <2>2
<1> HIDE DEF h
<1>6. \A x \in 1..(k + 1) : h[x] = g[x]
  <2>1. ASSUME NEW x \in 1..(k + 1) PROVE h[x] = g[x]
    <3>1. CASE x = 1
      BY <1>4, <1>5, <3>1
    <3>2. CASE x # 1
      <4>1. x - 1 \in 1..k /\ ~(x <= 1) /\ (x - 1) + 1 = x
        BY <3>2
      <4> QED
        BY <1>2, <1>5, <4>1
    <3> QED
      BY <3>1, <3>2
  <2> QED
    BY <2>1
<1>7. DOMAIN h = 1..(k + 1) /\ h = [x \in DOMAIN h |-> h[x]]
  BY <1>5
<1>8. h = g
  BY <1>6, <1>7
<1> QED
  BY <1>8 DEF h, u, t

\* From where a field may begin on, the fields are the rest of those of the rules.
LEMMA CollectsRest ==
    ASSUME NEW buf \in Seq(Pairs), NEW i, Start(buf, i)
    PROVE  FieldsFrom(buf)[i]
             = [k \in 1..(Number(buf) - Count(buf, i)) |-> FieldOf(buf, Count(buf, i) + k)]
<1> DEFINE n       == Len(buf)
           Dom     == 1..(n + 1)
           rank    == [x \in Dom |-> n + 1 - x]
           v       == FieldsFrom(buf)
           Rest(x) == [k \in 1..(Number(buf) - Count(buf, x)) |-> FieldOf(buf, Count(buf, x) + k)]
           S       == {x \in Dom : Start(buf, x) => v[x] = Rest(x)}
<1>1. n \in Nat /\ n + 1 \in Dom /\ rank \in [Dom -> 0..n]
  OBVIOUS
<1>2. \A x \in Dom : v[x] = FieldStep(buf, v, x)
  BY FieldsFromIs
<1> HIDE DEF v
<1>3. \A b \in Dom : Count(buf, b) \in Nat /\ Count(buf, b) <= Count(buf, n + 1)
  <2>1. \A b \in Dom : n + 1 \in b..(n + 1)
    BY <1>1
  <2> QED
    BY <2>1, CountIs
<1>4. /\ Count(buf, n + 1) \in Nat
      /\ Number(buf) = IF \E b \in BytesOf(buf) : Count(buf, b) = Count(buf, n + 1)
                       THEN Count(buf, n + 1) + 1 ELSE Count(buf, n + 1)
  BY NumberIs
<1>5. Number(buf) \in Nat /\ \A b \in Dom : Number(buf) - Count(buf, b) \in Nat
  BY <1>3, <1>4
<1>6. ASSUME Start(buf, n + 1) PROVE v[n + 1] = Rest(n + 1)
  <2>1. v[n + 1] = << >>
    <3>1. n + 1 > Len(buf)
      BY <1>1
    <3> QED
      BY <1>1, <1>2, <3>1 DEF FieldStep
  <2>2. \A b \in BytesOf(buf) : b < n + 1 /\ b \in Dom
    BY <1>1 DEF BytesOf
  <2>3. \A b \in BytesOf(buf) : Count(buf, b) < Count(buf, n + 1)
    BY <1>6, <2>2 DEF Start
  <2>4. Number(buf) = Count(buf, n + 1)
    <3>1. \A b \in BytesOf(buf) : Count(buf, b) # Count(buf, n + 1)
      BY <1>3, <1>4, <2>2, <2>3
    <3> QED
      BY <1>4, <3>1
  <2>5. Number(buf) - Count(buf, n + 1) = 0
    BY <1>4, <2>4
  <2>6. Rest(n + 1) = << >>
    BY <2>5
  <2> QED
    BY <2>1, <2>6
<1>7. ASSUME NEW x \in Dom, \A y \in Dom : rank[y] < rank[x] => y \in S PROVE x \in S
  <2>1. SUFFICES ASSUME Start(buf, x) PROVE v[x] = Rest(x)
    OBVIOUS
  <2>2. CASE x = n + 1
    BY <1>6, <2>1, <2>2
  <2>3. CASE x # n + 1
    <3> DEFINE c == Count(buf, x)
               j == ByteEnd(buf, x)
               m == Next1(buf, x)
    <3>1. x \in 1..Len(buf) /\ ~(x > Len(buf))
      BY <1>1, <2>3
    <3>2. /\ FieldOf(buf, c + 1) = Bytes1(buf, x)
          /\ j > Len(buf) => Number(buf) = c + 1
          /\ ~(j > Len(buf)) =>
                \/ m > x /\ Start(buf, m) /\ Count(buf, m) = c + 1
                \/ m = Len(buf) + 1 /\ Number(buf) = c + 1
      BY <2>1, <3>1, FieldEnds
    <3>3. v[x] = <<Bytes1(buf, x)>> \o (IF j > Len(buf) THEN <<>> ELSE v[m])
      BY <1>2, <3>1 DEF FieldStep
    <3> HIDE DEF j, m
    <3>4. c \in Nat /\ Number(buf) - c \in Nat
      BY <1>3, <1>5
    <3>5. ASSUME Number(buf) = c + 1, v[x] = <<Bytes1(buf, x)>> \o << >> PROVE v[x] = Rest(x)
      <4>1. Bytes1(buf, x) \in Text
        BY <3>1, FieldAt
      <4>2. v[x] = <<Bytes1(buf, x)>>
        <5>1. <<Bytes1(buf, x)>> \in Seq(Text)
          BY <4>1
        <5> QED
          BY <3>5, <5>1, ConcatEmptySeq
      <4>3. Number(buf) - c = 1
        BY <3>4, <3>5
      <4>4. Rest(x) = [k \in 1..1 |-> FieldOf(buf, c + k)]
        BY <4>3
      <4>5. [k \in 1..1 |-> FieldOf(buf, c + k)] = <<Bytes1(buf, x)>>
        <5>1. \A k \in 1..1 : k = 1
          OBVIOUS
        <5> HIDE DEF c
        <5>2. [k \in 1..1 |-> FieldOf(buf, c + k)] = [k \in 1..1 |-> Bytes1(buf, x)]
          BY <3>2, <5>1 DEF c
        <5> QED
          BY <5>2
      <4> QED
        BY <4>2, <4>4, <4>5
    <3>6. CASE j > Len(buf)
      BY <3>2, <3>3, <3>5, <3>6
    <3>7. CASE ~(j > Len(buf)) /\ m = Len(buf) + 1 /\ Number(buf) = c + 1
      <4>1. v[m] = << >>
        <5>1. m \in Dom /\ m > Len(buf)
          BY <1>1, <3>7
        <5> QED
          BY <1>2, <5>1 DEF FieldStep
      <4> QED
        BY <3>3, <3>5, <3>7, <4>1
    <3>8. CASE ~(j > Len(buf)) /\ m > x /\ Start(buf, m) /\ Count(buf, m) = c + 1
      <4> DEFINE F(k) == FieldOf(buf, c + k)
                 q    == Number(buf) - (c + 1)
                 D    == {F(k) : k \in 1..(q + 1)}
                 g    == [k \in 1..(q + 1) |-> F(k)]
      <4>1. m \in Dom
        BY <3>8 DEF Start
      <4>2. q \in Nat /\ Number(buf) - c = q + 1
        <5>1. Number(buf) - Count(buf, m) \in Nat
          BY <1>5, <4>1
        <5> QED
          BY <1>5, <3>4, <3>8, <5>1
      <4>3. v[m] = Rest(m)
        <5>1. rank[m] < rank[x]
          BY <1>1, <3>8, <4>1
        <5> QED
          BY <1>7, <3>8, <4>1, <5>1
      <4>4. Rest(m) = [k \in 1..q |-> FieldOf(buf, (c + 1) + k)]
        BY <3>8
      <4>5. Rest(x) = [k \in 1..(q + 1) |-> FieldOf(buf, c + k)]
        BY <4>2
      <4> HIDE DEF q, c
      <4>6. \A k \in 1..q : (c + 1) + k = c + (k + 1)
        BY <3>4, <4>2
      <4>7. [k \in 1..q |-> FieldOf(buf, (c + 1) + k)] = [k \in 1..q |-> g[k + 1]]
        <5>1. \A k \in 1..q : k + 1 \in 1..(q + 1)
          BY <4>2
        <5>2. \A k \in 1..q : g[k + 1] = FieldOf(buf, c + (k + 1))
          BY <5>1
        <5> HIDE DEF g
        <5> QED
          BY <4>6, <5>2
      <4>8. g[1] = Bytes1(buf, x)
        <5>1. 1 \in 1..(q + 1)
          BY <4>2
        <5> QED
          BY <3>2, <5>1
      <4>9. g \in [1..(q + 1) -> D]
        OBVIOUS
      <4>10. Rest(x) = g
        BY <4>5
      <4> HIDE DEF D, g, F, Rest
      <4>11. <<g[1]>> \o [k \in 1..q |-> g[k + 1]] = g
        BY <4>2, <4>9, Prepend
      <4> QED
        BY <3>3, <3>8, <4>3, <4>4, <4>7, <4>8, <4>10, <4>11
    <3> QED
      BY <3>2, <3>6, <3>7, <3>8
  <2> QED
    BY <2>2, <2>3
<1>8. Inherited(S, Dom, rank)
  <2> HIDE DEF S, Dom, rank
  <2> QED
    BY <1>7 DEF Inherited
<1>9. \A x \in Dom : x \in S
  <2> HIDE DEF S, Dom, rank, n
  <2> QED
    BY <1>1, <1>8, RankInduction
<1> QED
  BY <1>9 DEF v, Start

\* field_split gives the fields of the rules, whatever the bytes.
LEMMA SplitIs ==
    ASSUME NEW buf \in Seq(Pairs)
    PROVE  FieldSplit(buf) = FieldsByRule(buf)
<1> DEFINE n == Len(buf)
           i == SkipIfsWs(buf, 1)
<1>1. CASE case.ifs = << >>
  BY <1>1 DEF FieldSplit, FieldsByRule
<1>2. CASE case.ifs # << >>
  <2>1. n \in Nat /\ DOMAIN buf = 1..n /\ 1 \in 1..(n + 1)
    OBVIOUS
  <2>2. i \in 1..(n + 1) /\ (i > n \/ ~Soft(buf[i])) /\ \A k \in 1..(i - 1) : Soft(buf[k])
    BY <2>1, SkipIs
  <2>3. FieldSplit(buf) = FieldsFrom(buf)[i]
    BY <1>2, CollectIs DEF FieldSplit
  <2> HIDE DEF i
  <2>4. Count(buf, 1) = 0
    <3>1. SepsBefore(buf, 1) = {}
      <4>1. \A s \in Separators(buf) : s \in 1..n
        BY <2>1 DEF Separators
      <4>2. \A s \in 1..n : ~(s < 1)
        BY <2>1
      <4> QED
        BY <4>1, <4>2 DEF SepsBefore
    <3> QED
      BY <3>1, FS_EmptySet DEF Count
  <2>5. Count(buf, i) = 0
    <3>1. 1 \in Nat \ {0} /\ i \in 1..(Len(buf) + 1) /\ 1 \in 1..(Len(buf) + 1)
      BY <2>1, <2>2
    <3>2. \A s \in 1..(i - 1) : s \notin Separators(buf)
      BY <2>2, <3>1, EndSeparatesNothing
    <3> QED
      BY <2>4, <3>1, <3>2, CountIs
  <2>6. \A b \in BytesOf(buf) : ~(b < i)
    <3>1. ASSUME NEW b \in BytesOf(buf), b < i PROVE FALSE
      <4>1. b \in 1..n /\ ~Splits(buf[b])
        BY <2>1 DEF BytesOf
      <4>2. b \in 1..(i - 1)
        BY <2>1, <2>2, <3>1, <4>1
      <4> QED
        BY <2>2, <4>1, <4>2, KindsAre
    <3> QED
      BY <3>1
  <2>7. Start(buf, i)
    BY <2>2, <2>6 DEF Start
  <2>8. FieldsFrom(buf)[i] = [k \in 1..(Number(buf) - 0) |-> FieldOf(buf, 0 + k)]
    BY <2>5, <2>7, CollectsRest
  <2>9. Number(buf) \in Nat
    <3>1. Count(buf, Len(buf) + 1) \in Nat
      BY NumberIs
    <3>2. Number(buf) \in {Count(buf, Len(buf) + 1), Count(buf, Len(buf) + 1) + 1}
      BY NumberIs
    <3> QED
      BY <3>1, <3>2
  <2>10. Number(buf) - 0 = Number(buf) /\ \A k \in 1..Number(buf) : 0 + k = k
    BY <2>9
  <2>11. FieldsFrom(buf)[i] = [k \in 1..Number(buf) |-> FieldOf(buf, k)]
    BY <2>8, <2>10
  <2> QED
    BY <1>2, <2>3, <2>11, RuleIs
<1> QED
  BY <1>1, <1>2

\* Whatever is expanded, the fields are those the rules of field_split.c give,
\* for every value of IFS: none is lost or made up at the ends or between two
\* delimiters.
THEOREM SplitCorrect == Spec => []SplitsByRule
<1>1. ASSUME IInv PROVE SplitsByRule
  <2>1. SUFFICES ASSUME WordDone PROVE FieldSplit(Top.buf) = FieldsByRule(Top.buf)
    BY DEF SplitsByRule
  <2>2. phase = "expanding"
    BY <2>1 DEF WordDone
  <2>3. Top.buf \in Seq(Pairs)
    BY <1>1, <2>2, TopIs
  <2> QED
    BY <2>3, SplitIs
<1> QED
  BY <1>1, Invariant, PTL

\* A command that is no stage of a pipeline is refused at a target exactly when the
\* rules do not give it one field, whatever the target, its quotes and IFS.
THEOREM AmbiguousRefused == Spec => AmbiguousIsRefused
<1> DEFINE Refuses == WordDone /\ Head(todo).part = "target" /\ case.launch # "pipeline" =>
                         (phase' = "failed" <=> Len(RuledFields) # 1)
<1>1. ASSUME IInv, Next PROVE Refuses
  <2>1. SUFFICES ASSUME WordDone, Head(todo).part = "target", case.launch # "pipeline"
                PROVE  Refuses
    OBVIOUS
  <2>2. phase = "expanding" /\ Len(scans) = 1 /\ Here(0) = End
    BY <2>1 DEF WordDone
  <2>3. ~Scanning /\ ~Dollar
    BY <2>2 DEF Scanning, Dollar
  <2>4. TargetEnds
    <3>1. ~AtEnd(2)
      BY <2>2 DEF AtEnd
    <3>2. Scan
      BY <1>1, <2>2 DEF Next, Begin, Over
    <3>3. ~Quote /\ ~Ordinary /\ ~Backslash /\ ~BackslashInDouble /\ ~Tilde
      BY <2>3 DEF Quote, Ordinary, Backslash, BackslashInDouble, Tilde
    <3>4. ~DollarAlone /\ ~SpecialParameter /\ ~Parameter /\ ~Braced /\ ~BraceUnterminated
      BY <2>3 DEF DollarAlone, SpecialParameter, Parameter, Braced, BraceUnterminated
    <3>5. ~Unmatched /\ ~Substitution /\ ~SubstitutionNotStarted /\ ~ArithmeticBegins
      BY <2>3 DEF Unmatched, Substitution, SubstitutionNotStarted, Substitutes,
                  ArithmeticBegins, Computes
    <3>6. ~ArithmeticEnds
      BY <3>1 DEF ArithmeticEnds
    <3>7. ~ArgumentEnds /\ ~ValueEnds
      BY <2>1 DEF ArgumentEnds, ValueEnds
    <3> QED
      BY <3>2, <3>3, <3>4, <3>5, <3>6, <3>7 DEF Scan
  <2> DEFINE f == WordFields(Top.word, Top.buf)
  <2>5. f = RuledFields
    <3>1. Top.buf \in Seq(Pairs)
      BY <1>1, <2>2, TopIs
    <3>2. FieldSplit(Top.buf) = FieldsByRule(Top.buf)
      BY <3>1, SplitIs
    <3> QED
      BY Zenon, <3>2 DEF WordFields, RuledFields
  <2>6. CASE Len(f) # 1
    <3>1. Fail(1, status)
      BY <2>4, <2>6 DEF TargetEnds
    <3>2. phase' = "failed"
      BY <2>1, <3>1 DEF Fail
    <3> HIDE DEF f
    <3> QED
      BY <2>5, <2>6, <3>2
  <2>7. CASE Len(f) = 1
    <3>1. NextWord
      BY <2>4, <2>7 DEF TargetEnds
    <3>2. phase' # "failed"
      BY <3>1 DEF NextWord
    <3> HIDE DEF f
    <3> QED
      BY <2>5, <2>7, <3>2
  <2> QED
    BY <2>6, <2>7
<1>2. IInv /\ [Next]_vars => [Refuses]_vars
  <2>1. CASE Next
    BY <1>1, <2>1
  <2>2. CASE ~Next
    BY <2>2
  <2> QED
    BY <2>1, <2>2
<1>3. AmbiguousIsRefused <=> [][Refuses]_vars
  BY DEF AmbiguousIsRefused
<1> HIDE DEF Refuses
<1> QED
  BY <1>2, <1>3, Invariant, PTL DEF Spec

===============================================================================
