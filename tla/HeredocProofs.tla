---------------------------- MODULE HeredocProofs ----------------------------
(***************************************************************************)
(* Proofs about Heredoc, for every set of lines and every number of them   *)
(* that HeredocAssumption allows: what the reader queues for a line are    *)
(* the places of the operators that the lexer will read in it.             *)
(***************************************************************************)
EXTENDS HeredocTextProofs

-------------------------------------------------------------------------------
(* The invariant.                                                          *)

Contexts == [sq : BOOLEAN, dq : BOOLEAN, depth : Nat, bs : BOOLEAN, pending : Seq(Redirs)]

\* what the lexer makes of a text
State(text) == Lexed(text, LexStart)

Simple(text) == ~Has(text, {"$(", "x#"})

\* what is queued was read first, and an operator above the last line is queued
Past(q, l) == Broken(l) \/ (Begins(q, Reading(l.out)) /\ (q = << >> => ~Early(l)))

\* the scanner and the lexer are in the same quotes, and what is queued and what
\* is pending was read; or an operator has no word
Read(q, c, l) ==
    \/ /\ l.sub = 0 /\ (c.sq <=> l.q = "sq") /\ (c.dq <=> l.q = "dq")
       /\ Reading(l.out) = q \o Ats(c.pending)
    \/ ~Worded(l.out)

\* every piece that was read has a place
BufOK == \A i \in DOMAIN buf : buf[i].t # "\n" => buf[i].at # Nowhere

ReadInv ==
    /\ pc \in {"body", "more"} => pc = Phase(ctx)
    /\ Clean /\ pc = "backslash" /\ Simple(Front(buf)) => Past(queue, State(Front(buf)))
    /\ Clean /\ pc \in {"body", "more"} /\ Simple(buf) => Read(queue, ctx, State(buf))
    /\ Clean /\ pc = "parse" /\ Simple(buf) /\ Worded(State(buf).out) =>
          /\ Begins(queue, Reading(State(buf).out))
          /\ mishap = {} => Reading(State(buf).out) = queue

WalkInv ==
    /\ pc \notin {"walk", "run"} => given = << >>
    /\ pc = "run" => todo = << >>
    /\ Clean /\ Simple(buf) /\ pc \in {"walk", "run"} => Len(queue) <= Len(todo)
    /\ Clean /\ pc \in {"walk", "run"} /\ Plain(buf) /\ Flat(Lex(buf)) =>
          /\ Begins(queue, Ats(todo))
          /\ \A i \in DOMAIN given : given[i].for = given[i].op

QueueInv ==
    /\ source = "command" => queue = << >> /\ pc \in {"parse", "walk", "run", "done"}
    /\ pc = "prompt" /\ ~spoiled => queue = << >>
    /\ left => spoiled

IInv == TypeOK /\ BufOK /\ ReadInv /\ WalkInv /\ QueueInv

-------------------------------------------------------------------------------
(* The lines and the logical line.                                         *)

\* A line that was read has its places.
LEMMA LineIs ==
    ASSUME NEW text \in Lines, NEW n \in 1..MaxLines
    PROVE  /\ At(n, text) \in Seq(Chars) /\ At(n, text) # << >>
           /\ \A i \in 1..Len(At(n, text)) :
                 At(n, text)[i].t # "\n" /\ At(n, text)[i].at # Nowhere
<1>1. text \in Seq(Pieces) /\ text # << >> /\ MaxLines \in Nat
  BY HeredocAssumption
<1> DEFINE m == Len(text)
           e(i) == [t |-> text[i], at |-> <<n, i>>]
<1>2. m \in Nat /\ DOMAIN text = 1..m /\ m # 0 /\ \A i \in 1..m : text[i] \in Pieces
  BY <1>1, EmptySeq
<1>3. \A i \in 1..m : e(i) \in Chars /\ e(i).t # "\n" /\ e(i).at # Nowhere
  <2>1. ASSUME NEW i \in 1..m PROVE e(i) \in Chars /\ e(i).t # "\n" /\ e(i).at # Nowhere
    <3>1. text[i] \in Pieces
      BY <1>2
    <3>2. text[i] # "\n"
      BY <3>1 DEF Pieces, Letters, Operators, Quotes
    <3>3. <<n, i>> \in Places
      BY <1>1, <1>2 DEF Places
    <3>4. n # 0
      OBVIOUS
    <3>5. <<n, i>> # Nowhere
      BY <3>4 DEF Nowhere
    <3> QED
      BY <3>1, <3>2, <3>3, <3>5 DEF Chars
  <2> QED
    BY <2>1
<1>4. At(n, text) = [i \in 1..m |-> e(i)]
  BY <1>2 DEF At
<1> HIDE DEF e, m
<1>5. At(n, text) \in [1..m -> Chars]
  BY <1>3, <1>4
<1>6. At(n, text) \in Seq(Chars) /\ Len(At(n, text)) = m
  BY <1>2, <1>5
<1>7. \A i \in 1..m : At(n, text)[i] = e(i)
  BY <1>4
<1>8. At(n, text) # << >>
  BY <1>2, <1>6, EmptySeq
<1> QED
  BY <1>3, <1>6, <1>7, <1>8

\* A joint is a newline.
LEMMA JointIs == Newline \in Seq(Chars) /\ Len(Newline) = 1 /\ Newline[1].t = "\n"
                 /\ Newline = <<Newline[1]>> /\ Newline[1] \in Chars
<1>1. Nowhere \in Places
  BY HeredocAssumption DEF Nowhere, Places
<1> QED
  BY <1>1 DEF Newline, Chars

\* All but the last piece.
LEMMA FrontIs ==
    ASSUME NEW R, NEW s \in Seq(R)
    PROVE  /\ Front(s) \in Seq(R)
           /\ \A i \in 1..Len(Front(s)) : i \in 1..Len(s) /\ i < Len(s) /\ Front(s)[i] = s[i]
           /\ s # << >> => Len(Front(s)) = Len(s) - 1
<1> DEFINE n == Len(s) - 1
<1>1. n \in Int /\ 1 \in Int /\ Len(s) \in Nat
  OBVIOUS
<1>2. \A i \in 1..n : s[i] \in R
  OBVIOUS
<1>3. Front(s) = SubSeq(s, 1, n)
  BY DEF Front
<1>4. s # << >> => Len(s) # 0
  BY EmptySeq
<1>5. n - 1 + 1 = n /\ \A i \in 1..n : 1 + i - 1 = i /\ i \in 1..Len(s) /\ i < Len(s)
  BY <1>1
<1> HIDE DEF n
<1>6. /\ SubSeq(s, 1, n) \in Seq(R)
      /\ Len(SubSeq(s, 1, n)) = IF 1 <= n THEN n - 1 + 1 ELSE 0
      /\ \A i \in 1..(n - 1 + 1) : SubSeq(s, 1, n)[i] = s[1 + i - 1]
  BY <1>1, <1>2, SubSeqProperties
<1>7. \A i \in 1..Len(SubSeq(s, 1, n)) : i \in 1..n
  BY <1>1, <1>5, <1>6
<1>8. \A i \in 1..n : SubSeq(s, 1, n)[i] = s[i]
  BY <1>5, <1>6
<1>9. s # << >> => Len(SubSeq(s, 1, n)) = n
  BY <1>1, <1>4, <1>5, <1>6 DEF n
<1> QED
  BY <1>3, <1>5, <1>6, <1>7, <1>8, <1>9 DEF n

\* The last piece of two texts is that of the second.
LEMMA FrontConcat ==
    ASSUME NEW R, NEW a \in Seq(R), NEW b \in Seq(R), b # << >>
    PROVE  Front(a \o b) = a \o Front(b)
<1> DEFINE c == a \o b
           d == Front(b)
<1>1. /\ c \in Seq(R) /\ Len(c) = Len(a) + Len(b)
      /\ \A i \in 1..(Len(a) + Len(b)) : c[i] = IF i <= Len(a) THEN a[i] ELSE b[i - Len(a)]
  BY ConcatProperties
<1>2. Len(b) \in Nat /\ Len(b) # 0 /\ Len(a) \in Nat
  BY EmptySeq
<1>3. d \in Seq(R) /\ Len(d) = Len(b) - 1 /\ \A i \in 1..Len(d) : d[i] = b[i]
  BY FrontIs
<1> HIDE DEF c, d
<1>4. c # << >>
  BY <1>1, <1>2, EmptySeq
<1>5. /\ Front(c) \in Seq(R) /\ Len(Front(c)) = Len(c) - 1
      /\ \A i \in 1..Len(Front(c)) : Front(c)[i] = c[i]
  BY <1>1, <1>4, FrontIs
<1>6. /\ a \o d \in Seq(R) /\ Len(a \o d) = Len(a) + Len(d)
      /\ \A i \in 1..(Len(a) + Len(d)) : (a \o d)[i] = IF i <= Len(a) THEN a[i] ELSE d[i - Len(a)]
  BY <1>3, ConcatProperties
<1>7. Len(Front(c)) = Len(a \o d)
  BY <1>1, <1>2, <1>3, <1>5, <1>6
<1>8. ASSUME NEW i \in 1..Len(Front(c)) PROVE Front(c)[i] = (a \o d)[i]
  <2>1. i \in 1..(Len(a) + Len(b)) /\ i \in 1..(Len(a) + Len(d))
    BY <1>1, <1>2, <1>3, <1>5
  <2>2. ~(i <= Len(a)) => i - Len(a) \in 1..Len(d)
    BY <1>2, <1>3, <2>1
  <2> QED
    BY <1>1, <1>3, <1>5, <1>6, <2>1, <2>2
<1>9. Front(c) = a \o d
  BY <1>5, <1>6, <1>7, <1>8, SeqEqual
<1> QED
  BY <1>9 DEF c, d

-------------------------------------------------------------------------------
(* A scan and what the lexer makes of the line.                            *)

\* The start of the lexer.
LEMMA StartIs == /\ LexStart \in LexStates /\ LexStart.out = << >> /\ ~LexStart.open
                 /\ LexStart.q = "none" /\ LexStart.sub = 0 /\ ~LexStart.note
<1>1. << >> \in Seq(Tokens)
  BY EmptySeq
<1> QED
  BY <1>1 DEF LexStart, LexStates, LexOK, Lexes, Quotes

\* What is not joined to anything.
LEMMA NoLineIs == NoLine \in Contexts /\ ~NoLine.sq /\ ~NoLine.dq
<1>1. << >> \in Seq(Redirs)
  BY EmptySeq
<1> QED
  BY <1>1 DEF NoLine, Contexts

\* A scan starts from the quotes and the depth of a context.
LEMMA FromIs ==
    ASSUME NEW c \in Contexts
    PROVE  /\ ScanFrom(c) \in ScanStates
           /\ ScanFrom(c).sq = c.sq /\ ScanFrom(c).dq = c.dq /\ ~ScanFrom(c).bs
           /\ ~ScanFrom(c).halt /\ ~ScanFrom(c).open /\ ScanFrom(c).pending = << >>
<1>1. << >> \in Seq(Redirs)
  BY EmptySeq
<1> QED
  BY <1>1 DEF ScanFrom, ScanStates, ScanOK, Scans, Contexts

\* What a scan leaves.
LEMMA ScanIs ==
    ASSUME NEW text \in Seq(Chars), NEW c \in Contexts
    PROVE  /\ Scanned(text, c) \in ScanStates
           /\ Scan(text, c) \in Contexts
           /\ Scan(text, c).sq = Scanned(text, c).sq
           /\ Scan(text, c).dq = Scanned(text, c).dq
           /\ Scan(text, c).bs = Scanned(text, c).bs
           /\ Scan(text, c).pending = WithWord(Scanned(text, c))
<1>1. ScanFrom(c) \in ScanStates
  BY FromIs
<1>2. PICK f : ScanFolds(f, text, c)
  BY <1>1, ScanFold
<1> DEFINE s == Scanned(text, c)
<1>3. s \in ScanStates
  <2>1. f \in [0..Len(text) -> ScanStates] /\ s = f[Len(text)]
    BY <1>2 DEF ScanFolds
  <2>2. Len(text) \in 0..Len(text)
    OBVIOUS
  <2> QED
    BY <2>1, <2>2
<1>4. Scan(text, c) = [sq |-> s.sq, dq |-> s.dq, depth |-> s.depth, bs |-> s.bs,
                       pending |-> WithWord(s)]
  BY DEF Scan
<1> HIDE DEF s
<1>5. s \in Scans /\ s.pending \in Seq(Redirs)
  BY <1>3 DEF ScanStates, Scans
<1>6. WithWord(s) \in Seq(Redirs)
  <2>1. Front(s.pending) \in Seq(Redirs)
    BY <1>5, FrontIs
  <2> QED
    BY <1>5, <2>1 DEF WithWord
<1> QED
  BY <1>3, <1>4, <1>5, <1>6 DEF Scans, Contexts, s

\* An operator without a word is in what is not worded.
LEMMA BrokenUnworded ==
    ASSUME NEW l, Broken(l)
    PROVE  ~Worded(l.out)
BY DEF Broken, Worded

\* When the scan ends where the line does, what is read is what the lexer reads.
LEMMA ScanReads ==
    ASSUME NEW text \in Seq(Chars), NEW c \in Contexts, NEW l \in LexStates,
           NEW q \in Seq(Places), Broken(l) \/ Agree(Scanned(text, c), l, q)
    PROVE  Read(q, Scan(text, c), l)
<1> DEFINE s == Scanned(text, c)
           d == Scan(text, c)
<1>1. /\ s \in ScanStates /\ d.sq = s.sq /\ d.dq = s.dq /\ d.pending = WithWord(s)
  BY ScanIs
<1> HIDE DEF s, d
<1>2. CASE Broken(l)
  BY <1>2, BrokenUnworded DEF Read, d
<1>3. CASE Agree(s, l, q) /\ s.open /\ Last(s.pending).delim = << >>
  <2>1. Last(l.out).delim = << >> /\ l.open
    BY <1>3 DEF Agree
  <2>2. l.out \in Seq(Tokens) /\ l.out # << >> /\ l.out[Len(l.out)].k = "op"
    BY <2>1 DEF LexStates, LexOK, Lexes
  <2>3. Len(l.out) \in DOMAIN l.out
    BY <2>2, EmptySeq
  <2> QED
    BY <2>1, <2>2, <2>3 DEF Read, Worded, Ops, Last, d
<1>4. CASE Agree(s, l, q) /\ ~(s.open /\ Last(s.pending).delim = << >>)
  <2>1. WithWord(s) = s.pending
    BY <1>4 DEF WithWord
  <2> QED
    BY <1>1, <1>4, <2>1 DEF Read, Agree, d
<1> QED
  BY <1>2, <1>3, <1>4 DEF s

\* An operator whose word has not begun has none when the line ends.
LEMMA NewlineBroken ==
    ASSUME NEW l \in LexStates, ~Worded(l.out), NEW x \in Chars, x.t = "\n"
    PROVE  Broken(LexPiece(l, x))
<1>1. LexOK(l) /\ l \in Lexes /\ l.out \in Seq(Tokens)
  BY DEF LexStates, Lexes
<1>2. CASE Broken(l)
  BY <1>1, <1>2, BrokenStays
<1>3. CASE ~Broken(l)
  <2>1. PICK i \in Ops(l.out) : l.out[i].delim = << >>
    BY DEF Worded
  <2>2. l.open /\ i = Len(l.out) /\ i \in 1..Len(l.out) /\ l.out[i].k = "op"
    BY <1>1, <1>3, <2>1 DEF Broken, Ops
  <2>3. l.q = "none" /\ l.sub = 0 /\ ~l.note
    BY <1>1, <2>2 DEF LexOK
  <2>4. x.t \notin Operators /\ x.t \notin Letters /\ x.t # "$("
    BY DEF Operators, Letters
  <2> DEFINE m == LexPiece(l, x)
             t == Token("\n", x)
  <2>5. ~m.open /\ m.out = Append(l.out, t)
    BY <1>1, <2>3, <2>4, OutQuotes
  <2>6. t \in Tokens
    BY <1>1, PutIs DEF Kinds
  <2> HIDE DEF m, t
  <2>7. Append(l.out, t) \in Seq(Tokens) /\ Len(Append(l.out, t)) = Len(l.out) + 1
        /\ Append(l.out, t)[i] = l.out[i]
    BY <1>1, <2>2, <2>6, AppendKeeps, AppendProperties
  <2>8. i \in Ops(m.out) /\ m.out[i].delim = << >>
    BY <1>1, <2>1, <2>2, <2>5, <2>7 DEF Ops
  <2>9. Broken(m)
    BY <2>5, <2>8 DEF Broken
  <2> QED
    BY <2>9 DEF m
<1> QED
  BY <1>2, <1>3

\* A joint ends the comment and the word, and nothing else.
LEMMA NewlineIs ==
    ASSUME NEW l \in LexStates, l.sub = 0, NEW x \in Chars, x.t = "\n"
    PROVE  /\ LexPiece(l, x) \in LexStates
           /\ LexPiece(l, x).sub = 0 /\ LexPiece(l, x).q = l.q /\ ~LexPiece(l, x).note
           /\ ~LexPiece(l, x).open
           /\ Reading(LexPiece(l, x).out) = Reading(l.out)
<1>1. LexOK(l) /\ l \in Lexes
  BY DEF LexStates
<1>2. x.t \notin Operators /\ x.t \notin Letters /\ x.t # "$(" /\ x.t \notin Quotes
      /\ x.t # "#"
  BY DEF Operators, Letters, Quotes
<1> DEFINE m == LexPiece(l, x)
<1>3. m \in LexStates
  BY <1>1, LexPieceShape DEF LexStates, LexOK
<1>4. Reading(m.out) = Reading(l.out)
  BY <1>1, <1>2, ReadingPiece
<1>5. m.sub = 0 /\ m.q = l.q /\ ~m.note /\ ~m.open
  <2>1. CASE l.q # "none"
    <3>1. x.t # l.q
      BY <1>1, <1>2, <2>1 DEF Lexes
    <3> QED
      BY <1>1, <1>2, <2>1, <3>1, InQuotes
  <2>2. CASE l.q = "none" /\ ~l.note
    BY <1>1, <1>2, <2>2, OutQuotes
  <2>3. CASE l.q = "none" /\ l.note
    <3>1. m = LexOutside(l, x)
      BY <2>3 DEF LexPiece
    <3>2. LexOutside(l, x) = [Put(l, x.t, x) EXCEPT !.note = FALSE]
      BY <1>2 DEF LexOutside
    <3>3. /\ Put(l, x.t, x) \in Lexes /\ Put(l, x.t, x).q = l.q
          /\ Put(l, x.t, x).sub = l.sub /\ ~Put(l, x.t, x).open
      <4>1. \A k \in Kinds : /\ Put(l, k, x) \in Lexes /\ Put(l, k, x).q = l.q
                             /\ Put(l, k, x).sub = l.sub
                             /\ Put(l, k, x).open <=> k = "op"
        BY <1>1, PutIs
      <4>2. x.t \in Kinds /\ x.t # "op"
        BY DEF Kinds
      <4> QED
        BY <4>1, <4>2
    <3>4. WithIn(Put(l, x.t, x), m, Put(l, x.t, x).q, Put(l, x.t, x).sub, FALSE)
      <4>1. \A p \in Lexes : WithIn(p, [p EXCEPT !.note = FALSE], p.q, p.sub, FALSE)
        BY SetNote
      <4> DEFINE p == Put(l, x.t, x)
      <4>2. m = [p EXCEPT !.note = FALSE] /\ p \in Lexes
        BY <3>1, <3>2, <3>3
      <4> HIDE DEF m, p
      <4>3. WithIn(p, m, p.q, p.sub, FALSE)
        BY <4>1, <4>2
      <4> QED
        BY <4>3 DEF p
    <3> QED
      BY <2>3, <3>3, <3>4 DEF WithIn
  <2> QED
    BY <2>1, <2>2, <2>3
<1> QED
  BY <1>3, <1>4, <1>5 DEF m

\* What has read nothing has no line below an operator.
LEMMA ReadNothing ==
    ASSUME NEW l \in LexStates, Reading(l.out) = << >>
    PROVE  ~Early(l)
<1>1. SUFFICES ASSUME Early(l) PROVE FALSE
  OBVIOUS
<1>2. PICK i \in Typed(l.out) : TRUE
  BY <1>1 DEF Early
<1>3. l.out \in Seq(Tokens) /\ i \in 1..Len(l.out)
  BY <1>2 DEF LexStates, Lexes, Typed, Ops
<1> DEFINE T == Typed(l.out)
<1>4. PICK f : SelFolds(f, l.out, T)
  BY <1>3, SelFold
<1>5. l.out[i] \in Tokens
  BY <1>3
<1> HIDE DEF T
<1> DEFINE n == Len(l.out)
           S == {k \in 0..n : k >= i => f[k] # << >>}
<1>6. /\ n \in Nat /\ i \in 1..n /\ i \in T /\ f \in [0..n -> Seq(Tokens)]
      /\ \A k \in 1..n : f[k] = IF k \in T THEN Append(f[k - 1], l.out[k]) ELSE f[k - 1]
      /\ Selected(l.out, T) = f[n] /\ \A k \in 1..n : l.out[k] \in Tokens
  BY <1>2, <1>3, <1>4 DEF SelFolds, T
<1>7. \A s \in Seq(Tokens), t \in Tokens : Append(s, t) # << >>
  <2>1. \A s \in Seq(Tokens), t \in Tokens : Len(Append(s, t)) = Len(s) + 1 /\ Len(s) \in Nat
    BY AppendProperties
  <2> QED
    BY <2>1, EmptySeq
<1> HIDE DEF n
<1>8. \A k \in 0..n : k \in S
  <2>1. 0 \in S
    BY <1>6
  <2>2. ASSUME NEW k \in 0..n, k < n, k \in S PROVE k + 1 \in S
    <3>1. k + 1 \in 1..n /\ (k + 1) - 1 = k /\ k + 1 \in 0..n /\ k \in Nat
      BY <1>6, <2>2
    <3>2. f[k + 1] = IF k + 1 \in T THEN Append(f[k], l.out[k + 1]) ELSE f[k]
      BY <1>6, <3>1
    <3>3. f[k] \in Seq(Tokens) /\ l.out[k + 1] \in Tokens
      BY <1>6, <3>1
    <3>4. Append(f[k], l.out[k + 1]) # << >>
      BY <1>7, <3>3
    <3>5. k + 1 >= i => k >= i \/ k + 1 = i
      BY <1>6, <3>1
    <3> QED
      BY <1>6, <2>2, <3>1, <3>2, <3>4, <3>5
  <2> HIDE DEF S
  <2> QED
    BY <1>6, <2>1, <2>2, UpTo
<1>9. f[n] # << >> /\ f[n] \in Seq(Tokens)
  <2>1. n \in 0..n /\ n >= i
    BY <1>6
  <2> QED
    BY <1>6, <1>8, <2>1
<1>10. Len(Reading(l.out)) = Len(f[n])
  BY <1>6, <1>9, AtsIs, TokenAts DEF Reading, T
<1> QED
  BY <1>9, <1>10, EmptySeq

\* every piece that was read has a place
Placed(text) == \A i \in 1..Len(text) : text[i].t # "\n" => text[i].at # Nowhere

\* one line, without a joint
OneLine(text) == \A i \in 1..Len(text) : text[i].t # "\n"

\* The parts of a text have what the text has.
LEMMA SimpleConcat ==
    ASSUME NEW a \in Seq(Chars), NEW b \in Seq(Chars)
    PROVE  /\ Simple(a \o b) <=> Simple(a) /\ Simple(b)
           /\ Placed(a \o b) <=> Placed(a) /\ Placed(b)
<1> DEFINE c == a \o b
           m == Len(a)
           n == Len(b)
<1>1. /\ c \in Seq(Chars) /\ Len(c) = m + n /\ m \in Nat /\ n \in Nat
      /\ \A i \in 1..(m + n) : c[i] = IF i <= m THEN a[i] ELSE b[i - m]
      /\ DOMAIN c = 1..(m + n) /\ DOMAIN a = 1..m /\ DOMAIN b = 1..n
  BY ConcatProperties
<1> HIDE DEF c, m, n
<1>2. \A i \in 1..m : i \in 1..(m + n) /\ c[i] = a[i]
  BY <1>1
<1>3. \A i \in 1..n : m + i \in 1..(m + n) /\ c[m + i] = b[i]
  <2>1. ASSUME NEW i \in 1..n PROVE m + i \in 1..(m + n) /\ c[m + i] = b[i]
    <3>1. m + i \in 1..(m + n) /\ ~(m + i <= m) /\ (m + i) - m = i
      BY <1>1
    <3> QED
      BY <1>1, <3>1
  <2> QED
    BY <2>1
<1>4. \A i \in 1..(m + n) : \/ i \in 1..m /\ c[i] = a[i]
                            \/ i - m \in 1..n /\ c[i] = b[i - m]
  <2>1. ASSUME NEW i \in 1..(m + n) PROVE \/ i \in 1..m /\ c[i] = a[i]
                                          \/ i - m \in 1..n /\ c[i] = b[i - m]
    <3>1. i <= m => i \in 1..m
      BY <1>1
    <3>2. ~(i <= m) => i - m \in 1..n
      BY <1>1
    <3> QED
      BY <1>1, <3>1, <3>2
  <2> QED
    BY <2>1
<1>5. Simple(c) <=> Simple(a) /\ Simple(b)
  BY <1>1, <1>2, <1>3, <1>4 DEF Simple, Has
<1>6. Placed(c) <=> Placed(a) /\ Placed(b)
  BY <1>1, <1>2, <1>3, <1>4 DEF Placed, c, m, n
<1> QED
  BY <1>5, <1>6 DEF c

\* Nothing but the last piece of a simple text makes it not simple.
LEMMA FrontParts ==
    ASSUME NEW a \in Seq(Chars)
    PROVE  /\ Front(a) \in Seq(Chars)
           /\ Simple(a) => Simple(Front(a))
           /\ Placed(a) => Placed(Front(a))
           /\ OneLine(a) => OneLine(Front(a))
<1>1. /\ Front(a) \in Seq(Chars)
      /\ \A i \in 1..Len(Front(a)) : i \in 1..Len(a) /\ Front(a)[i] = a[i]
  BY FrontIs
<1>2. DOMAIN a = 1..Len(a) /\ DOMAIN Front(a) = 1..Len(Front(a))
  BY <1>1
<1> QED
  BY <1>1, <1>2 DEF Simple, Has, Placed, OneLine

\* A scan that ends where the line does, from the quotes that the lexer is in.
LEMMA ScanOutcome ==
    ASSUME NEW text \in Seq(Chars), NEW from \in LexStates, NEW c \in Contexts,
           NEW q \in Seq(Places), Agree(ScanFrom(c), from, q),
           Simple(text), Placed(text), ~Scan(text, c).bs,
           \A i, j \in 1..Len(text) : i < j => ~(text[i].t = "#" /\ text[j].t = "\n"),
           OneLine(text) \/ ~Early(Lexed(text, from))
    PROVE  Read(q, Scan(text, c), Lexed(text, from))
<1>1. ScanFrom(c) \in ScanStates /\ Lexed(text, from) \in LexStates
  BY FromIs, LexConcat
<1>2. \A i \in 1..Len(text) : /\ text[i].t \notin {"$(", "x#"}
                              /\ text[i].t # "\n" => text[i].at # Nowhere
  BY DEF Simple, Has, Placed
<1>3. ~Scanned(text, c).bs
  BY ScanIs
<1>4. ~(Early(Lexed(text, from)) /\ \E i \in 1..Len(text) : text[i].t = "\n")
  BY DEF OneLine
<1>5. \/ Scanned(text, c).bs
      \/ Broken(Lexed(text, from))
      \/ Early(Lexed(text, from)) /\ \E i \in 1..Len(text) : text[i].t = "\n"
      \/ Agree(Scanned(text, c), Lexed(text, from), q)
  BY <1>1, <1>2, AgreeText
<1>6. Broken(Lexed(text, from)) \/ Agree(Scanned(text, c), Lexed(text, from), q)
  BY <1>3, <1>4, <1>5
<1> QED
  BY <1>1, <1>6, ScanReads

\* At the start nothing is read.
LEMMA StartAgrees == Agree(ScanFrom(NoLine), LexStart, << >>) /\ ~Early(LexStart)
                     /\ Reading(LexStart.out) = << >> /\ << >> \in Seq(Places)
<1>1. /\ ScanFrom(NoLine) \in ScanStates
      /\ ~ScanFrom(NoLine).sq /\ ~ScanFrom(NoLine).dq /\ ~ScanFrom(NoLine).bs
      /\ ~ScanFrom(NoLine).halt /\ ~ScanFrom(NoLine).open /\ ScanFrom(NoLine).pending = << >>
  BY NoLineIs, FromIs
<1>2. << >> \in Seq(Places) /\ << >> \in Seq(Tokens) /\ << >> \in Seq(Redirs) /\ Len(<< >>) = 0
  BY EmptySeq
<1>3. Ats(<< >>) = << >>
  <2>1. Ats(<< >>) \in Seq(Places) /\ Len(Ats(<< >>)) = 0
    BY <1>2, AtsIs, TokenAts
  <2> QED
    BY <2>1, EmptySeq
<1>4. Reading(<< >>) = << >>
  BY <1>3, SelNone DEF Reading
<1>5. << >> \o << >> = << >>
  BY <1>2, ConcatEmptySeq
<1>6. ~Early(LexStart)
  BY <1>4, StartIs, ReadNothing
<1> QED
  BY <1>1, <1>2, <1>3, <1>4, <1>5, <1>6, StartIs DEF Agree

\* The first line.
LEMMA FirstReads ==
    ASSUME NEW b \in Seq(Chars), Placed(b), OneLine(b)
    PROVE  /\ Simple(b) /\ ~Scan(b, NoLine).bs => Read(<< >>, Scan(b, NoLine), State(b))
           /\ Past(<< >>, State(Front(b)))
<1>1. ASSUME Simple(b), ~Scan(b, NoLine).bs
      PROVE  Read(<< >>, Scan(b, NoLine), State(b))
  <2>1. \A i, j \in 1..Len(b) : i < j => ~(b[i].t = "#" /\ b[j].t = "\n")
    BY DEF OneLine
  <2> QED
    BY <1>1, <2>1, StartIs, StartAgrees, NoLineIs, ScanOutcome DEF State
<1>2. Past(<< >>, State(Front(b)))
  <2>1. Front(b) \in Seq(Chars) /\ OneLine(Front(b))
    BY FrontParts
  <2>2. ~Early(State(Front(b)))
    BY <2>1, StartIs, StartAgrees, EarlyText DEF OneLine, State
  <2>3. State(Front(b)) \in LexStates
    BY <2>1, StartIs, LexConcat DEF State
  <2>4. Reading(State(Front(b)).out) \in Seq(Places)
    BY <2>1, StartIs, ReadingText DEF Begins, State
  <2>5. Begins(<< >>, Reading(State(Front(b)).out))
    BY <2>4, EmptySeq DEF Begins
  <2> QED
    BY <2>2, <2>5 DEF Past
<1> QED
  BY <1>1, <1>2

\* A line joined at a backslash: the whole of it is scanned again.
LEMMA RescanReads ==
    ASSUME NEW a \in Seq(Chars), Placed(a), NEW b \in Seq(Chars), b # << >>, Placed(b),
           OneLine(b), NEW q \in Seq(Places), Past(q, State(Front(a))), ~BelowComment(a),
           \A i \in 1..Len(a), k \in 1..Len(q) : a[i].t \in Operators => a[i].at # q[k]
    PROVE  /\ Simple(Front(a) \o b) /\ ~Scan(Front(a) \o b, NoLine).bs
                 => Read(q, Scan(Front(a) \o b, NoLine), State(Front(a) \o b))
           /\ Past(q, State(Front(Front(a) \o b)))
<1> DEFINE f == Front(a)
           c == f \o b
           g == Front(b)
           l == State(f)
<1>1. /\ f \in Seq(Chars) /\ Placed(f) /\ g \in Seq(Chars) /\ OneLine(g)
      /\ c \in Seq(Chars) /\ Placed(c)
      /\ \A i \in 1..Len(f) : i \in 1..Len(a) /\ f[i] = a[i]
  BY FrontParts, FrontIs, SimpleConcat, ConcatProperties
<1>2. Front(c) = f \o g
  BY <1>1, FrontConcat
<1>3. Past(q, l) /\ l \in LexStates
  BY <1>1, StartIs, LexConcat DEF State
<1>4. State(c) = Lexed(b, l) /\ State(f \o g) = Lexed(g, l) /\ State(c) \in LexStates
  BY <1>1, StartIs, LexConcat DEF State
<1>5. /\ Len(c) = Len(f) + Len(b) /\ Len(f) \in Nat /\ Len(b) \in Nat
      /\ \A i \in 1..(Len(f) + Len(b)) : c[i] = IF i <= Len(f) THEN f[i] ELSE b[i - Len(f)]
  BY <1>1, ConcatProperties
<1>6. l = Lexed(f, LexStart)
  BY DEF State
<1>7. State(c) = Lexed(c, LexStart)
  BY DEF State
<1> HIDE DEF f, c, g, l
<1>8. CASE Broken(l)
  <2>1. Broken(State(c)) /\ Broken(State(f \o g))
    BY <1>1, <1>3, <1>4, <1>8, BrokenText
  <2>2. ~Worded(State(c).out)
    BY <2>1, BrokenUnworded
  <2> QED
    BY <1>2, <2>1, <2>2 DEF Past, Read, f, c
<1>9. CASE ~Broken(l)
  <2>1. Begins(q, Reading(l.out)) /\ (q = << >> => ~Early(l))
    BY <1>3, <1>9 DEF Past
  <2>2. q = << >>
    <3>1. SUFFICES ASSUME q # << >> PROVE FALSE
      OBVIOUS
    <3>2. 1 \in 1..Len(q)
      BY <3>1, EmptySeq
    <3>3. 1 \in 1..Len(Reading(l.out)) /\ q[1] = Reading(l.out)[1]
      BY <2>1, <3>2 DEF Begins
    <3>4. Len(Reading(LexStart.out)) = 0
      BY StartAgrees, EmptySeq
    <3>5. PICK i \in 1..Len(f) : f[i].t \in Operators /\ f[i].at = Reading(l.out)[1]
      BY <1>1, <1>6, <3>3, <3>4, StartIs, ReadingText
    <3> QED
      BY <1>1, <3>2, <3>3, <3>5
  <2>3. ~Early(l)
    BY <2>1, <2>2
  <2>4. ~Early(State(c)) /\ ~Early(State(f \o g))
    BY <1>1, <1>3, <1>4, <2>3, EarlyText DEF OneLine
  <2>5. ASSUME NEW i \in 1..Len(c), NEW j \in 1..Len(c), i < j, c[i].t = "#", c[j].t = "\n"
        PROVE  FALSE
    <3>1. j <= Len(f)
      <4>1. SUFFICES ASSUME ~(j <= Len(f)) PROVE FALSE
        OBVIOUS
      <4>2. j - Len(f) \in 1..Len(b) /\ c[j] = b[j - Len(f)]
        BY <1>5, <4>1
      <4> QED
        BY <2>5, <4>2 DEF OneLine
    <3>2. i \in 1..Len(f) /\ j \in 1..Len(f) /\ c[i] = f[i] /\ c[j] = f[j]
      BY <1>5, <2>5, <3>1
    <3>3. i \in DOMAIN a /\ j \in DOMAIN a /\ a[i].t = "#" /\ a[j].t = "\n"
      BY <1>1, <2>5, <3>2
    <3> QED
      BY <2>5, <3>3 DEF BelowComment
  <2>6. ASSUME Simple(c), ~Scan(c, NoLine).bs
        PROVE  Read(<< >>, Scan(c, NoLine), Lexed(c, LexStart))
    <3>1. \A i, j \in 1..Len(c) : i < j => ~(c[i].t = "#" /\ c[j].t = "\n")
      BY <2>5
    <3>2. ~Early(Lexed(c, LexStart))
      BY <1>7, <2>4
    <3> QED
      BY <1>1, <2>6, <3>1, <3>2, StartIs, StartAgrees, NoLineIs, ScanOutcome
  <2>7. Begins(<< >>, Reading(State(f \o g).out))
    <3>1. Reading(State(f \o g).out) \in Seq(Places)
      BY <1>1, <1>3, <1>4, ReadingText DEF Begins
    <3> QED
      BY <3>1, EmptySeq DEF Begins
  <2>8. Past(q, State(f \o g))
    BY <2>2, <2>4, <2>7 DEF Past
  <2>9. Simple(c) /\ ~Scan(c, NoLine).bs => Read(q, Scan(c, NoLine), State(c))
    BY <1>7, <2>2, <2>6
  <2> QED
    BY <1>2, <2>8, <2>9 DEF f, c
<1> QED
  BY <1>8, <1>9

\* A line joined in open quotes or parentheses: only the new part is scanned.
LEMMA JoinReads ==
    ASSUME NEW a \in Seq(Chars), NEW b \in Seq(Chars), b # << >>, Placed(b),
           OneLine(b), NEW q \in Seq(Places), NEW c \in Contexts, c.pending = << >>,
           Read(q, c, State(a))
    PROVE  /\ Simple(b) /\ ~Scan(b, c).bs
                 => Read(q, Scan(b, c), State(a \o Newline \o b))
           /\ Past(q, State(Front(a \o Newline \o b)))
<1> DEFINE x == Newline[1]
           l == State(a)
           m == LexPiece(l, x)
           g == Front(b)
<1>1. /\ Newline = <<x>> /\ x \in Chars /\ x.t = "\n" /\ Newline \in Seq(Chars)
      /\ g \in Seq(Chars) /\ OneLine(g)
  BY JointIs, FrontParts
<1>2. l \in LexStates /\ State(a \o Newline) = Lexed(Newline, l) /\ Lexed(Newline, l) \in LexStates
  BY <1>1, StartIs, LexConcat DEF State
<1>3. Lexed(Newline, l) = m
  <2> HIDE DEF x, l
  <2> QED
    BY <1>1, <1>2, LexOne
<1>4. a \o Newline \in Seq(Chars)
  BY <1>1, ConcatProperties
<1>5. State((a \o Newline) \o b) = Lexed(b, m) /\ State((a \o Newline) \o g) = Lexed(g, m)
  <2> DEFINE u == a \o Newline
  <2>1. u \in Seq(Chars) /\ Lexed(u, LexStart) = m
    BY <1>2, <1>3, <1>4 DEF State
  <2> HIDE DEF g, l, m, u
  <2>2. Lexed(u \o b, LexStart) = Lexed(b, m) /\ Lexed(u \o g, LexStart) = Lexed(g, m)
    BY <1>1, <2>1, StartIs, LexConcat
  <2> QED
    BY <2>2 DEF State, u
<1>6. Front((a \o Newline) \o b) = (a \o Newline) \o g
  BY <1>4, FrontConcat
<1> HIDE DEF x, l, g
<1>7. m \in LexStates
  BY <1>2, <1>3
<1>8. Lexed(b, m) \in LexStates /\ Lexed(g, m) \in LexStates
  BY <1>1, <1>7, LexConcat
<1>9. CASE ~Worded(l.out)
  <2>1. Broken(m)
    BY <1>1, <1>2, <1>9, NewlineBroken
  <2>2. Broken(Lexed(b, m)) /\ Broken(Lexed(g, m))
    BY <1>1, <1>7, <2>1, BrokenText
  <2>3. ~Worded(Lexed(b, m).out)
    BY <2>2, BrokenUnworded
  <2> QED
    BY <1>5, <1>6, <2>2, <2>3 DEF Past, Read
<1>10. CASE Worded(l.out)
  <2>1. /\ l.sub = 0 /\ (c.sq <=> l.q = "sq") /\ (c.dq <=> l.q = "dq")
        /\ Reading(l.out) = q \o Ats(<< >>)
    BY <1>10 DEF Read, l
  <2>2. Ats(<< >>) = << >> /\ q \o << >> = q
    <3>1. << >> \in Seq(Redirs) /\ Len(<< >>) = 0
      BY EmptySeq
    <3>2. Ats(<< >>) \in Seq(Places) /\ Len(Ats(<< >>)) = 0
      BY <3>1, AtsIs, TokenAts
    <3> QED
      BY <3>2, EmptySeq, ConcatEmptySeq
  <2>3. /\ m.sub = 0 /\ m.q = l.q /\ ~m.note /\ ~m.open
        /\ Reading(m.out) = q
    BY <1>1, <1>2, <2>1, <2>2, NewlineIs
  <2> HIDE DEF m
  <2>4. Agree(ScanFrom(c), m, q)
    <3>1. /\ ScanFrom(c).sq = c.sq /\ ScanFrom(c).dq = c.dq /\ ~ScanFrom(c).bs
          /\ ~ScanFrom(c).halt /\ ~ScanFrom(c).open /\ ScanFrom(c).pending = << >>
      BY FromIs
    <3> QED
      BY <2>1, <2>2, <2>3, <3>1 DEF Agree
  <2>5. ASSUME Simple(b), ~Scan(b, c).bs PROVE Read(q, Scan(b, c), Lexed(b, m))
    <3>1. \A i, j \in 1..Len(b) : i < j => ~(b[i].t = "#" /\ b[j].t = "\n")
      BY DEF OneLine
    <3> QED
      BY <1>7, <2>4, <2>5, <3>1, ScanOutcome
  <2>6. Begins(q, Reading(Lexed(g, m).out))
    BY <1>1, <1>7, <2>3, ReadingText
  <2>7. q = << >> => ~Early(Lexed(g, m))
    <3>1. q = << >> => ~Early(m)
      BY <1>7, <2>3, ReadNothing
    <3> QED
      BY <1>1, <1>7, <3>1, EarlyText DEF OneLine
  <2> QED
    BY <1>5, <1>6, <2>5, <2>6, <2>7 DEF Past
<1> QED
  BY <1>9, <1>10

-------------------------------------------------------------------------------
(* The steps.                                                              *)

\* What the reader does next.
LEMMA PhaseIs ==
    ASSUME NEW c
    PROVE  /\ Phase(c) \in {"backslash", "body", "more", "parse"}
           /\ Phase(c) = "backslash" => c.bs
           /\ Phase(c) # "backslash" => ~c.bs
           /\ Phase(c) = "body" => c.pending # << >>
           /\ Phase(c) \in {"more", "parse"} => c.pending = << >>
BY DEF Phase

\* What is read when nothing is pending is what is queued.
LEMMA ReadQueued ==
    ASSUME NEW q \in Seq(Places), NEW c, NEW l, c.pending = << >>, Read(q, c, l), Worded(l.out)
    PROVE  Reading(l.out) = q /\ Begins(q, Reading(l.out))
<1>1. Reading(l.out) = q \o Ats(<< >>)
  BY DEF Read
<1>2. << >> \in Seq(Redirs) /\ Len(<< >>) = 0
  BY EmptySeq
<1>3. Ats(<< >>) \in Seq(Places) /\ Len(Ats(<< >>)) = 0
  BY <1>2, AtsIs, TokenAts
<1>4. Ats(<< >>) = << >> /\ q \o << >> = q
  BY <1>3, EmptySeq, ConcatEmptySeq
<1>5. Begins(q, q)
  BY DEF Begins
<1> QED
  BY <1>1, <1>4, <1>5

\* The body of the first pending operator moves it to the queue.
LEMMA ReadMoved ==
    ASSUME NEW q \in Seq(Places), NEW c \in Contexts, NEW l, c.pending # << >>, Read(q, c, l)
    PROVE  Read(Append(q, Head(c.pending).at), [c EXCEPT !.pending = Tail(@)], l)
<1> DEFINE p == c.pending
           d == [c EXCEPT !.pending = Tail(@)]
           r == Append(q, Head(p).at)
<1>1. p \in Seq(Redirs) /\ p # << >> /\ d.pending = Tail(p) /\ d.sq = c.sq /\ d.dq = c.dq
  BY DEF Contexts
<1> HIDE DEF p, d
<1>2. Head(p) \in Redirs /\ Tail(p) \in Seq(Redirs) /\ Head(p).at \in Places
      /\ Len(p) \in Nat /\ Len(p) # 0
      /\ Len(Tail(p)) = Len(p) - 1 /\ \A i \in 1..Len(Tail(p)) : Tail(p)[i] = p[i + 1]
  BY <1>1, HeadTailProperties, EmptySeq, TokenAts
<1>3. /\ Ats(p) \in Seq(Places) /\ Len(Ats(p)) = Len(p)
      /\ \A i \in 1..Len(p) : Ats(p)[i] = p[i].at
      /\ Ats(Tail(p)) \in Seq(Places) /\ Len(Ats(Tail(p))) = Len(Tail(p))
      /\ \A i \in 1..Len(Tail(p)) : Ats(Tail(p))[i] = Tail(p)[i].at
  BY <1>1, <1>2, AtsIs, TokenAts
<1> DEFINE A == Ats(p)
           B == Ats(Tail(p))
           h == Head(p).at
           n == Len(q)
           m == Len(Tail(p))
<1>4. /\ h \in Places /\ A \in Seq(Places) /\ B \in Seq(Places) /\ n \in Nat /\ m \in Nat
      /\ Len(A) = m + 1 /\ Len(B) = m /\ A[1] = h /\ \A i \in 1..m : B[i] = A[i + 1]
  <2>1. Head(p) = p[1] /\ 1 \in 1..Len(p)
    BY <1>1, <1>2
  <2>2. \A i \in 1..m : i + 1 \in 1..Len(p)
    BY <1>2
  <2>3. A[1] = h
    BY <1>3, <2>1
  <2>4. \A i \in 1..m : B[i] = A[i + 1]
    BY <1>2, <1>3, <2>2
  <2>5. Len(A) = m + 1 /\ Len(B) = m /\ m \in Nat /\ n \in Nat
    <3>1. Len(A) = Len(p) /\ Len(B) = m /\ m = Len(p) - 1 /\ n \in Nat /\ Len(p) \in Nat
          /\ Len(p) # 0
      <4>1. n \in Nat
        OBVIOUS
      <4>2. Len(A) = Len(p) /\ Len(B) = m
        BY <1>3
      <4>3. m = Len(p) - 1 /\ Len(p) \in Nat /\ Len(p) # 0
        BY <1>2
      <4> QED
        BY <4>1, <4>2, <4>3
    <3> HIDE DEF A, B, m, n
    <3> QED
      BY <3>1
  <2> QED
    BY <1>2, <1>3, <2>3, <2>4, <2>5
<1> HIDE DEF A, B, h, m
<1>5. /\ Append(q, h) \in Seq(Places) /\ Len(Append(q, h)) = n + 1
      /\ Append(q, h)[n + 1] = h /\ \A i \in 1..n : Append(q, h)[i] = q[i]
  BY <1>4, AppendProperties
<1> DEFINE s == Append(q, h)
<1> HIDE DEF s
<1>6. s \in Seq(Places) /\ Len(s) = n + 1 /\ s[n + 1] = h /\ \A i \in 1..n : s[i] = q[i]
  BY <1>5 DEF s
<1>7. /\ q \o A \in Seq(Places) /\ Len(q \o A) = n + Len(A)
      /\ \A i \in 1..(n + Len(A)) : (q \o A)[i] = IF i <= n THEN q[i] ELSE A[i - n]
  BY <1>4, ConcatProperties
<1>8. /\ s \o B \in Seq(Places) /\ Len(s \o B) = n + 1 + Len(B)
      /\ \A i \in 1..(n + 1 + Len(B)) : (s \o B)[i] = IF i <= n + 1 THEN s[i] ELSE B[i - (n + 1)]
  <2>1. /\ s \o B \in Seq(Places) /\ Len(s \o B) = Len(s) + Len(B)
        /\ \A i \in 1..(Len(s) + Len(B)) :
              (s \o B)[i] = IF i <= Len(s) THEN s[i] ELSE B[i - Len(s)]
    BY <1>4, <1>6, ConcatProperties
  <2>2. Len(s) = n + 1
    BY <1>6
  <2> HIDE DEF n
  <2> QED
    BY <2>1, <2>2
<1>9. Len(q \o A) = Len(s \o B)
  BY <1>4, <1>7, <1>8
<1>10. ASSUME NEW i \in 1..Len(q \o A) PROVE (q \o A)[i] = (s \o B)[i]
  <2>1. i \in 1..(n + m + 1) /\ i \in 1..(n + Len(A)) /\ i \in 1..(n + 1 + Len(B))
    BY <1>4, <1>7
  <2>2. CASE i <= n
    <3>1. i \in 1..n /\ i <= n + 1
      BY <1>4, <2>1, <2>2
    <3> QED
      BY <1>6, <1>7, <1>8, <2>1, <2>2, <3>1
  <2>3. CASE i = n + 1
    <3>1. ~(i <= n) /\ i <= n + 1 /\ i - n = 1
      BY <1>4, <2>3
    <3> QED
      BY <1>4, <1>6, <1>7, <1>8, <2>1, <2>3, <3>1
  <2>4. CASE i > n + 1
    <3>1. ~(i <= n) /\ ~(i <= n + 1) /\ i - (n + 1) \in 1..m /\ (i - (n + 1)) + 1 = i - n
      BY <1>4, <2>1, <2>4
    <3> QED
      BY <1>4, <1>7, <1>8, <2>1, <3>1
  <2>5. i <= n \/ i = n + 1 \/ i > n + 1
    BY <1>4, <2>1
  <2> QED
    BY <2>2, <2>3, <2>4, <2>5
<1>11. q \o A = s \o B
  BY <1>7, <1>8, <1>9, <1>10, SeqEqual
<1>12. Read(s, d, l)
  BY <1>1, <1>11 DEF Read, A, B, p
<1> QED
  BY <1>12 DEF s, h, d, p

\* The lexer's tokens of the line.
LEMMA TokensIs ==
    ASSUME NEW text \in Seq(Chars)
    PROVE  /\ State(text) \in LexStates /\ Lex(text) = State(text).out
           /\ Lex(text) \in Seq(Tokens)
<1>1. State(text) \in LexStates
  BY StartIs, LexConcat DEF State
<1> QED
  BY <1>1 DEF State, Lex, LexStates, Lexes

\* Without the pieces that are read differently, all operators were read.
LEMMA PlainReading ==
    ASSUME NEW text \in Seq(Chars), Placed(text), Plain(text)
    PROVE  /\ Simple(text)
           /\ Reading(Lex(text)) = Ats(Selected(Lex(text), Ops(Lex(text))))
<1>1. \A i \in 1..Len(text) : /\ text[i].t \notin {"$(", "x#", "alias"}
                              /\ text[i].t # "\n" => text[i].at # Nowhere
  BY DEF Plain, Has, Placed
<1>2. Simple(text)
  BY DEF Plain, Simple, Has
<1>3. AllRead(<< >>)
  BY DEF AllRead, Ops
<1>4. AllRead(Lex(text))
  BY <1>1, <1>3, StartIs, PlainRead DEF Lex
<1> QED
  BY <1>2, <1>4, TokensIs, ReadingAll

\* The types of the variables.
Types(s, n, e, p, b, c, q, t, g, m, i, l, o) ==
    /\ s \in Sources /\ n \in 0..MaxLines /\ e \in BOOLEAN
    /\ p \in {"prompt", "backslash", "body", "more", "parse", "walk", "run", "done"}
    /\ b \in Seq(Chars) /\ c \in Contexts /\ q \in Seq(Places) /\ t \in Seq(Tokens)
    /\ g \in Seq([op : Places, for : Places]) /\ m \subseteq {"rescanned", "cut"}
    /\ i \in BOOLEAN /\ l \in BOOLEAN /\ o \in BOOLEAN

LEMMA TypeIs ==
    /\ TypeOK <=> Types(source, nread, eof, pc, buf, ctx, queue, todo, given, mishap,
                        sigint, left, spoiled)
    /\ TypeOK' <=> Types(source', nread', eof', pc', buf', ctx', queue', todo', given',
                         mishap', sigint', left', spoiled')
BY DEF TypeOK, Types, Chars, Contexts

LEMMA BufPlaced ==
    /\ buf \in Seq(Chars) => (BufOK <=> Placed(buf))
    /\ buf' \in Seq(Chars) => (BufOK' <=> Placed(buf'))
<1>1. /\ buf \in Seq(Chars) => DOMAIN buf = 1..Len(buf)
      /\ buf' \in Seq(Chars) => DOMAIN buf' = 1..Len(buf')
  OBVIOUS
<1> QED
  BY <1>1 DEF BufOK, Placed

\* A step out of the walk, and one out of the reader.
LEMMA NotWalking ==
    ASSUME pc' \notin {"walk", "run"}, given' = << >>
    PROVE  WalkInv'
BY DEF WalkInv

LEMMA NotReading ==
    ASSUME pc' \notin {"backslash", "body", "more", "parse"}
    PROVE  ReadInv'
BY DEF ReadInv

\* A read takes one line, with its places.
LEMMA TookIs ==
    ASSUME TypeOK, CanRead, Took, NEW text \in Lines
    PROVE  /\ nread' \in 0..MaxLines /\ eof' \in BOOLEAN
           /\ At(nread', text) \in Seq(Chars) /\ At(nread', text) # << >>
           /\ Placed(At(nread', text)) /\ OneLine(At(nread', text))
<1>1. nread' \in 1..MaxLines /\ nread' \in 0..MaxLines /\ eof' \in BOOLEAN
  BY HeredocAssumption DEF TypeOK, CanRead, Took
<1>2. /\ At(nread', text) \in Seq(Chars) /\ At(nread', text) # << >>
      /\ \A i \in 1..Len(At(nread', text)) :
            At(nread', text)[i].t # "\n" /\ At(nread', text)[i].at # Nowhere
  BY <1>1, LineIs
<1> QED
  BY <1>1, <1>2 DEF Placed, OneLine

LEMMA PrimaryKeeps ==
    ASSUME IInv, NEW text \in Lines, ReadPrimary(text)
    PROVE  IInv'
<1> DEFINE b == At(nread', text)
<1>1. /\ pc = "prompt" /\ CanRead /\ Took /\ buf' = b /\ ctx' = Scan(b, NoLine)
      /\ pc' = Phase(ctx') /\ left' = (queue # << >>) /\ source' = source
      /\ todo' = todo /\ given' = given /\ mishap' = mishap /\ queue' = queue
      /\ sigint' = sigint /\ spoiled' = spoiled
  BY DEF ReadPrimary
<1>2. TypeOK /\ BufOK /\ ReadInv /\ WalkInv /\ QueueInv
  BY DEF IInv
<1>3. /\ nread' \in 0..MaxLines /\ eof' \in BOOLEAN /\ b \in Seq(Chars) /\ b # << >>
      /\ Placed(b) /\ OneLine(b)
  BY <1>1, <1>2, TookIs
<1> HIDE DEF b
<1>4. ctx' \in Contexts
  BY <1>1, <1>3, NoLineIs, ScanIs
<1>5. pc' \in {"backslash", "body", "more", "parse"}
  BY <1>1, PhaseIs
<1>6. TypeOK'
  BY <1>1, <1>2, <1>3, <1>4, <1>5, TypeIs DEF Types
<1>7. BufOK'
  BY <1>1, <1>3, BufPlaced
<1>8. WalkInv'
  BY <1>1, <1>2, <1>5, NotWalking DEF WalkInv
<1>9. QueueInv'
  BY <1>1, <1>2, <1>5 DEF QueueInv
<1>10. ReadInv'
  <2>1. Clean' => queue' = << >> /\ queue = << >>
    BY <1>1 DEF Clean
  <2>2. /\ Simple(b) /\ ~Scan(b, NoLine).bs => Read(<< >>, Scan(b, NoLine), State(b))
        /\ Past(<< >>, State(Front(b)))
    BY <1>3, FirstReads
  <2>3. Clean' /\ pc' = "backslash" /\ Simple(Front(buf')) => Past(queue', State(Front(buf')))
    BY <1>1, <2>1, <2>2
  <2>4. Clean' /\ pc' # "backslash" /\ Simple(buf') => Read(queue', ctx', State(buf'))
    <3>1. pc' # "backslash" => ~ctx'.bs
      BY <1>1, PhaseIs
    <3> QED
      BY <1>1, <2>1, <2>2, <3>1
  <2>5. Clean' /\ pc' = "parse" /\ Simple(buf') /\ Worded(State(buf').out) =>
           Reading(State(buf').out) = queue' /\ Begins(queue', Reading(State(buf').out))
    <3>1. pc' = "parse" => ctx'.pending = << >>
      BY <1>1, PhaseIs
    <3>2. queue' \in Seq(Places)
      BY <1>6, TypeIs DEF Types
    <3> QED
      BY <2>4, <3>1, <3>2, ReadQueued
  <2> QED
    BY <1>1, <2>3, <2>4, <2>5 DEF ReadInv
<1> QED
  BY <1>6, <1>7, <1>8, <1>9, <1>10 DEF IInv

\* No operator of the line has its body queued.
LEMMA DrainedIs ==
    ASSUME buf \in Seq(Chars), queue \in Seq(Places), Drained(buf) = {}
    PROVE  \A i \in 1..Len(buf), k \in 1..Len(queue) :
              buf[i].t \in Operators => buf[i].at # queue[k]
<1>1. SUFFICES ASSUME NEW i \in 1..Len(buf), NEW k \in 1..Len(queue), buf[i].t \in Operators,
                      buf[i].at = queue[k]
               PROVE  FALSE
  OBVIOUS
<1>2. i \in DOMAIN buf /\ k \in DOMAIN queue
  BY <1>1
<1>3. buf[i].at \in ToSet(queue)
  BY <1>1, <1>2 DEF ToSet
<1> QED
  BY <1>1, <1>2, <1>3 DEF Drained

LEMMA BackslashKeeps ==
    ASSUME IInv, NEW text \in Lines, JoinBackslash(text)
    PROVE  IInv'
<1> DEFINE b == At(nread', text)
           c == Front(buf) \o b
<1>1. /\ pc = "backslash" /\ CanRead /\ Took /\ buf' = c /\ ctx' = Scan(c, NoLine)
      /\ pc' = Phase(ctx') /\ left' = left /\ source' = source
      /\ todo' = todo /\ given' = given /\ queue' = queue
      /\ sigint' = sigint /\ spoiled' = spoiled
      /\ mishap' = mishap \cup {m \in {"rescanned"} : Drained(buf) # {} \/ BelowComment(buf)}
  BY DEF JoinBackslash
<1>2. TypeOK /\ BufOK /\ ReadInv /\ WalkInv /\ QueueInv
  BY DEF IInv
<1>3. /\ nread' \in 0..MaxLines /\ eof' \in BOOLEAN /\ b \in Seq(Chars) /\ b # << >>
      /\ Placed(b) /\ OneLine(b)
  BY <1>1, <1>2, TookIs
<1> HIDE DEF b
<1>4. /\ buf \in Seq(Chars) /\ queue \in Seq(Places) /\ Placed(buf)
      /\ mishap \subseteq {"rescanned", "cut"}
  BY <1>2, TypeIs, BufPlaced DEF Types
<1>5. Front(buf) \in Seq(Chars) /\ Placed(Front(buf)) /\ c \in Seq(Chars) /\ Placed(c)
  BY <1>3, <1>4, FrontParts, SimpleConcat, ConcatProperties
<1>6. Simple(c) => Simple(Front(buf))
  BY <1>3, <1>5, SimpleConcat
<1>7. Simple(Front(c)) => Simple(Front(buf))
  <2>1. Front(c) = Front(buf) \o Front(b) /\ Front(b) \in Seq(Chars)
    BY <1>3, <1>5, FrontConcat, FrontParts
  <2> QED
    BY <1>5, <2>1, SimpleConcat
<1>8. ASSUME Clean', Simple(Front(buf))
      PROVE  /\ Simple(c) /\ ~Scan(c, NoLine).bs => Read(queue, Scan(c, NoLine), State(c))
             /\ Past(queue, State(Front(c)))
  <2>1. Clean /\ Drained(buf) = {} /\ ~BelowComment(buf)
    BY <1>1, <1>8 DEF Clean
  <2>2. Past(queue, State(Front(buf)))
    BY <1>1, <1>2, <1>8, <2>1 DEF ReadInv
  <2>3. \A i \in 1..Len(buf), k \in 1..Len(queue) :
           buf[i].t \in Operators => buf[i].at # queue[k]
    BY <1>4, <2>1, DrainedIs
  <2> QED
    BY <1>3, <1>4, <2>1, <2>2, <2>3, RescanReads
<1> HIDE DEF c
<1>9. ctx' \in Contexts
  BY <1>1, <1>5, NoLineIs, ScanIs
<1>10. pc' \in {"backslash", "body", "more", "parse"}
  BY <1>1, PhaseIs
<1>11. TypeOK'
  <2>1. mishap' \subseteq {"rescanned", "cut"}
    BY <1>1, <1>4
  <2> QED
    BY <1>1, <1>2, <1>3, <1>5, <1>9, <1>10, <2>1, TypeIs DEF Types
<1>12. BufOK'
  BY <1>1, <1>5, BufPlaced
<1>13. WalkInv'
  BY <1>1, <1>2, <1>10, NotWalking DEF WalkInv
<1>14. QueueInv'
  BY <1>1, <1>2, <1>10 DEF QueueInv
<1>15. ReadInv'
  <2>1. Clean' /\ pc' = "backslash" /\ Simple(Front(buf')) => Past(queue', State(Front(buf')))
    BY <1>1, <1>7, <1>8
  <2>2. Clean' /\ pc' # "backslash" /\ Simple(buf') => Read(queue', ctx', State(buf'))
    <3>1. pc' # "backslash" => ~ctx'.bs
      BY <1>1, PhaseIs
    <3> QED
      BY <1>1, <1>6, <1>8, <3>1
  <2>3. Clean' /\ pc' = "parse" /\ Simple(buf') /\ Worded(State(buf').out) =>
           Reading(State(buf').out) = queue' /\ Begins(queue', Reading(State(buf').out))
    <3>1. pc' = "parse" => ctx'.pending = << >>
      BY <1>1, PhaseIs
    <3>2. queue' \in Seq(Places)
      BY <1>11, TypeIs DEF Types
    <3> QED
      BY <2>2, <3>1, <3>2, ReadQueued
  <2> QED
    BY <1>1, <2>1, <2>2, <2>3 DEF ReadInv
<1> QED
  BY <1>11, <1>12, <1>13, <1>14, <1>15 DEF IInv

LEMMA JoinKeeps ==
    ASSUME IInv, NEW text \in Lines, JoinLine(text)
    PROVE  IInv'
<1> DEFINE b == At(nread', text)
           c == buf \o Newline \o b
<1>1. /\ pc = "more" /\ CanRead /\ Took /\ buf' = c /\ ctx' = Scan(b, ctx)
      /\ pc' = Phase(ctx') /\ left' = left /\ source' = source
      /\ todo' = todo /\ given' = given /\ queue' = queue
      /\ sigint' = sigint /\ spoiled' = spoiled /\ mishap' = mishap
  BY DEF JoinLine
<1>2. TypeOK /\ BufOK /\ ReadInv /\ WalkInv /\ QueueInv
  BY DEF IInv
<1>3. /\ nread' \in 0..MaxLines /\ eof' \in BOOLEAN /\ b \in Seq(Chars) /\ b # << >>
      /\ Placed(b) /\ OneLine(b)
  BY <1>1, <1>2, TookIs
<1> HIDE DEF b
<1>4. buf \in Seq(Chars) /\ queue \in Seq(Places) /\ Placed(buf) /\ ctx \in Contexts
  BY <1>2, TypeIs, BufPlaced DEF Types
<1>5. Newline \in Seq(Chars) /\ Placed(Newline)
  BY JointIs DEF Placed
<1>6. /\ buf \o Newline \in Seq(Chars) /\ c \in Seq(Chars) /\ Placed(c)
      /\ Simple(c) <=> Simple(buf \o Newline) /\ Simple(b)
      /\ Simple(buf \o Newline) <=> Simple(buf) /\ Simple(Newline)
  BY <1>3, <1>4, <1>5, SimpleConcat, ConcatProperties
<1>7. Simple(Front(c)) => Simple(buf)
  <2>1. Front(c) = (buf \o Newline) \o Front(b) /\ Front(b) \in Seq(Chars)
    BY <1>3, <1>6, FrontConcat, FrontParts
  <2>2. Simple((buf \o Newline) \o Front(b)) => Simple(buf \o Newline)
    BY <1>6, <2>1, SimpleConcat
  <2> QED
    BY <1>6, <2>1, <2>2
<1>8. ASSUME Clean', Simple(buf)
      PROVE  /\ Simple(b) /\ ~Scan(b, ctx).bs => Read(queue, Scan(b, ctx), State(c))
             /\ Past(queue, State(Front(c)))
  <2>1. Clean
    BY <1>1, <1>8 DEF Clean
  <2>2. Read(queue, ctx, State(buf)) /\ pc = Phase(ctx)
    BY <1>1, <1>2, <1>8, <2>1 DEF ReadInv
  <2>3. ctx.pending = << >>
    BY <1>1, <2>2, PhaseIs
  <2> QED
    BY <1>3, <1>4, <2>2, <2>3, JoinReads
<1> HIDE DEF c
<1>9. ctx' \in Contexts
  BY <1>1, <1>3, <1>4, ScanIs
<1>10. pc' \in {"backslash", "body", "more", "parse"}
  BY <1>1, PhaseIs
<1>11. TypeOK'
  BY <1>1, <1>2, <1>3, <1>6, <1>9, <1>10, TypeIs DEF Types
<1>12. BufOK'
  BY <1>1, <1>6, BufPlaced
<1>13. WalkInv'
  BY <1>1, <1>2, <1>10, NotWalking DEF WalkInv
<1>14. QueueInv'
  BY <1>1, <1>2, <1>10 DEF QueueInv
<1>15. ReadInv'
  <2>1. Clean' /\ pc' = "backslash" /\ Simple(Front(buf')) => Past(queue', State(Front(buf')))
    BY <1>1, <1>7, <1>8
  <2>2. Clean' /\ pc' # "backslash" /\ Simple(buf') => Read(queue', ctx', State(buf'))
    <3>1. pc' # "backslash" => ~ctx'.bs
      BY <1>1, PhaseIs
    <3> QED
      BY <1>1, <1>6, <1>8, <3>1
  <2>3. Clean' /\ pc' = "parse" /\ Simple(buf') /\ Worded(State(buf').out) =>
           Reading(State(buf').out) = queue' /\ Begins(queue', Reading(State(buf').out))
    <3>1. pc' = "parse" => ctx'.pending = << >>
      BY <1>1, PhaseIs
    <3>2. queue' \in Seq(Places)
      BY <1>11, TypeIs DEF Types
    <3> QED
      BY <2>2, <3>1, <3>2, ReadQueued
  <2> QED
    BY <1>1, <2>1, <2>2, <2>3 DEF ReadInv
<1> QED
  BY <1>11, <1>12, <1>13, <1>14, <1>15 DEF IInv

\* The input ends at the prompt, after a backslash or in what is open.
LEMMA EndKeeps ==
    ASSUME IInv, EndOfInput \/ EndAfterBackslash \/ EndInMore
    PROVE  IInv'
<1>1. TypeOK /\ BufOK /\ ReadInv /\ WalkInv /\ QueueInv
  BY DEF IInv
<1>2. /\ buf \in Seq(Chars) /\ queue \in Seq(Places) /\ Placed(buf) /\ ctx \in Contexts
      /\ mishap \subseteq {"rescanned", "cut"}
  BY <1>1, TypeIs, BufPlaced DEF Types
<1>3. Ended => nread' = nread /\ eof' \in BOOLEAN
  BY DEF Ended
<1>4. CASE EndOfInput
  <2>1. /\ pc = "prompt" /\ pc' = "done" /\ nread' = nread /\ eof' \in BOOLEAN
        /\ source' = source /\ buf' = buf /\ ctx' = ctx /\ todo' = todo /\ given' = given
        /\ mishap' = mishap /\ queue' = queue /\ sigint' = sigint /\ left' = left
        /\ spoiled' = spoiled
    BY <1>3, <1>4 DEF EndOfInput, line
  <2>2. TypeOK'
    BY <1>1, <2>1, TypeIs DEF Types
  <2>3. BufOK'
    BY <1>1, <2>1 DEF BufOK
  <2>4. WalkInv' /\ ReadInv'
    BY <1>1, <2>1, NotWalking, NotReading DEF WalkInv
  <2>5. QueueInv'
    BY <1>1, <2>1 DEF QueueInv
  <2> QED
    BY <2>2, <2>3, <2>4, <2>5 DEF IInv
<1>5. CASE EndAfterBackslash
  <2>1. /\ pc = "backslash" /\ pc' = "parse" /\ nread' = nread /\ eof' \in BOOLEAN
        /\ source' = source /\ buf' = Front(buf) /\ ctx' = NoLine /\ todo' = todo
        /\ given' = given /\ mishap' = mishap \cup {"cut"} /\ queue' = queue
        /\ sigint' = sigint /\ left' = left /\ spoiled' = spoiled
    BY <1>3, <1>5 DEF EndAfterBackslash
  <2>2. Front(buf) \in Seq(Chars) /\ Placed(Front(buf))
    BY <1>2, FrontParts
  <2>3. TypeOK'
    <3>1. mishap' \subseteq {"rescanned", "cut"}
      BY <1>2, <2>1
    <3> QED
      BY <1>1, <2>1, <2>2, <3>1, NoLineIs, TypeIs DEF Types
  <2>4. BufOK'
    BY <2>1, <2>2, BufPlaced
  <2>5. WalkInv'
    BY <1>1, <2>1, NotWalking DEF WalkInv
  <2>6. QueueInv'
    BY <1>1, <2>1 DEF QueueInv
  <2>7. ReadInv'
    <3>1. ASSUME Clean', Simple(buf'), Worded(State(buf').out)
          PROVE  Begins(queue', Reading(State(buf').out))
      <4>1. Clean
        BY <2>1, <3>1 DEF Clean
      <4>2. Past(queue, State(Front(buf)))
        BY <1>1, <2>1, <3>1, <4>1 DEF ReadInv
      <4>3. ~Broken(State(Front(buf)))
        BY <2>1, <3>1, BrokenUnworded
      <4> QED
        BY <2>1, <4>2, <4>3 DEF Past
    <3>2. mishap' # {}
      BY <2>1
    <3> QED
      BY <2>1, <3>1, <3>2 DEF ReadInv
  <2> QED
    BY <2>3, <2>4, <2>5, <2>6, <2>7 DEF IInv
<1>6. CASE EndInMore
  <2>1. /\ pc = "more" /\ pc' = "parse" /\ nread' = nread /\ eof' \in BOOLEAN
        /\ source' = source /\ buf' = buf /\ ctx' = ctx /\ todo' = todo /\ given' = given
        /\ mishap' = mishap /\ queue' = queue /\ sigint' = sigint /\ left' = left
        /\ spoiled' = spoiled
    BY <1>3, <1>6 DEF EndInMore, line
  <2>2. TypeOK'
    BY <1>1, <2>1, TypeIs DEF Types
  <2>3. BufOK'
    BY <1>1, <2>1 DEF BufOK
  <2>4. WalkInv'
    BY <1>1, <2>1, NotWalking DEF WalkInv
  <2>5. QueueInv'
    BY <1>1, <2>1 DEF QueueInv
  <2>6. ReadInv'
    <3>1. ASSUME Clean', Simple(buf'), Worded(State(buf').out)
          PROVE  Reading(State(buf').out) = queue' /\ Begins(queue', Reading(State(buf').out))
      <4>1. Clean
        BY <2>1, <3>1 DEF Clean
      <4>2. Read(queue, ctx, State(buf)) /\ pc = Phase(ctx)
        BY <1>1, <2>1, <3>1, <4>1 DEF ReadInv
      <4>3. ctx.pending = << >>
        BY <2>1, <4>2, PhaseIs
      <4> QED
        BY <1>2, <2>1, <3>1, <4>2, <4>3, ReadQueued
    <3> QED
      BY <2>1, <3>1 DEF ReadInv
  <2> QED
    BY <2>2, <2>3, <2>4, <2>5, <2>6 DEF IInv
<1> QED
  BY <1>4, <1>5, <1>6

\* The body of the first pending operator is queued.
LEMMA BodyKeeps ==
    ASSUME IInv, pc = "body", BodyDone, nread' \in 0..MaxLines, eof' \in BOOLEAN
    PROVE  IInv'
<1>1. TypeOK /\ BufOK /\ ReadInv /\ WalkInv /\ QueueInv
  BY DEF IInv
<1>2. /\ buf \in Seq(Chars) /\ queue \in Seq(Places) /\ ctx \in Contexts
  BY <1>1, TypeIs DEF Types
<1> DEFINE q == Append(queue, Head(ctx.pending).at)
           c == [ctx EXCEPT !.pending = Tail(@)]
<1>3. /\ queue' = q /\ ctx' = c /\ pc' = Phase(c)
      /\ source' = source /\ buf' = buf /\ todo' = todo /\ given' = given
      /\ mishap' = mishap /\ sigint' = sigint /\ left' = left
      /\ spoiled' = spoiled
  BY DEF BodyDone
<1>4. pc = Phase(ctx) /\ ctx.pending # << >> /\ ~ctx.bs
  <2>1. pc = Phase(ctx)
    BY <1>1 DEF ReadInv
  <2> QED
    BY <2>1, PhaseIs
<1>5. q \in Seq(Places) /\ c \in Contexts /\ ~c.bs
  <2>1. ctx.pending \in Seq(Redirs)
    BY <1>2 DEF Contexts
  <2>2. Head(ctx.pending) \in Redirs /\ Tail(ctx.pending) \in Seq(Redirs)
    BY <1>4, <2>1, HeadTailProperties
  <2>3. Head(ctx.pending).at \in Places
    BY <2>2, TokenAts
  <2>4. q \in Seq(Places)
    BY <1>2, <2>3, AppendProperties
  <2>5. c \in Contexts /\ ~c.bs
    BY <1>2, <1>4, <2>2 DEF Contexts
  <2> QED
    BY <2>4, <2>5
<1>6. \A l : Read(queue, ctx, l) => Read(q, c, l)
  BY <1>2, <1>4, ReadMoved
<1> HIDE DEF q, c
<1>7. pc' \in {"body", "more", "parse"}
  BY <1>3, <1>5, PhaseIs
<1>8. TypeOK'
  BY <1>1, <1>3, <1>5, <1>7, TypeIs DEF Types
<1>9. BufOK'
  BY <1>1, <1>3 DEF BufOK
<1>10. WalkInv'
  BY <1>1, <1>3, <1>7, NotWalking DEF WalkInv
<1>11. QueueInv'
  BY <1>1, <1>3, <1>7 DEF QueueInv
<1>12. ReadInv'
  <2>1. ASSUME Clean', Simple(buf') PROVE Read(queue', ctx', State(buf'))
    <3>1. Clean
      BY <1>3, <2>1 DEF Clean
    <3>2. Read(queue, ctx, State(buf))
      BY <1>1, <1>3, <2>1, <3>1 DEF ReadInv
    <3> QED
      BY <1>3, <1>6, <3>2
  <2>2. Clean' /\ pc' = "parse" /\ Simple(buf') /\ Worded(State(buf').out) =>
           Reading(State(buf').out) = queue' /\ Begins(queue', Reading(State(buf').out))
    <3>1. pc' = "parse" => ctx'.pending = << >>
      BY <1>3, PhaseIs
    <3> QED
      BY <1>3, <1>5, <2>1, <3>1, ReadQueued
  <2> QED
    BY <1>3, <1>7, <2>1, <2>2 DEF ReadInv
<1> QED
  BY <1>8, <1>9, <1>10, <1>11, <1>12 DEF IInv

\* A step that leaves the line as it is, and the queue.
LEMMA SameLine ==
    ASSUME IInv, nread' \in 0..MaxLines, eof' \in BOOLEAN, sigint' \in BOOLEAN,
           UNCHANGED <<source, pc, line, queue, left, spoiled>>
    PROVE  IInv'
<1>1. TypeOK /\ BufOK /\ ReadInv /\ WalkInv /\ QueueInv
  BY DEF IInv
<1>2. /\ source' = source /\ pc' = pc /\ buf' = buf /\ ctx' = ctx /\ todo' = todo
      /\ given' = given /\ mishap' = mishap /\ queue' = queue /\ left' = left
      /\ spoiled' = spoiled
  BY DEF line
<1>3. TypeOK'
  BY <1>1, <1>2, TypeIs DEF Types
<1>4. BufOK' /\ QueueInv'
  BY <1>1, <1>2 DEF BufOK, QueueInv
<1>5. Clean' <=> Clean
  BY <1>2 DEF Clean
<1>6. ReadInv'
  BY <1>1, <1>2, <1>5 DEF ReadInv
<1>7. WalkInv'
  BY <1>1, <1>2, <1>5 DEF WalkInv
<1> QED
  BY <1>3, <1>4, <1>6, <1>7 DEF IInv

\* The line is over.
LEMMA ForgetKeeps ==
    ASSUME IInv, Forget, nread' \in 0..MaxLines, eof' \in BOOLEAN, sigint' \in BOOLEAN,
           source' = source, queue' = queue, left' = left, spoiled' \in BOOLEAN,
           spoiled => spoiled', source # "command" /\ ~spoiled' => queue = << >>
    PROVE  IInv'
<1>1. TypeOK /\ BufOK /\ ReadInv /\ WalkInv /\ QueueInv
  BY DEF IInv
<1>2. /\ buf' = << >> /\ ctx' = NoLine /\ todo' = << >> /\ given' = << >>
      /\ mishap' = {} /\ pc' \in {"prompt", "done"}
      /\ source = "command" => pc' = "done"
  BY DEF Forget
<1>3. /\ << >> \in Seq(Chars) /\ << >> \in Seq(Tokens)
      /\ << >> \in Seq([op : Places, for : Places])
  BY EmptySeq
<1>4. TypeOK'
  BY <1>1, <1>2, <1>3, NoLineIs, TypeIs DEF Types
<1>5. BufOK'
  BY <1>2 DEF BufOK
<1>6. ReadInv' /\ WalkInv'
  BY <1>2, NotReading, NotWalking
<1>7. QueueInv'
  BY <1>1, <1>2 DEF QueueInv
<1> QED
  BY <1>4, <1>5, <1>6, <1>7 DEF IInv

LEMMA ParseKeeps ==
    ASSUME IInv, Parse
    PROVE  IInv'
<1> DEFINE toks == Lex(buf)
<1>1. TypeOK /\ BufOK /\ ReadInv /\ WalkInv /\ QueueInv
  BY DEF IInv
<1>2. /\ buf \in Seq(Chars) /\ queue \in Seq(Places) /\ Placed(buf) /\ nread \in 0..MaxLines
      /\ eof \in BOOLEAN /\ sigint \in BOOLEAN /\ spoiled \in BOOLEAN
  BY <1>1, TypeIs, BufPlaced DEF Types
<1>3. /\ pc = "parse" /\ source' = source /\ nread' = nread /\ eof' = eof
      /\ queue' = queue /\ left' = left
  BY DEF Parse
<1>4. toks \in Seq(Tokens) /\ toks = State(buf).out
  BY <1>2, TokensIs
<1>5. \/ /\ toks # << >> /\ Parses(toks) /\ todo' = WalkOrder(toks) /\ pc' = "walk"
         /\ sigint' = FALSE /\ buf' = buf /\ ctx' = ctx /\ given' = given
         /\ mishap' = mishap /\ spoiled' = spoiled
      \/ Forget /\ sigint' = sigint /\ spoiled' = (spoiled \/ queue # << >>)
  BY DEF Parse
<1>6. CASE Forget /\ sigint' = sigint /\ spoiled' = (spoiled \/ queue # << >>)
  BY <1>2, <1>3, <1>6, ForgetKeeps
<1>7. CASE /\ toks # << >> /\ Parses(toks) /\ todo' = WalkOrder(toks) /\ pc' = "walk"
           /\ sigint' = FALSE /\ buf' = buf /\ ctx' = ctx /\ given' = given
           /\ mishap' = mishap /\ spoiled' = spoiled
  <2>1. WalkOrder(toks) \in Seq(Tokens)
    BY <1>4, WalkTyped
  <2>2. TypeOK'
    BY <1>1, <1>3, <1>7, <2>1, TypeIs DEF Types
  <2>3. BufOK' /\ QueueInv'
    BY <1>1, <1>3, <1>7 DEF BufOK, QueueInv
  <2>4. ReadInv'
    BY <1>7, NotReading
  <2>5. Clean' <=> Clean
    BY <1>3, <1>7 DEF Clean
  <2>6. given' = << >>
    BY <1>1, <1>3, <1>7 DEF WalkInv
  <2>7. Worded(toks)
    BY <1>7 DEF Parses, Worded
  <2>8. ASSUME Clean, Simple(buf)
        PROVE  Begins(queue, Reading(toks)) /\ Len(queue) <= Len(WalkOrder(toks))
    <3>1. Begins(queue, Reading(toks))
      BY <1>1, <1>3, <1>4, <2>7, <2>8 DEF ReadInv
    <3>2. Len(Reading(toks)) <= Len(WalkOrder(toks))
      BY <1>4, <1>7, ReadingWalk
    <3>3. /\ Len(queue) <= Len(Reading(toks)) /\ Len(queue) \in Nat
          /\ Len(Reading(toks)) \in Nat /\ Len(WalkOrder(toks)) \in Nat
      BY <1>2, <2>1, <3>1 DEF Begins
    <3> HIDE DEF toks
    <3> QED
      BY <3>1, <3>2, <3>3
  <2>9. ASSUME Clean, Plain(buf), Flat(toks)
        PROVE  Begins(queue, Ats(WalkOrder(toks)))
    <3>1. Simple(buf) /\ Reading(toks) = Ats(Selected(toks, Ops(toks)))
      BY <1>2, <2>9, PlainReading
    <3>2. WalkOrder(toks) = Selected(toks, Ops(toks))
      BY <1>4, <1>7, <2>9, WalkFlat
    <3> QED
      BY <2>8, <2>9, <3>1, <3>2
  <2>10. Lex(buf') = toks
    BY <1>7
  <2> HIDE DEF toks
  <2>11. WalkInv'
    BY <1>3, <1>7, <2>5, <2>6, <2>8, <2>9, <2>10 DEF WalkInv
  <2> QED
    BY <2>2, <2>3, <2>4, <2>11 DEF IInv
<1> QED
  BY <1>5, <1>6, <1>7

\* What is left of what begins another sequence.
LEMMA BeginsTail ==
    ASSUME NEW a \in Seq(Places), a # << >>, NEW t \in Seq(Tokens), t # << >>,
           Begins(a, Ats(t))
    PROVE  Head(a) = Head(t).at /\ Begins(Tail(a), Ats(Tail(t)))
<1>1. /\ Head(a) = a[1] /\ Tail(a) \in Seq(Places) /\ Len(Tail(a)) = Len(a) - 1
      /\ \A i \in 1..Len(Tail(a)) : Tail(a)[i] = a[i + 1]
      /\ Len(a) \in Nat /\ Len(a) # 0
  BY HeadTailProperties, EmptySeq
<1>2. /\ Head(t) = t[1] /\ Tail(t) \in Seq(Tokens) /\ Len(Tail(t)) = Len(t) - 1
      /\ \A i \in 1..Len(Tail(t)) : Tail(t)[i] = t[i + 1]
      /\ Len(t) \in Nat /\ Len(t) # 0
  BY HeadTailProperties, EmptySeq
<1>3. /\ Len(Ats(t)) = Len(t) /\ \A i \in 1..Len(t) : Ats(t)[i] = t[i].at
      /\ Ats(Tail(t)) \in Seq(Places) /\ Len(Ats(Tail(t))) = Len(Tail(t))
      /\ \A i \in 1..Len(Tail(t)) : Ats(Tail(t))[i] = Tail(t)[i].at
  BY <1>2, AtsIs, TokenAts
<1>4. Len(a) <= Len(Ats(t)) /\ \A i \in 1..Len(a) : a[i] = Ats(t)[i]
  BY DEF Begins
<1> DEFINE b == Tail(a)
           u == Tail(t)
<1>5. Head(a) = Head(t).at
  <2>1. 1 \in 1..Len(a) /\ 1 \in 1..Len(t)
    BY <1>1, <1>2
  <2> QED
    BY <1>1, <1>2, <1>3, <1>4, <2>1
<1>6. Len(b) <= Len(Ats(u))
  <2> DEFINE j == Len(a)
             k == Len(t)
  <2>1. j \in Nat /\ k \in Nat /\ j # 0 /\ k # 0 /\ j <= k
    BY <1>1, <1>2, <1>3, <1>4
  <2>2. Len(b) = j - 1 /\ Len(Ats(u)) = k - 1
    BY <1>1, <1>2, <1>3
  <2> HIDE DEF b, u, j, k
  <2> QED
    BY <2>1, <2>2
<1>7. ASSUME NEW i \in 1..Len(b) PROVE b[i] = Ats(u)[i]
  <2>1. i + 1 \in 1..Len(a)
    BY <1>1
  <2>2. i + 1 \in 1..Len(t)
    BY <1>1, <1>2, <1>3, <1>4, <2>1
  <2>3. i \in 1..Len(u)
    BY <1>1, <1>2, <2>2
  <2> QED
    BY <1>1, <1>2, <1>3, <1>4, <2>1, <2>2, <2>3
<1> QED
  BY <1>1, <1>3, <1>5, <1>6, <1>7 DEF Begins

\* A redirection gets a body, from the queue or, when that is empty, its own.
LEMMA GiveKeeps ==
    ASSUME IInv, pc = "walk", todo # << >>, NEW for, Give(for),
           nread' \in 0..MaxLines, eof' \in BOOLEAN,
           \/ queue # << >> /\ for = Head(queue) /\ queue' = Tail(queue)
           \/ queue = << >> /\ for = Head(todo).at /\ queue' = queue
    PROVE  IInv'
<1> DEFINE g == [op |-> Head(todo).at, for |-> for]
           D == [op : Places, for : Places]
<1>1. TypeOK /\ BufOK /\ ReadInv /\ WalkInv /\ QueueInv
  BY DEF IInv
<1>2. /\ queue \in Seq(Places) /\ todo \in Seq(Tokens) /\ given \in Seq(D)
  BY <1>1, TypeIs DEF Types
<1>3. /\ given' = Append(given, g) /\ todo' = Tail(todo) /\ source' = source /\ pc' = pc
      /\ buf' = buf /\ ctx' = ctx /\ mishap' = mishap /\ sigint' = sigint /\ left' = left
      /\ spoiled' = spoiled
  BY DEF Give
<1>4. /\ Head(todo) \in Tokens /\ Head(todo).at \in Places /\ Tail(todo) \in Seq(Tokens)
      /\ Len(Tail(todo)) = Len(todo) - 1 /\ Len(todo) \in Nat
  BY <1>2, HeadTailProperties, TokenAts
<1>5. /\ for \in Places /\ queue' \in Seq(Places) /\ Len(queue') \in Nat
      /\ queue # << >> => Len(queue') = Len(queue) - 1 /\ Len(queue) \in Nat
      /\ queue = << >> => queue' = << >>
  <2>1. queue # << >> => /\ Head(queue) \in Places /\ Tail(queue) \in Seq(Places)
                         /\ Len(Tail(queue)) = Len(queue) - 1
    BY <1>2, HeadTailProperties
  <2>2. queue' \in Seq(Places) /\ for \in Places
    BY <1>2, <1>4, <2>1
  <2> QED
    BY <1>2, <2>1, <2>2
<1>6. g \in D
  BY <1>4, <1>5
<1>7. g.for = for /\ g.op = Head(todo).at
  OBVIOUS
<1> HIDE DEF g, D
<1>8. /\ Append(given, g) \in Seq(D) /\ Len(Append(given, g)) = Len(given) + 1
      /\ Append(given, g)[Len(given) + 1] = g /\ Len(given) \in Nat
      /\ \A i \in 1..Len(given) : Append(given, g)[i] = given[i]
  BY <1>2, <1>6, AppendProperties
<1>9. TypeOK'
  BY <1>1, <1>3, <1>4, <1>5, <1>8, TypeIs DEF Types, D
<1>10. BufOK'
  BY <1>1, <1>3 DEF BufOK
<1>11. ReadInv'
  BY <1>3, NotReading
<1>12. QueueInv'
  BY <1>1, <1>3, <1>5 DEF QueueInv
<1>13. Clean' <=> Clean
  BY <1>3 DEF Clean
<1>14. ASSUME Clean, Simple(buf) PROVE Len(queue') <= Len(todo')
  <2>1. Len(queue) <= Len(todo)
    BY <1>1, <1>14 DEF WalkInv
  <2>2. CASE queue # << >>
    <3> DEFINE j == Len(queue)
               k == Len(todo)
    <3>1. j \in Nat /\ k \in Nat /\ j <= k /\ Len(queue') = j - 1 /\ Len(todo') = k - 1
      BY <1>3, <1>4, <1>5, <2>1, <2>2
    <3> HIDE DEF j, k
    <3> QED
      BY <3>1
  <2>3. CASE queue = << >>
    <3>1. Len(queue') = 0 /\ Len(todo') \in Nat
      BY <1>3, <1>4, <1>5, <2>3, EmptySeq
    <3> QED
      BY <3>1
  <2> QED
    BY <2>2, <2>3
<1>15. ASSUME Clean, Plain(buf), Flat(Lex(buf))
       PROVE  Begins(queue', Ats(todo')) /\ \A i \in DOMAIN given' : given'[i].for = given'[i].op
  <2>1. Begins(queue, Ats(todo)) /\ \A i \in DOMAIN given : given[i].for = given[i].op
    BY <1>1, <1>15 DEF WalkInv
  <2>2. for = Head(todo).at /\ Begins(queue', Ats(todo'))
    <3>1. CASE queue # << >>
      <4>1. Head(queue) = Head(todo).at /\ Begins(Tail(queue), Ats(Tail(todo)))
        BY <1>2, <2>1, <3>1, BeginsTail
      <4> QED
        BY <1>3, <3>1, <4>1
    <3>2. CASE queue = << >>
      <4>1. Ats(Tail(todo)) \in Seq(Places) /\ Len(Ats(Tail(todo))) \in Nat
        <5>1. Ats(Tail(todo)) \in Seq(Places)
          BY <1>4, AtsIs, TokenAts
        <5> QED
          BY <5>1
      <4>2. Begins(<< >>, Ats(Tail(todo)))
        BY <4>1, EmptySeq DEF Begins
      <4> QED
        BY <1>3, <3>2, <4>2
    <3> QED
      BY <3>1, <3>2
  <2>3. ASSUME NEW i \in DOMAIN given' PROVE given'[i].for = given'[i].op
    <3>1. i \in 1..(Len(given) + 1)
      BY <1>3, <1>8
    <3>2. CASE i = Len(given) + 1
      BY <1>3, <1>7, <1>8, <2>2, <3>2
    <3>3. CASE i # Len(given) + 1
      <4>1. i \in 1..Len(given) /\ i \in DOMAIN given
        BY <1>2, <1>8, <3>1, <3>3
      <4> QED
        BY <1>3, <1>8, <2>1, <4>1
    <3> QED
      BY <3>2, <3>3
  <2> QED
    BY <2>2, <2>3
<1>16. WalkInv'
  BY <1>3, <1>13, <1>14, <1>15 DEF WalkInv
<1> QED
  BY <1>9, <1>10, <1>11, <1>12, <1>16 DEF IInv

\* The walk is over.
LEMMA CollectedKeeps ==
    ASSUME IInv, Collected
    PROVE  IInv'
<1>1. TypeOK /\ BufOK /\ ReadInv /\ WalkInv /\ QueueInv
  BY DEF IInv
<1>2. /\ pc = "walk" /\ todo = << >> /\ pc' = "run" /\ sigint' = FALSE
      /\ source' = source /\ nread' = nread /\ eof' = eof /\ buf' = buf /\ ctx' = ctx
      /\ todo' = todo /\ given' = given /\ mishap' = mishap /\ queue' = queue
      /\ left' = left /\ spoiled' = spoiled
  BY DEF Collected, line
<1>3. TypeOK'
  BY <1>1, <1>2, TypeIs DEF Types
<1>4. BufOK' /\ QueueInv' /\ ReadInv'
  BY <1>1, <1>2, NotReading DEF BufOK, QueueInv
<1>5. Clean' <=> Clean
  BY <1>2 DEF Clean
<1>6. WalkInv'
  BY <1>1, <1>2, <1>5 DEF WalkInv
<1> QED
  BY <1>3, <1>4, <1>6 DEF IInv

\* The line is run.
LEMMA ExecuteKeeps ==
    ASSUME IInv, Execute
    PROVE  IInv'
<1>1. TypeOK /\ BufOK /\ ReadInv /\ WalkInv /\ QueueInv
  BY DEF IInv
<1>2. /\ queue \in Seq(Places) /\ nread \in 0..MaxLines /\ eof \in BOOLEAN
      /\ sigint \in BOOLEAN /\ spoiled \in BOOLEAN /\ left \in BOOLEAN
  BY <1>1, TypeIs DEF Types
<1>3. /\ pc = "run" /\ Forget /\ source' = source /\ nread' = nread /\ eof' = eof
      /\ queue' = queue /\ sigint' = sigint /\ left' = left
      /\ spoiled' = (spoiled \/ "rescanned" \in mishap \/ Has(buf, {"$(", "x#"}))
  BY DEF Execute
<1>4. ASSUME source # "command", ~spoiled' PROVE queue = << >>
  <2>1. ~spoiled /\ ~left /\ Clean /\ Simple(buf)
    BY <1>1, <1>2, <1>3, <1>4 DEF Clean, Simple, QueueInv
  <2>2. Len(queue) <= Len(todo) /\ todo = << >>
    BY <1>1, <1>3, <2>1 DEF WalkInv
  <2>3. Len(todo) = 0 /\ Len(queue) \in Nat
    BY <1>2, <2>2, EmptySeq
  <2> QED
    BY <1>2, <2>2, <2>3, EmptySeq
<1> DEFINE u == Has(buf, {"$(", "x#"})
<1>5. u \in BOOLEAN /\ ("rescanned" \in mishap) \in BOOLEAN
  BY DEF Has
<1>6. spoiled' \in BOOLEAN /\ (spoiled => spoiled')
  <2> HIDE DEF u
  <2> QED
    BY <1>2, <1>3, <1>5 DEF u
<1> QED
  BY <1>2, <1>3, <1>4, <1>6, ForgetKeeps

\* The line is given up: nothing is queued.
LEMMA AbortKeeps ==
    ASSUME IInv, Abort
    PROVE  IInv'
<1>1. /\ nread \in 0..MaxLines /\ eof \in BOOLEAN /\ spoiled \in BOOLEAN
  BY TypeIs DEF IInv, Types
<1>2. /\ queue = << >> /\ Forget /\ source' = source /\ nread' = nread /\ eof' = eof
      /\ queue' = queue /\ sigint' = FALSE /\ left' = left /\ spoiled' = spoiled
  BY DEF Abort, Unqueued
<1> QED
  BY <1>1, <1>2, ForgetKeeps

-------------------------------------------------------------------------------
(* The theorems.                                                           *)

\* The shell starts in the invariant.
LEMMA Starting == Init => IInv
<1> SUFFICES ASSUME Init PROVE IInv
  OBVIOUS
<1>1. /\ source \in Sources /\ eof = FALSE /\ ctx = NoLine /\ queue = << >> /\ todo = << >>
      /\ given = << >> /\ sigint = FALSE /\ left = FALSE /\ mishap = {} /\ spoiled = FALSE
  BY DEF Init
<1>2. /\ << >> \in Seq(Chars) /\ << >> \in Seq(Tokens) /\ << >> \in Seq(Places)
      /\ << >> \in Seq([op : Places, for : Places])
  BY EmptySeq
<1>3. /\ nread \in 0..MaxLines /\ buf \in Seq(Chars) /\ Placed(buf)
      /\ \/ source = "command" /\ pc = "parse"
         \/ source # "command" /\ pc = "prompt"
  <2>1. 1 \in 1..MaxLines /\ 1 \in 0..MaxLines /\ 0 \in 0..MaxLines
    BY HeredocAssumption
  <2>2. CASE source = "command"
    <3>1. nread = 1 /\ pc = "parse" /\ \E text \in Lines : buf = At(1, text)
      BY <2>2 DEF Init
    <3>2. PICK text \in Lines : buf = At(1, text)
      BY <3>1
    <3>3. buf \in Seq(Chars) /\ \A i \in 1..Len(buf) : buf[i].at # Nowhere
      BY <2>1, <3>2, LineIs
    <3>4. Placed(buf)
      BY <3>3 DEF Placed
    <3> QED
      BY <2>1, <2>2, <3>1, <3>3, <3>4
  <2>3. CASE source # "command"
    <3>1. nread = 0 /\ pc = "prompt" /\ buf = << >>
      BY <2>3 DEF Init
    <3>2. Placed(<< >>)
      BY DEF Placed
    <3> QED
      BY <1>2, <2>1, <2>3, <3>1, <3>2
  <2> QED
    BY <2>2, <2>3
<1>4. TypeOK
  BY <1>1, <1>2, <1>3, NoLineIs, TypeIs DEF Types
<1>5. BufOK
  BY <1>3, BufPlaced
<1>6. ReadInv
  BY <1>1, <1>3 DEF ReadInv, Clean
<1>7. WalkInv
  BY <1>1, <1>3 DEF WalkInv
<1>8. QueueInv
  BY <1>1, <1>3 DEF QueueInv
<1> QED
  BY <1>4, <1>5, <1>6, <1>7, <1>8 DEF IInv

\* Every step keeps the invariant.
LEMMA Keeping == IInv /\ [Next]_vars => IInv'
<1> SUFFICES ASSUME IInv, [Next]_vars PROVE IInv'
  OBVIOUS
<1>1. /\ nread \in 0..MaxLines /\ eof \in BOOLEAN /\ sigint \in BOOLEAN /\ TypeOK
  BY TypeIs DEF IInv, Types
<1>2. Took /\ CanRead => nread' \in 0..MaxLines /\ eof' \in BOOLEAN
  BY <1>1, HeredocAssumption DEF Took, CanRead
<1>3. Ended => nread' \in 0..MaxLines /\ eof' \in BOOLEAN
  BY <1>1 DEF Ended
<1>4. ASSUME NEW text \in Lines, ReadPrimary(text) PROVE IInv'
  BY <1>4, PrimaryKeeps
<1>5. ASSUME NEW text \in Lines, JoinBackslash(text) PROVE IInv'
  BY <1>5, BackslashKeeps
<1>6. ASSUME NEW text \in Lines, JoinLine(text) PROVE IInv'
  BY <1>6, JoinKeeps
<1>7. ASSUME NEW text \in Lines, ReadBody(text) PROVE IInv'
  <2>1. /\ pc = "body" /\ nread' \in 0..MaxLines /\ eof' \in BOOLEAN
        /\ BodyDone \/ UNCHANGED <<source, line, pc, queue, sigint, left, spoiled>>
    BY <1>2, <1>7 DEF ReadBody
  <2>2. CASE BodyDone
    BY <2>1, <2>2, BodyKeeps
  <2>3. CASE UNCHANGED <<source, line, pc, queue, sigint, left, spoiled>>
    BY <1>1, <2>1, <2>3, SameLine
  <2> QED
    BY <2>1, <2>2, <2>3
<1>8. ASSUME NEW text \in Lines, ReadFallback(text) PROVE IInv'
  <2>1. /\ pc = "walk" /\ todo # << >> /\ queue = << >> /\ queue' = queue
        /\ nread' \in 0..MaxLines /\ eof' \in BOOLEAN
        /\ Give(Head(todo).at) \/ UNCHANGED <<source, pc, line, sigint, left, spoiled>>
    BY <1>2, <1>8 DEF ReadFallback, Unqueued
  <2>2. CASE Give(Head(todo).at)
    BY <2>1, <2>2, GiveKeeps
  <2>3. CASE UNCHANGED <<source, pc, line, sigint, left, spoiled>>
    BY <1>1, <2>1, <2>3, SameLine
  <2> QED
    BY <2>1, <2>2, <2>3
<1>9. CASE EndOfInput \/ EndAfterBackslash \/ EndInMore
  BY <1>9, EndKeeps
<1>10. CASE EndInBody
  BY <1>3, <1>10, BodyKeeps DEF EndInBody
<1>11. CASE EndInFallback
  BY <1>3, <1>11, GiveKeeps DEF EndInFallback, Unqueued
<1>12. CASE Parse
  BY <1>12, ParseKeeps
<1>13. CASE PopQueued
  <2>1. /\ pc = "walk" /\ todo # << >> /\ queue # << >> /\ Give(Head(queue))
        /\ queue' = Tail(queue) /\ nread' = nread /\ eof' = eof
    BY <1>13 DEF PopQueued
  <2> QED
    BY <1>1, <2>1, GiveKeeps
<1>14. CASE EmptyBody
  <2>1. /\ pc = "walk" /\ todo # << >> /\ queue = << >> /\ Give(Head(todo).at)
        /\ queue' = queue /\ nread' = nread /\ eof' = eof
    BY <1>14 DEF EmptyBody, Unqueued
  <2> QED
    BY <1>1, <2>1, GiveKeeps
<1>15. CASE Abort
  BY <1>15, AbortKeeps
<1>16. CASE Collected
  BY <1>16, CollectedKeeps
<1>17. CASE Execute
  BY <1>17, ExecuteKeeps
<1>18. CASE Interrupt
  <2>1. /\ sigint' \in BOOLEAN /\ nread' = nread /\ eof' = eof
        /\ UNCHANGED <<source, pc, line, queue, left, spoiled>>
    BY <1>18 DEF Interrupt, line
  <2> QED
    BY <1>1, <2>1, SameLine
<1>19. CASE Over \/ UNCHANGED vars
  <2>1. /\ sigint' = sigint /\ nread' = nread /\ eof' = eof
        /\ UNCHANGED <<source, pc, line, queue, left, spoiled>>
    BY <1>19 DEF Over, vars
  <2> QED
    BY <1>1, <2>1, SameLine
<1> QED
  BY <1>4, <1>5, <1>6, <1>7, <1>8, <1>9, <1>10, <1>11, <1>12, <1>13, <1>14, <1>15, <1>16,
     <1>17, <1>18, <1>19 DEF Next, Reads, ReadEnds, Collect

\* The invariant holds in every state.
LEMMA Invariant == Spec => []IInv
<1> QED
  BY Starting, Keeping, PTL DEF Spec

\* Every variable stays in its range, over lines of any length: in particular
\* the parenthesis depth of scan_line_into is never below zero, and a body is
\* collected only for an operator that is pending.
THEOREM TypeCorrect == Spec => []TypeOK
<1>1. IInv => TypeOK
  BY DEF IInv
<1> QED
  BY Invariant, <1>1, PTL

\* The reader (scan_line_into) swallows bodies for exactly the heredocs that the
\* lexer reads in the joined line, in their order.
THEOREM ScannerAgreesCorrect == Spec => []ScannerAgrees
<1>1. IInv => ScannerAgrees
  <2>1. SUFFICES ASSUME IInv, pc = "parse", Clean, mishap = {}, Plain(buf), Worded(Lex(buf))
                 PROVE  queue = Ats(Selected(Lex(buf), Ops(Lex(buf))))
    BY DEF ScannerAgrees
  <2>2. buf \in Seq(Chars) /\ Placed(buf)
    BY <2>1, TypeIs, BufPlaced DEF IInv, Types
  <2>3. Simple(buf) /\ Reading(Lex(buf)) = Ats(Selected(Lex(buf), Ops(Lex(buf))))
    BY <2>1, <2>2, PlainReading
  <2>4. Lex(buf) = State(buf).out
    BY <2>2, TokensIs
  <2>5. Reading(State(buf).out) = queue
    BY <2>1, <2>3, <2>4 DEF IInv, ReadInv
  <2> QED
    BY <2>3, <2>4, <2>5
<1> QED
  BY Invariant, <1>1, PTL

\* When a line is run, each heredoc redirection of its tree holds the body that
\* was read for its own operator (pop_queued_heredoc, read_heredoc).
THEOREM OwnBodyCorrect == Spec => []OwnBody
<1>1. IInv => OwnBody
  BY DEF IInv, WalkInv, OwnBody
<1> QED
  BY Invariant, <1>1, PTL

\* No body waits in heredoc_body_queue when the next line is read, but for the
\* lines that are known to leave one.
THEOREM NothingLeftCorrect == Spec => []NothingLeft
<1>1. IInv => NothingLeft
  BY DEF IInv, QueueInv, NothingLeft
<1> QED
  BY Invariant, <1>1, PTL
===============================================================================
