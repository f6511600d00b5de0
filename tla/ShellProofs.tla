------------------------------ MODULE ShellProofs ------------------------------
(***************************************************************************)
(* Proofs about Shell, for every program, every set of files and commands, *)
(* and whatever the parser and the aliases make of a line.                 *)
(***************************************************************************)
EXTENDS Shell, SequenceTheorems, TLAPS

-------------------------------------------------------------------------------
(* The invariant.                                                          *)

\* a sequence, whatever its elements are
IsSeq(s) == s \in Seq({s[k] : k \in DOMAIN s})

Fields == {"running", "status", "aliases", "ran", "input", "streams", "stack", "do"}

\* the waiting shell_run_streams each saved the stream beneath their own
Nested(stack, n) ==
    \A k \in DOMAIN stack : stack[k].fun = "stream" =>
        /\ stack[k].saved \in Nat
        /\ (\A m \in (k + 1)..Len(stack) : stack[m].fun # "stream") =>
              n = stack[k].saved + 1
        /\ \A j \in (k + 1)..Len(stack) :
              stack[j].fun = "stream" /\ (\A m \in (k + 1)..(j - 1) : stack[m].fun # "stream")
                 => stack[j].saved = stack[k].saved + 1

\* the C stack of process i: it ends at main or at the fork
Stacked(stack, i) ==
    /\ IsSeq(stack) /\ stack # << >>
    /\ stack[1].fun = IF i = Root THEN "main" ELSE "child"
    /\ \A k \in DOMAIN stack : stack[k].fun \in Frames

\* what a process does: codes are in range, the children awaited exist
Doing(d, n) ==
    /\ d.what = "return" => d.code \in Codes
    /\ d.what = "over" => d.code \in 0..255
    /\ d.what = "wait" => d.last \in 1..n /\ d.first \in 1..d.last
    /\ d.what = "start" => d.mode \in {"missing", "script", "repl", "interactive"}

Sound(p, i, n) ==
    /\ DOMAIN p = Fields
    /\ p.running \in BOOLEAN /\ p.status \in Codes /\ DOMAIN p.aliases = AliasNames
    /\ Stacked(p.stack, i)
    /\ IsSeq(p.streams) /\ p.input = Len(p.streams) /\ Nested(p.stack, Len(p.streams))
    /\ Doing(p.do, n)

\* before main has opened anything but the program
Fresh(p) == p.do.what = "start" => p.stack = <<[fun |-> "main"]>> /\ Len(p.streams) = 1

IInv ==
    /\ pending \in BOOLEAN /\ interrupts \in 0..MaxInterrupts
    /\ IsSeq(procs)
    /\ \A i \in DOMAIN procs : Sound(procs[i], i, Len(procs)) /\ Fresh(procs[i])

-------------------------------------------------------------------------------
(* Sequences of anything.                                                  *)

LEMMA SeqIs == ASSUME NEW S, NEW s \in Seq(S) PROVE IsSeq(s)
<1> DEFINE R == {s[k] : k \in DOMAIN s}
<1>1. Len(s) \in Nat /\ s \in [1..Len(s) -> S]
  OBVIOUS
<1>2. s \in [1..Len(s) -> R]
  BY <1>1
<1> HIDE DEF R
<1>3. s \in Seq(R)
  BY <1>1, <1>2
<1> QED
  BY <1>3 DEF R, IsSeq

LEMMA Indices ==
    ASSUME NEW s, IsSeq(s)
    PROVE  Len(s) \in Nat /\ DOMAIN s = 1..Len(s) /\ (s # << >> => Len(s) >= 1)
<1> DEFINE R == {s[k] : k \in DOMAIN s}
<1>1. s \in Seq(R)
  BY DEF IsSeq
<1> HIDE DEF R
<1> QED
  BY <1>1, EmptySeq

LEMMA AppendAny ==
    ASSUME NEW s, IsSeq(s), NEW e
    PROVE  /\ IsSeq(Append(s, e)) /\ Len(Append(s, e)) = Len(s) + 1
           /\ \A k \in 1..Len(s) : Append(s, e)[k] = s[k]
           /\ Append(s, e)[Len(s) + 1] = e /\ Append(s, e) # << >>
<1> DEFINE R == {s[k] : k \in DOMAIN s} \cup {e}
<1>1. s \in Seq(R) /\ e \in R
  <2>1. {s[k] : k \in DOMAIN s} \subseteq R
    OBVIOUS
  <2> QED
    BY <2>1 DEF IsSeq
<1> HIDE DEF R
<1>2. Append(s, e) \in Seq(R)
  BY <1>1, AppendProperties
<1>3. /\ Len(Append(s, e)) = Len(s) + 1 /\ Append(s, e)[Len(s) + 1] = e
      /\ \A k \in 1..Len(s) : Append(s, e)[k] = s[k]
  BY <1>1, AppendProperties
<1>4. Append(s, e) # << >>
  BY <1>1, AppendProperties
<1> QED
  BY <1>2, <1>3, <1>4, SeqIs

LEMMA FrontAny ==
    ASSUME NEW s, IsSeq(s), s # << >>
    PROVE  LET t == SubSeq(s, 1, Len(s) - 1)
           IN  IsSeq(t) /\ Len(t) = Len(s) - 1 /\ \A k \in 1..Len(t) : t[k] = s[k]
<1> DEFINE R == {s[k] : k \in DOMAIN s}
<1>1. s \in Seq(R)
  BY DEF IsSeq
<1> HIDE DEF R
<1>2. Len(s) \in Nat /\ Len(s) >= 1
  BY <1>1, EmptySeq
<1> DEFINE n == Len(s) - 1
<1>3. n \in Nat /\ \A k \in 1..n : s[k] \in R
  BY <1>1, <1>2
<1> HIDE DEF n
<1>4. SubSeq(s, 1, n) = [k \in 1..n |-> s[k]]
  BY <1>3
<1>5. SubSeq(s, 1, n) \in Seq(R) /\ Len(SubSeq(s, 1, n)) = n
  BY <1>3, <1>4
<1>6. \A k \in 1..n : SubSeq(s, 1, n)[k] = s[k]
  BY <1>4
<1>7. IsSeq(SubSeq(s, 1, n))
  BY <1>5, SeqIs
<1> QED
  BY <1>5, <1>6, <1>7 DEF n

LEMMA ConcatAny ==
    ASSUME NEW s, IsSeq(s), NEW t, IsSeq(t)
    PROVE  /\ IsSeq(s \o t) /\ Len(s \o t) = Len(s) + Len(t)
           /\ \A k \in 1..(Len(s) + Len(t)) :
                 (s \o t)[k] = IF k <= Len(s) THEN s[k] ELSE t[k - Len(s)]
<1> DEFINE A == {s[k] : k \in DOMAIN s}
           B == {t[k] : k \in DOMAIN t}
           R == A \cup B
<1>1. s \in Seq(A) /\ t \in Seq(B)
  BY DEF IsSeq
<1> HIDE DEF A, B
<1>2. s \in Seq(R) /\ t \in Seq(R)
  BY <1>1
<1> HIDE DEF R
<1>3. s \o t \in Seq(R)
  BY <1>2, ConcatProperties
<1> QED
  BY <1>2, <1>3, ConcatProperties, SeqIs

LEMMA OneAny == ASSUME NEW e PROVE IsSeq(<<e>>) /\ Len(<<e>>) = 1 /\ <<e>>[1] = e
<1>1. <<e>> \in Seq({e})
  OBVIOUS
<1> QED
  BY <1>1, SeqIs

LEMMA ReplacedAny ==
    ASSUME NEW s, IsSeq(s), NEW k, NEW e
    PROVE  IsSeq([s EXCEPT ![k] = e]) /\ Len([s EXCEPT ![k] = e]) = Len(s)
<1> DEFINE R == {s[j] : j \in DOMAIN s} \cup {e}
<1>1. s \in Seq(R)
  <2>1. {s[j] : j \in DOMAIN s} \subseteq R
    OBVIOUS
  <2> QED
    BY <2>1 DEF IsSeq
<1>2. e \in R
  OBVIOUS
<1> HIDE DEF R
<1>3. Len(s) \in Nat /\ s \in [1..Len(s) -> R]
  BY <1>1
<1>4. [s EXCEPT ![k] = e] \in [1..Len(s) -> R]
  BY <1>2, <1>3
<1>5. [s EXCEPT ![k] = e] \in Seq(R) /\ Len([s EXCEPT ![k] = e]) = Len(s)
  BY <1>3, <1>4
<1> QED
  BY <1>5, SeqIs

-------------------------------------------------------------------------------
(* The stack and the streams.                                              *)

\* what is left to show of a process whose stack and streams are in order
LEMMA Steady ==
    ASSUME NEW p, NEW q, NEW i, NEW n, Sound(p, i, n),
           DOMAIN q = Fields, q.running \in BOOLEAN, q.status \in Codes,
           DOMAIN q.aliases = AliasNames, Doing(q.do, n),
           q.stack = p.stack, q.streams = p.streams, q.input = p.input
    PROVE  Sound(q, i, n)
BY DEF Sound

Ordinary == Frames \ {"main", "child", "stream"}

LEMMA PushedStack ==
    ASSUME NEW stack, NEW i, NEW n, NEW f, Stacked(stack, i), Nested(stack, n),
           f.fun \in Ordinary
    PROVE  Stacked(Append(stack, f), i) /\ Nested(Append(stack, f), n)
<1> DEFINE a == Append(stack, f)
           m == Len(stack)
<1>1. /\ IsSeq(a) /\ Len(a) = m + 1 /\ a # << >> /\ a[m + 1] = f
      /\ \A k \in 1..m : a[k] = stack[k]
  BY AppendAny DEF Stacked
<1>2. m \in Nat /\ m >= 1 /\ DOMAIN stack = 1..m
  BY Indices DEF Stacked
<1>3. DOMAIN a = 1..(m + 1)
  BY <1>1, Indices
<1> HIDE DEF a, m
<1>4. \A k \in DOMAIN a : k = m + 1 \/ k \in 1..m
  BY <1>2, <1>3
<1>5. Stacked(a, i)
  BY <1>1, <1>2, <1>4 DEF Stacked, Ordinary
<1>6. Nested(a, n)
  <2> SUFFICES ASSUME NEW k \in DOMAIN a, a[k].fun = "stream"
               PROVE  /\ a[k].saved \in Nat
                      /\ (\A l \in (k + 1)..Len(a) : a[l].fun # "stream") =>
                            n = a[k].saved + 1
                      /\ \A j \in (k + 1)..Len(a) :
                            a[j].fun = "stream" /\ (\A l \in (k + 1)..(j - 1) :
                                                        a[l].fun # "stream")
                               => a[j].saved = a[k].saved + 1
    BY DEF Nested
  <2>1. k \in 1..m /\ a[k] = stack[k] /\ k \in DOMAIN stack
    BY <1>1, <1>2, <1>4 DEF Ordinary
  <2>2. \A j \in (k + 1)..m : a[j] = stack[j] /\ j \in DOMAIN stack
    BY <1>1, <1>2, <2>1
  <2>3. \A j \in (k + 1)..(m + 1) : j \in (k + 1)..m \/ (j = m + 1 /\ a[j].fun # "stream")
    BY <1>1, <1>2, <2>1 DEF Ordinary
  <2>4. a[k].saved \in Nat
    BY <2>1 DEF Nested
  <2>5. ASSUME \A l \in (k + 1)..Len(a) : a[l].fun # "stream"
        PROVE  n = a[k].saved + 1
    <3>1. \A l \in (k + 1)..m : stack[l].fun # "stream"
      BY <1>1, <1>2, <2>1, <2>2, <2>5
    <3> QED
      BY <2>1, <3>1 DEF Nested, m
  <2>6. ASSUME NEW j \in (k + 1)..Len(a), a[j].fun = "stream",
               \A l \in (k + 1)..(j - 1) : a[l].fun # "stream"
        PROVE  a[j].saved = a[k].saved + 1
    <3>1. j \in (k + 1)..m /\ a[j] = stack[j]
      BY <1>1, <2>2, <2>3, <2>6
    <3>2. \A l \in (k + 1)..(j - 1) : stack[l].fun # "stream"
      BY <1>2, <2>1, <2>2, <2>6, <3>1
    <3> QED
      BY <2>1, <2>6, <3>1, <3>2 DEF Nested, m
  <2> QED
    BY <2>4, <2>5, <2>6
<1> QED
  BY <1>5, <1>6 DEF a

LEMMA PushedStream ==
    ASSUME NEW stack, NEW i, NEW n \in Nat, NEW f, Stacked(stack, i), Nested(stack, n),
           f.fun = "stream", f.saved = n
    PROVE  Stacked(Append(stack, f), i) /\ Nested(Append(stack, f), n + 1)
<1> DEFINE a == Append(stack, f)
           m == Len(stack)
<1>1. /\ IsSeq(a) /\ Len(a) = m + 1 /\ a # << >> /\ a[m + 1] = f
      /\ \A k \in 1..m : a[k] = stack[k]
  BY AppendAny DEF Stacked
<1>2. m \in Nat /\ m >= 1 /\ DOMAIN stack = 1..m
  BY Indices DEF Stacked
<1>3. DOMAIN a = 1..(m + 1)
  BY <1>1, Indices
<1> HIDE DEF a, m
<1>4. \A k \in DOMAIN a : k = m + 1 \/ k \in 1..m
  BY <1>2, <1>3
<1>5. Stacked(a, i)
  <2>1. f.fun \in Frames
    BY DEF Frames
  <2> QED
    BY <1>1, <1>2, <1>4, <2>1 DEF Stacked
<1>6. ASSUME NEW k \in DOMAIN a, a[k].fun = "stream"
      PROVE  /\ a[k].saved \in Nat
             /\ (\A l \in (k + 1)..Len(a) : a[l].fun # "stream") =>
                   n + 1 = a[k].saved + 1
             /\ \A j \in (k + 1)..Len(a) :
                   a[j].fun = "stream" /\ (\A l \in (k + 1)..(j - 1) :
                                               a[l].fun # "stream")
                      => a[j].saved = a[k].saved + 1
  <2>1. CASE k = m + 1
    <3>1. \A j \in (k + 1)..Len(a) : FALSE
      BY <1>1, <1>2, <2>1
    <3> QED
      BY <1>1, <2>1, <3>1
  <2>2. CASE k \in 1..m
    <3>1. a[k] = stack[k] /\ k \in DOMAIN stack
      BY <1>1, <1>2, <2>2
    <3>2. a[k].saved \in Nat
      BY <1>6, <3>1 DEF Nested
    <3>3. m + 1 \in (k + 1)..Len(a)
      BY <1>1, <1>2, <2>2
    <3>4. ASSUME NEW j \in (k + 1)..Len(a), a[j].fun = "stream",
                 \A l \in (k + 1)..(j - 1) : a[l].fun # "stream"
          PROVE  a[j].saved = a[k].saved + 1
      <4>1. j \in (k + 1)..m \/ j = m + 1
        BY <1>1, <1>2, <2>2
      <4>2. \A l \in (k + 1)..(j - 1) : l \in 1..m /\ a[l] = stack[l]
        BY <1>1, <1>2, <2>2, <4>1
      <4>3. CASE j \in (k + 1)..m
        <5>1. a[j] = stack[j]
          BY <1>1, <1>2, <2>2, <4>3
        <5> QED
          BY <1>6, <3>1, <3>4, <4>2, <4>3, <5>1 DEF Nested, m
      <4>4. CASE j = m + 1
        <5>1. \A l \in (k + 1)..m : stack[l].fun # "stream"
          BY <1>2, <3>4, <4>2, <4>4
        <5>2. n = stack[k].saved + 1
          BY <1>6, <3>1, <5>1 DEF Nested, m
        <5> QED
          BY <1>1, <3>1, <4>4, <5>2
      <4> QED
        BY <4>1, <4>3, <4>4
    <3>5. ~\A l \in (k + 1)..Len(a) : a[l].fun # "stream"
      BY <1>1, <3>3
    <3> QED
      BY <3>2, <3>4, <3>5
  <2> QED
    BY <1>4, <2>1, <2>2
<1>7. Nested(a, n + 1)
  BY <1>6 DEF Nested
<1> QED
  BY <1>5, <1>7 DEF a

LEMMA TopIs ==
    ASSUME NEW p, NEW i, Stacked(p.stack, i), Top(p).fun \notin {"main", "child"}
    PROVE  Len(p.stack) \in Nat /\ Len(p.stack) >= 2 /\ DOMAIN p.stack = 1..Len(p.stack)
<1>1. Len(p.stack) \in Nat /\ Len(p.stack) >= 1 /\ DOMAIN p.stack = 1..Len(p.stack)
  BY Indices DEF Stacked
<1> DEFINE m == Len(p.stack)
<1>2. m # 1
  BY DEF Stacked, Top
<1> HIDE DEF m
<1>3. m \in Nat /\ m >= 1 => m >= 2
  BY <1>2
<1> QED
  BY <1>1, <1>3 DEF m

LEMMA PoppedStack ==
    ASSUME NEW p, NEW i, NEW n, Stacked(p.stack, i), Nested(p.stack, n),
           Top(p).fun \notin {"main", "child"}
    PROVE  LET s == SubSeq(p.stack, 1, Len(p.stack) - 1)
           IN  /\ Stacked(s, i)
               /\ Top(p).fun # "stream" => Nested(s, n)
               /\ Top(p).fun = "stream" => n = Top(p).saved + 1 /\ Nested(s, n - 1)
<1> DEFINE a == p.stack
           m == Len(a)
           s == SubSeq(a, 1, m - 1)
<1>1. m \in Nat /\ m >= 2 /\ DOMAIN a = 1..m
  BY TopIs
<1>2. IsSeq(s) /\ Len(s) = m - 1 /\ \A k \in 1..Len(s) : s[k] = a[k]
  BY FrontAny DEF Stacked
<1>3. DOMAIN s = 1..(m - 1)
  BY <1>2, Indices
<1>4. Stacked(a, i) /\ Nested(a, n) /\ Top(p) = a[m]
  BY DEF Top
<1> HIDE DEF a, m, s
<1>5. \A k \in 1..(m - 1) : s[k] = a[k] /\ k \in DOMAIN a
  BY <1>1, <1>2
<1>6. s # << >>
  <2>1. 1 \in DOMAIN s
    BY <1>1, <1>3
  <2> QED
    BY <2>1
<1>7. Stacked(s, i)
  BY <1>1, <1>2, <1>3, <1>4, <1>5, <1>6 DEF Stacked
<1>8. ASSUME NEW k \in 1..(m - 1), s[k].fun = "stream"
      PROVE  /\ s[k].saved \in Nat
             /\ (\A l \in (k + 1)..(m - 1) : s[l].fun # "stream") =>
                   \/ a[m].fun # "stream" /\ n = s[k].saved + 1
                   \/ a[m].fun = "stream" /\ a[m].saved = s[k].saved + 1
             /\ \A j \in (k + 1)..(m - 1) :
                   s[j].fun = "stream" /\ (\A l \in (k + 1)..(j - 1) : s[l].fun # "stream")
                      => s[j].saved = s[k].saved + 1
  <2>1. k \in DOMAIN a /\ s[k] = a[k]
    BY <1>5
  <2>2. \A j \in (k + 1)..(m - 1) : s[j] = a[j] /\ j \in DOMAIN a
    BY <1>5, <1>1
  <2>3. s[k].saved \in Nat
    BY <1>4, <1>8, <2>1 DEF Nested
  <2>4. ASSUME \A l \in (k + 1)..(m - 1) : s[l].fun # "stream"
        PROVE  \/ a[m].fun # "stream" /\ n = s[k].saved + 1
               \/ a[m].fun = "stream" /\ a[m].saved = s[k].saved + 1
    <3>1. \A l \in (k + 1)..(m - 1) : a[l].fun # "stream"
      BY <2>2, <2>4
    <3>2. CASE a[m].fun = "stream"
      <4>1. m \in (k + 1)..m
        BY <1>1
      <4> QED
        BY <1>4, <1>8, <2>1, <3>1, <3>2, <4>1 DEF Nested, m
    <3>3. CASE a[m].fun # "stream"
      <4>1. \A l \in (k + 1)..m : a[l].fun # "stream"
        BY <1>1, <3>1, <3>3
      <4> QED
        BY <1>4, <1>8, <2>1, <3>3, <4>1 DEF Nested, m
    <3> QED
      BY <3>2, <3>3
  <2>5. ASSUME NEW j \in (k + 1)..(m - 1), s[j].fun = "stream",
               \A l \in (k + 1)..(j - 1) : s[l].fun # "stream"
        PROVE  s[j].saved = s[k].saved + 1
    <3>1. j \in (k + 1)..m /\ \A l \in (k + 1)..(j - 1) : a[l].fun # "stream"
      BY <1>1, <2>2, <2>5
    <3> QED
      BY <1>4, <1>8, <2>1, <2>2, <2>5, <3>1 DEF Nested, m
  <2> QED
    BY <2>3, <2>4, <2>5
<1>9. a[m].fun # "stream" => Nested(s, n)
  BY <1>2, <1>3, <1>8 DEF Nested
<1>10. a[m].fun = "stream" => n = a[m].saved + 1 /\ a[m].saved \in Nat
  <2>1. m \in DOMAIN a /\ \A l \in (m + 1)..m : a[l].fun # "stream"
    BY <1>1
  <2> QED
    BY <1>4, <2>1 DEF Nested, m
<1>11. a[m].fun = "stream" => Nested(s, n - 1)
  <2>1. a[m].fun = "stream" => n - 1 = a[m].saved
    BY <1>10
  <2> QED
    BY <1>2, <1>3, <1>8, <2>1 DEF Nested
<1> QED
  BY <1>4, <1>7, <1>9, <1>10, <1>11 DEF a, m, s

-------------------------------------------------------------------------------
(* Processes.                                                              *)

LEMMA Does ==
    ASSUME NEW p, NEW i, NEW n, Sound(p, i, n), NEW d, Doing(d, n)
    PROVE  Sound([p EXCEPT !.do = d], i, n) /\ [p EXCEPT !.do = d].do = d
<1> DEFINE q == [p EXCEPT !.do = d]
<1>1. /\ DOMAIN q = Fields /\ q.running = p.running /\ q.status = p.status
      /\ q.aliases = p.aliases /\ q.stack = p.stack /\ q.streams = p.streams
      /\ q.input = p.input /\ q.do = d
  BY DEF Sound, Fields
<1> HIDE DEF q
<1>2. Sound(q, i, n)
  BY <1>1, Steady DEF Sound
<1> QED
  BY <1>1, <1>2 DEF q

LEMMA Pushes ==
    ASSUME NEW p, NEW i, NEW n, Sound(p, i, n), NEW f, f.fun \in Ordinary
    PROVE  /\ Sound(Push(p, f), i, n) /\ Top(Push(p, f)) = f
           /\ \A x \in Fields \ {"stack"} : Push(p, f)[x] = p[x]
<1> DEFINE q == Push(p, f)
<1>1. /\ DOMAIN q = Fields /\ q.stack = Append(p.stack, f)
      /\ \A x \in Fields \ {"stack"} : q[x] = p[x]
  BY DEF Sound, Fields, Push
<1>2. Stacked(q.stack, i) /\ Nested(q.stack, Len(p.streams))
  <2>1. Stacked(p.stack, i) /\ Nested(p.stack, Len(p.streams))
    BY DEF Sound
  <2>2. Stacked(Append(p.stack, f), i) /\ Nested(Append(p.stack, f), Len(p.streams))
    BY <2>1, PushedStack
  <2> QED
    BY <1>1, <2>2
<1>3. Top(q) = f
  BY <1>1, AppendAny DEF Sound, Stacked, Top
<1> HIDE DEF q
<1>4. /\ q.running = p.running /\ q.status = p.status /\ q.aliases = p.aliases
      /\ q.streams = p.streams /\ q.input = p.input /\ q.do = p.do
  BY <1>1 DEF Fields
<1>5. Sound(q, i, n)
  BY <1>1, <1>2, <1>4 DEF Sound
<1> QED
  BY <1>1, <1>3, <1>5 DEF q

LEMMA Pops ==
    ASSUME NEW p, NEW i, NEW n, Sound(p, i, n), Top(p).fun \in Ordinary
    PROVE  /\ Sound(Pop(p), i, n)
           /\ \A x \in Fields \ {"stack"} : Pop(p)[x] = p[x]
<1> DEFINE q == Pop(p)
<1>1. /\ DOMAIN q = Fields /\ q.stack = SubSeq(p.stack, 1, Len(p.stack) - 1)
      /\ \A x \in Fields \ {"stack"} : q[x] = p[x]
  BY DEF Sound, Fields, Pop
<1>2. Stacked(q.stack, i) /\ Nested(q.stack, Len(p.streams))
  BY <1>1, PoppedStack DEF Sound, Ordinary
<1> HIDE DEF q
<1>4. /\ q.running = p.running /\ q.status = p.status /\ q.aliases = p.aliases
      /\ q.streams = p.streams /\ q.input = p.input /\ q.do = p.do
  BY <1>1 DEF Fields
<1>5. Sound(q, i, n)
  BY <1>1, <1>2, <1>4 DEF Sound
<1> QED
  BY <1>1, <1>5 DEF q

\* shell_run_stream remembers the input it takes over
LEMMA RunsStream ==
    ASSUME NEW p, NEW i, NEW n, Sound(p, i, n), NEW lines
    PROVE  Sound(RunStream(p, lines), i, n) /\ RunStream(p, lines).do = Reading
<1> DEFINE f == [fun |-> "stream", saved |-> p.input]
           q == RunStream(p, lines)
<1>1. /\ DOMAIN q = Fields /\ q.stack = Append(p.stack, f)
      /\ q.streams = Append(p.streams, Open(lines)) /\ q.input = Len(p.streams) + 1
      /\ q.do = Reading /\ q.running = p.running /\ q.status = p.status
      /\ q.aliases = p.aliases
  BY DEF Sound, Fields, Push, RunStream
<1>2. IsSeq(q.streams) /\ Len(q.streams) = q.input
  BY <1>1, AppendAny DEF Sound
<1>3. f.fun = "stream" /\ f.saved = Len(p.streams) /\ Len(p.streams) \in Nat
  BY Indices DEF Sound
<1> HIDE DEF f, q
<1>4. Stacked(q.stack, i) /\ Nested(q.stack, Len(q.streams))
  BY <1>1, <1>2, <1>3, PushedStream DEF Sound
<1>5. Doing(Reading, n)
  BY DEF Doing, Reading
<1>6. Sound(q, i, n)
  BY <1>1, <1>2, <1>4, <1>5 DEF Sound
<1> QED
  BY <1>1, <1>6 DEF q

\* a forked copy has no stream of its own to give back
LEMMA Copied ==
    ASSUME NEW p, NEW i, NEW n, Sound(p, i, n), NEW do, NEW m, Doing(do, m),
           NEW tree, NEW j, j # Root
    PROVE  Sound(Copy(p, do, tree), j, m) /\ Copy(p, do, tree).do = do
<1> DEFINE f == [fun |-> "child", want |-> Wanted(tree, State(p))]
           q == Copy(p, do, tree)
<1>1. /\ DOMAIN q = Fields /\ q.stack = <<f>> /\ q.streams = p.streams
      /\ q.input = p.input /\ q.do = do /\ q.running = p.running
      /\ q.status = p.status /\ q.aliases = p.aliases
  BY DEF Sound, Fields, Copy
<1>2. f.fun = "child"
  OBVIOUS
<1> HIDE DEF f, q
<1>3. IsSeq(<<f>>) /\ Len(<<f>>) = 1 /\ <<f>>[1] = f
  BY OneAny
<1>4. DOMAIN <<f>> = 1..1 /\ <<f>> # << >>
  BY <1>3, Indices
<1>5. "child" \in Frames
  BY DEF Frames
<1>6. Stacked(<<f>>, j)
  BY <1>2, <1>3, <1>4, <1>5 DEF Stacked
<1>7. Nested(<<f>>, Len(p.streams))
  BY <1>2, <1>3, <1>4 DEF Nested
<1>8. Sound(q, j, m)
  BY <1>1, <1>6, <1>7 DEF Sound
<1> QED
  BY <1>1, <1>8 DEF q

LEMMA MoreProcesses ==
    ASSUME NEW p, NEW i, NEW n \in Nat, NEW m \in Nat, n <= m, Sound(p, i, n)
    PROVE  Sound(p, i, m)
<1>1. Doing(p.do, m)
  BY DEF Sound, Doing
<1> QED
  BY <1>1 DEF Sound

-------------------------------------------------------------------------------
(* All processes.                                                          *)

LEMMA Replaces ==
    ASSUME IInv, NEW i \in DOMAIN procs, NEW q, procs' = [procs EXCEPT ![i] = q],
           Sound(q, i, Len(procs)), Fresh(q)
    PROVE  /\ IsSeq(procs')
           /\ \A j \in DOMAIN procs' : Sound(procs'[j], j, Len(procs')) /\ Fresh(procs'[j])
<1>1. IsSeq(procs)
  BY DEF IInv
<1>2. IsSeq(procs') /\ Len(procs') = Len(procs) /\ DOMAIN procs' = DOMAIN procs
  BY <1>1, ReplacedAny
<1>3. \A j \in DOMAIN procs : procs'[j] = IF j = i THEN q ELSE procs[j]
  OBVIOUS
<1> QED
  BY <1>2, <1>3 DEF IInv

LEMMA StaysSound ==
    ASSUME interrupts' = interrupts,
           \A j \in DOMAIN procs' : Sound(procs'[j], j, Len(procs')) /\ Fresh(procs'[j])
    PROVE  \A j \in DOMAIN procs' : (Sound(procs[j], j, Len(procs)) /\ Fresh(procs[j]))'
BY DEF Sound, Doing, Codes, Fresh

LEMMA Becomes ==
    ASSUME IInv, NEW i \in DOMAIN procs, NEW q, Become(i, q),
           Sound(q, i, Len(procs)), Fresh(q)
    PROVE  IInv'
<1>1. /\ IsSeq(procs')
      /\ \A j \in DOMAIN procs' : Sound(procs'[j], j, Len(procs')) /\ Fresh(procs'[j])
  BY Replaces DEF Become
<1>2. UNCHANGED <<pending, interrupts>>
  BY DEF Become
<1> QED
  BY <1>1, <1>2, StaysSound DEF IInv

LEMMA Forks ==
    ASSUME IInv, NEW i \in DOMAIN procs, NEW q, NEW cs, IsSeq(cs), Forked(i, q, cs),
           Sound(q, i, Len(procs) + Len(cs)), Fresh(q),
           \A k \in 1..Len(cs) :
               /\ Sound(cs[k], Len(procs) + k, Len(procs) + Len(cs))
               /\ Fresh(cs[k])
    PROVE  IInv'
<1> DEFINE a == [procs EXCEPT ![i] = q]
           n == Len(procs)
           m == Len(cs)
<1>1. procs' = a \o cs /\ pending' = pending /\ interrupts' = interrupts
  BY DEF Forked
<1>2. IsSeq(procs)
  BY DEF IInv
<1>3. IsSeq(a) /\ Len(a) = n
  BY <1>2, ReplacedAny
<1>4. n \in Nat /\ DOMAIN procs = 1..n /\ m \in Nat
  BY <1>2, Indices
<1>5. \A j \in DOMAIN procs : a[j] = IF j = i THEN q ELSE procs[j]
  OBVIOUS
<1>6. /\ Sound(q, i, n + m)
      /\ \A k \in 1..m : Sound(cs[k], n + k, n + m) /\ Fresh(cs[k])
  OBVIOUS
<1> HIDE DEF a
<1>7. /\ IsSeq(a \o cs) /\ Len(a \o cs) = Len(a) + m
      /\ \A k \in 1..(Len(a) + m) : (a \o cs)[k] = IF k <= Len(a) THEN a[k] ELSE cs[k - Len(a)]
  BY <1>3, ConcatAny
<1>8. \A j \in DOMAIN procs : Sound(procs[j], j, n) /\ Fresh(procs[j])
  BY DEF IInv
<1> HIDE DEF n, m
<1>9. /\ IsSeq(procs') /\ Len(procs') = n + m
      /\ \A k \in 1..(n + m) : procs'[k] = IF k <= n THEN a[k] ELSE cs[k - n]
  BY <1>1, <1>3, <1>7
<1>10. DOMAIN procs' = 1..(n + m)
  BY <1>9, Indices
<1>11. ASSUME NEW j \in 1..(n + m)
       PROVE  Sound(procs'[j], j, n + m) /\ Fresh(procs'[j])
  <2>1. CASE j <= n
    <3>1. j \in DOMAIN procs /\ procs'[j] = IF j = i THEN q ELSE procs[j]
      BY <1>4, <1>5, <1>9, <2>1
    <3>2. CASE j = i
      BY <1>6, <3>1, <3>2
    <3>3. CASE j # i
      <4>1. Sound(procs[j], j, n) /\ Fresh(procs[j])
        BY <1>8, <3>1
      <4>2. n + m \in Nat /\ n <= n + m
        BY <1>4
      <4> QED
        BY <1>4, <3>1, <3>3, <4>1, <4>2, MoreProcesses
    <3> QED
      BY <3>2, <3>3
  <2>2. CASE j > n
    <3> DEFINE k == j - n
    <3>1. k \in 1..m /\ n + k = j /\ procs'[j] = cs[k]
      BY <1>4, <1>9, <2>2
    <3> HIDE DEF k
    <3> QED
      BY <1>6, <3>1
  <2> QED
    BY <1>4, <2>1, <2>2
<1>12. \A j \in DOMAIN procs' : Sound(procs'[j], j, Len(procs')) /\ Fresh(procs'[j])
  BY <1>9, <1>10, <1>11
<1> QED
  BY <1>1, <1>9, <1>12, StaysSound DEF IInv

LEMMA OfProcess ==
    ASSUME IInv, NEW i \in DOMAIN procs
    PROVE  /\ Sound(procs[i], i, Len(procs)) /\ Fresh(procs[i])
           /\ Len(procs) \in Nat /\ i \in 1..Len(procs)
<1>1. IsSeq(procs)
  BY DEF IInv
<1> QED
  BY <1>1, Indices DEF IInv

LEMMA CodesAreIntegers == \A c \in Codes : c \in Int
<1>1. \A c \in 0..255 : c \in Int
  OBVIOUS
<1>2. \A c \in {-1} : c \in Int
  OBVIOUS
<1> QED
  BY <1>1, <1>2 DEF Codes

\* something to do that is not the start of main
Later(d, n) == Doing(d, n) /\ d.what # "start"

LEMMA Laters ==
    ASSUME NEW n
    PROVE  /\ \A c \in Codes : Later(Return(c), n)
           /\ \A t : Later(Exec(t), n) /\ Later(Run(t), n)
           /\ Later(Reading, n) /\ Later([what |-> "prompt"], n)
BY DEF Later, Doing, Return, Exec, Run, Reading

LEMMA NowDoes ==
    ASSUME IInv, NEW i \in DOMAIN procs, NEW p, Sound(p, i, Len(procs)),
           NEW d, Later(d, Len(procs)), Become(i, [p EXCEPT !.do = d])
    PROVE  IInv'
<1> DEFINE q == [p EXCEPT !.do = d]
<1>1. Sound(q, i, Len(procs)) /\ q.do = d
  BY Does DEF Later
<1>2. Become(i, q)
  OBVIOUS
<1> HIDE DEF q
<1> QED
  BY <1>1, <1>2, Becomes DEF Fresh, Later

\* the process a step leaves, with the stack and the streams of p
LEMMA NowIs ==
    ASSUME IInv, NEW i \in DOMAIN procs, NEW p, Sound(p, i, Len(procs)),
           NEW q, Become(i, q),
           DOMAIN q = Fields, q.running \in BOOLEAN, q.status \in Codes,
           DOMAIN q.aliases = AliasNames, Later(q.do, Len(procs)),
           q.stack = p.stack, q.streams = p.streams, q.input = p.input
    PROVE  IInv'
<1>1. Sound(q, i, Len(procs)) /\ Fresh(q)
  BY Steady DEF Later, Fresh
<1> QED
  BY <1>1, Becomes

-------------------------------------------------------------------------------
(* Reading.                                                                *)

LEMMA EndsStream ==
    ASSUME IInv, NEW i \in DOMAIN procs, EndStream(i)
    PROVE  IInv'
<1> DEFINE p == procs[i]
           n == Len(procs)
           q == Pop(StreamOver(p))
           s == SubSeq(p.stack, 1, Len(p.stack) - 1)
           t == SubSeq(p.streams, 1, Len(p.streams) - 1)
<1>1. Sound(p, i, n) /\ Top(p).fun = "stream" /\ Become(i, q)
  BY OfProcess DEF EndStream
<1>2. /\ DOMAIN q = Fields /\ q.stack = s /\ q.streams = t /\ q.input = Top(p).saved
      /\ q.do = Return(p.status) /\ q.running = p.running /\ q.status = p.status
      /\ q.aliases = p.aliases
  BY <1>1 DEF Sound, Fields, Pop, StreamOver
<1>3. Stacked(s, i) /\ Len(p.streams) = Top(p).saved + 1 /\ Nested(s, Len(p.streams) - 1)
  <2>1. Stacked(p.stack, i) /\ Nested(p.stack, Len(p.streams))
    BY <1>1 DEF Sound
  <2> QED
    BY <1>1, <2>1, PoppedStack
<1>4. Top(p).saved \in Nat
  <2> DEFINE m == Len(p.stack)
  <2>1. Stacked(p.stack, i) /\ Nested(p.stack, Len(p.streams))
    BY <1>1 DEF Sound
  <2>2. m \in Nat /\ m >= 2 /\ DOMAIN p.stack = 1..m
    BY <1>1, <2>1, TopIs
  <2>3. m \in DOMAIN p.stack
    BY <2>2
  <2> QED
    BY <1>1, <2>1, <2>3 DEF Nested, Top
<1>5. IsSeq(t) /\ Len(t) = Len(p.streams) - 1
  <2>1. p.streams # << >>
    BY <1>3, <1>4, EmptySeq
  <2> QED
    BY <1>1, <2>1, FrontAny DEF Sound
<1>6. Len(t) = Top(p).saved
  BY <1>3, <1>4, <1>5
<1> HIDE DEF q, s, t
<1>7. Later(q.do, n)
  BY <1>1, <1>2, Laters DEF Sound
<1>8. Sound(q, i, n) /\ Fresh(q)
  BY <1>1, <1>2, <1>3, <1>5, <1>6, <1>7 DEF Sound, Later, Fresh
<1> QED
  BY <1>1, <1>8, Becomes

LEMMA ReadsLine ==
    ASSUME IInv, NEW i \in DOMAIN procs, ReadLine(i)
    PROVE  IInv'
<1> DEFINE p == procs[i]
           n == Len(procs)
           l == Stream(p).lines[Stream(p).at]
           f == [fun |-> "line", want |-> MeaningOfLine(l, [State(p) EXCEPT !.ran = p.ran])]
           d == [what |-> "scan", scan |-> ExpandAliases(l.line, p.aliases)]
           q == [Push(p, f) EXCEPT !.streams[p.input].at = @ + 1, !.do = d]
           e == [Stream(p) EXCEPT !.at = @ + 1]
<1>1. Sound(p, i, n) /\ Become(i, q)
  BY OfProcess DEF ReadLine
<1>2. Sound(Push(p, f), i, n) /\ \A x \in Fields \ {"stack"} : Push(p, f)[x] = p[x]
  <2>1. f.fun \in Ordinary
    BY DEF Ordinary, Frames
  <2> HIDE DEF f, p
  <2> QED
    BY <1>1, <2>1, Pushes
<1>3. Later(d, n)
  BY DEF Later, Doing
<1> DEFINE r == Push(p, f)
<1> HIDE DEF d, f
<1>4. q = [[r EXCEPT !.streams = [p.streams EXCEPT ![p.input] = e]] EXCEPT !.do = d]
  <2>1. DOMAIN r = Fields /\ r.streams = p.streams
    BY <1>2 DEF Sound, Fields
  <2> QED
    BY <2>1 DEF Stream
<1> DEFINE t == [p.streams EXCEPT ![p.input] = e]
           u == [r EXCEPT !.streams = t]
<1>5. IsSeq(t) /\ Len(t) = Len(p.streams)
  BY <1>1, ReplacedAny DEF Sound
<1>6. Sound(u, i, n)
  <2> HIDE DEF t, r
  <2>1. Sound(r, i, n) /\ r.streams = p.streams /\ r.input = p.input
    BY <1>2 DEF r, Fields
  <2>2. /\ DOMAIN u = Fields /\ u.running = r.running /\ u.status = r.status
        /\ u.aliases = r.aliases /\ u.stack = r.stack /\ u.streams = t
        /\ u.input = r.input /\ u.do = r.do
    BY <2>1 DEF Sound, Fields
  <2> QED
    BY <1>5, <2>1, <2>2 DEF Sound
<1>7. Become(i, [u EXCEPT !.do = d])
  BY <1>1, <1>4
<1> HIDE DEF u
<1> QED
  BY <1>3, <1>6, <1>7, NowDoes

LEMMA ParsesLine ==
    ASSUME IInv, NEW i \in DOMAIN procs, ParseLine(i)
    PROVE  IInv'
<1> DEFINE p == procs[i]
           n == Len(procs)
           t == ParseTokens(p.do.scan.line)
           q == [p EXCEPT !.status = 2, !.do = Return(2)]
<1>1. Sound(p, i, n) /\ Become(i, IF t = NoTree THEN q ELSE [p EXCEPT !.do = Exec(t)])
  BY OfProcess DEF ParseLine
<1> HIDE DEF t
<1>2. CASE t = NoTree
  <2>1. /\ DOMAIN q = Fields /\ q.running = p.running /\ q.status = 2
        /\ q.aliases = p.aliases /\ q.stack = p.stack /\ q.streams = p.streams
        /\ q.input = p.input /\ q.do = Return(2)
    BY <1>1 DEF Sound, Fields
  <2>2. Become(i, q)
    BY <1>1, <1>2
  <2>3. Later(Return(2), n)
    <3>1. 2 \in Codes
      BY DEF Codes
    <3> QED
      BY <3>1, Laters
  <2> HIDE DEF p, q
  <2>4. q.running \in BOOLEAN /\ q.status \in Codes /\ DOMAIN q.aliases = AliasNames
    BY <1>1, <2>1 DEF Sound, Codes
  <2> QED
    BY <1>1, <2>1, <2>2, <2>3, <2>4, NowIs
<1>3. CASE t # NoTree
  <2>1. Become(i, [p EXCEPT !.do = Exec(t)]) /\ Later(Exec(t), n)
    BY <1>1, <1>3, Laters
  <2> QED
    BY <1>1, <2>1, NowDoes
<1> QED
  BY <1>2, <1>3

LEMMA LineIsDone ==
    ASSUME IInv, NEW i \in DOMAIN procs, LineDone(i)
    PROVE  IInv'
<1> DEFINE p == procs[i]
           n == Len(procs)
           d == IF Top(Pop(p)).fun = "repl" THEN [what |-> "prompt"] ELSE Reading
<1>1. /\ Sound(p, i, n) /\ Top(p).fun = "line"
      /\ Become(i, [Pop(p) EXCEPT !.do = d])
  BY OfProcess DEF LineDone
<1>2. Sound(Pop(p), i, n)
  BY <1>1, Pops DEF Ordinary, Frames
<1>3. Later(d, n)
  BY Laters
<1> HIDE DEF d
<1> QED
  BY <1>1, <1>2, <1>3, NowDoes

-------------------------------------------------------------------------------
(* The executor.                                                           *)

LEMMA NodeIs ==
    ASSUME NEW p, NEW i, NEW n, Sound(p, i, n)
    PROVE  Sound(Node(p), i, n) /\ \A x \in Fields \ {"stack"} : Node(p)[x] = p[x]
<1> DEFINE f == [fun |-> "node"]
<1>1. f.fun \in Ordinary
  BY DEF Ordinary, Frames
<1> HIDE DEF f
<1>2. Sound(Push(p, f), i, n) /\ \A x \in Fields \ {"stack"} : Push(p, f)[x] = p[x]
  BY <1>1, Pushes
<1> QED
  BY <1>2 DEF Node, f

LEMMA Skips ==
    ASSUME IInv, NEW i \in DOMAIN procs, Skip(i)
    PROVE  IInv'
<1> DEFINE p == procs[i]
<1>1. Sound(p, i, Len(procs)) /\ Become(i, [p EXCEPT !.do = Return(p.status)])
  BY OfProcess DEF Skip
<1>2. Later(Return(p.status), Len(procs))
  BY <1>1, Laters DEF Sound
<1> QED
  BY <1>1, <1>2, NowDoes

LEMMA ExecutesSimple ==
    ASSUME IInv, NEW i \in DOMAIN procs, ExecuteSimple(i)
    PROVE  IInv'
<1> DEFINE p == procs[i]
           d == Run(Node(p).do.tree)
<1>1. Sound(Node(p), i, Len(procs)) /\ Become(i, [Node(p) EXCEPT !.do = d])
  BY OfProcess, NodeIs DEF ExecuteSimple
<1>2. Later(d, Len(procs))
  BY Laters
<1> HIDE DEF d
<1> QED
  BY <1>1, <1>2, NowDoes

LEMMA ExecutesLeft ==
    ASSUME IInv, NEW i \in DOMAIN procs, ExecuteLeft(i)
    PROVE  IInv'
<1> DEFINE p == procs[i]
           t == p.do.tree
           f == [fun |-> t.op, right |-> t.right]
           q == Push(Node(p), f)
<1>1. /\ Sound(Node(p), i, Len(procs)) /\ t.op \in {"&&", "||", ";"}
      /\ Become(i, [q EXCEPT !.do = Exec(t.left)])
  BY OfProcess, NodeIs DEF ExecuteLeft, Executes
<1>2. f.fun \in Ordinary
  BY <1>1 DEF Ordinary, Frames
<1> HIDE DEF f
<1>3. Sound(q, i, Len(procs))
  BY <1>1, <1>2, Pushes
<1>4. Later(Exec(t.left), Len(procs))
  BY Laters
<1> QED
  BY <1>1, <1>3, <1>4, NowDoes

LEMMA ExecutesRight ==
    ASSUME IInv, NEW i \in DOMAIN procs, ExecuteRight(i)
    PROVE  IInv'
<1> DEFINE p == procs[i]
           q == Pop(p)
<1>1. /\ Sound(p, i, Len(procs)) /\ Top(p).fun \in {"&&", "||", ";"}
      /\ p.do.what = "return"
      /\ Become(i, IF RunsRight(Top(p).fun, p.do.code)
                   THEN [q EXCEPT !.do = Exec(Top(p).right)] ELSE q)
  BY OfProcess DEF ExecuteRight, Running
<1>2. Sound(q, i, Len(procs)) /\ q.do = p.do
  BY <1>1, Pops DEF Ordinary, Frames, Fields
<1>3. CASE RunsRight(Top(p).fun, p.do.code)
  <2>1. Later(Exec(Top(p).right), Len(procs))
    BY Laters
  <2>2. Become(i, [q EXCEPT !.do = Exec(Top(p).right)])
    BY <1>1, <1>3
  <2> QED
    BY <1>2, <2>1, <2>2, NowDoes
<1>4. CASE ~RunsRight(Top(p).fun, p.do.code)
  <2>1. Become(i, q) /\ Fresh(q)
    BY <1>1, <1>2, <1>4 DEF Fresh
  <2> QED
    BY <1>2, <2>1, Becomes
<1> QED
  BY <1>3, <1>4

LEMMA ExecutesBlock ==
    ASSUME IInv, NEW i \in DOMAIN procs, ExecuteBlock(i)
    PROVE  IInv'
<1> DEFINE p == procs[i]
           t == p.do.tree
           f == [fun |-> "block"]
           q == Push(Node(p), f)
<1>1. /\ Sound(Node(p), i, Len(procs))
      /\ Become(i, IF CannotOpen(t.redirs) THEN [Node(p) EXCEPT !.do = Return(1)]
                   ELSE [q EXCEPT !.do = Exec(t.child)])
  BY OfProcess, NodeIs DEF ExecuteBlock
<1>2. f.fun \in Ordinary
  BY DEF Ordinary, Frames
<1> HIDE DEF f
<1>3. Sound(q, i, Len(procs))
  BY <1>1, <1>2, Pushes
<1>4. Later(Exec(t.child), Len(procs)) /\ Later(Return(1), Len(procs))
  <2>1. 1 \in Codes
    BY DEF Codes
  <2>2. Later(Return(1), Len(procs))
    BY <2>1, Laters
  <2>3. Later(Exec(t.child), Len(procs))
    BY Laters
  <2> QED
    BY <2>2, <2>3
<1>5. CASE CannotOpen(t.redirs)
  <2>1. Become(i, [Node(p) EXCEPT !.do = Return(1)])
    BY <1>1, <1>5
  <2> QED
    BY <1>1, <1>4, <2>1, NowDoes
<1>6. CASE ~CannotOpen(t.redirs)
  <2>1. Become(i, [q EXCEPT !.do = Exec(t.child)])
    BY <1>1, <1>6
  <2> QED
    BY <1>3, <1>4, <2>1, NowDoes
<1> QED
  BY <1>5, <1>6

LEMMA BlockIsDone ==
    ASSUME IInv, NEW i \in DOMAIN procs, BlockDone(i)
    PROVE  IInv'
<1> DEFINE p == procs[i]
<1>1. /\ Sound(p, i, Len(procs)) /\ Top(p).fun = "block" /\ p.do.what = "return"
      /\ Become(i, Pop(p))
  BY OfProcess DEF BlockDone, Running
<1>2. Sound(Pop(p), i, Len(procs)) /\ Pop(p).do = p.do
  BY <1>1, Pops DEF Ordinary, Frames, Fields
<1> QED
  BY <1>1, <1>2, Becomes DEF Fresh

\* dispatch_node's result becomes $?
LEMMA NodeIsDone ==
    ASSUME IInv, NEW i \in DOMAIN procs, NodeDone(i)
    PROVE  IInv'
<1> DEFINE p == procs[i]
           r == Pop(p)
           q == [r EXCEPT !.status = p.do.code]
<1>1. /\ Sound(p, i, Len(procs)) /\ Top(p).fun = "node" /\ p.do.what = "return"
      /\ Become(i, q)
  BY OfProcess DEF NodeDone, Running
<1>2. /\ Sound(r, i, Len(procs)) /\ r.do = p.do
  BY <1>1, Pops DEF Ordinary, Frames, Fields
<1>3. p.do.code \in Codes /\ Later(p.do, Len(procs))
  BY <1>1 DEF Sound, Doing, Later
<1> HIDE DEF r
<1>4. /\ DOMAIN q = Fields /\ q.running = r.running /\ q.status = p.do.code
      /\ q.aliases = r.aliases /\ q.stack = r.stack /\ q.streams = r.streams
      /\ q.input = r.input /\ q.do = p.do
  BY <1>2 DEF Sound, Fields
<1>5. q.running \in BOOLEAN /\ q.status \in Codes /\ DOMAIN q.aliases = AliasNames
  BY <1>2, <1>3, <1>4 DEF Sound
<1> HIDE DEF q
<1> QED
  BY <1>1, <1>2, <1>3, <1>4, <1>5, NowIs

LEMMA WaitsFor ==
    ASSUME NEW a \in Nat, NEW b \in Nat, b >= 1
    PROVE  Later(Waiting(a + 1, a + b), a + b)
BY DEF Later, Doing, Waiting

LEMMA ExecutesSubshell ==
    ASSUME IInv, NEW i \in DOMAIN procs, ExecuteSubshell(i)
    PROVE  IInv'
<1> DEFINE p == procs[i]
           n == Len(procs)
           t == p.do.tree
           do == IF CannotOpen(t.redirs) THEN Return(1) ELSE Exec(t.child)
           tree == IF CannotOpen(t.redirs) THEN t ELSE t.child
           c == Copy(p, do, tree)
           w == Waiting(n + 1, n + 1)
           q == [Node(p) EXCEPT !.do = w]
<1>1. Sound(p, i, n) /\ Sound(Node(p), i, n) /\ n \in Nat /\ i \in 1..n
  BY OfProcess, NodeIs
<1>2. Forked(i, q, <<c>>)
  BY DEF ExecuteSubshell
<1>3. Later(do, n + 1) /\ Later(w, n + 1)
  <2>1. 1 \in Codes /\ 1 \in Nat /\ 1 >= 1
    BY DEF Codes
  <2>2. Later(Return(1), n + 1) /\ Later(Exec(t.child), n + 1)
    BY <2>1, Laters
  <2>3. Later(w, n + 1)
    BY <1>1, <2>1, WaitsFor
  <2> QED
    BY <2>2, <2>3
<1> HIDE DEF p, n, do, tree, w
<1>4. n + 1 # Root
  BY <1>1 DEF Root
<1>5. Sound(c, n + 1, n + 1) /\ c.do = do
  BY <1>1, <1>3, <1>4, Copied DEF Later
<1>6. Sound(Node(p), i, n + 1)
  BY <1>1, MoreProcesses
<1>7. Sound(q, i, n + 1) /\ q.do = w
  BY <1>3, <1>6, Does DEF Later
<1>8. Fresh(c) /\ Fresh(q)
  BY <1>3, <1>5, <1>7 DEF Fresh, Later
<1> HIDE DEF c, q
<1>9. IsSeq(<<c>>) /\ Len(<<c>>) = 1 /\ <<c>>[1] = c
  BY OneAny
<1>10. \A k \in 1..Len(<<c>>) : Sound(<<c>>[k], n + k, n + Len(<<c>>)) /\ Fresh(<<c>>[k])
  BY <1>5, <1>8, <1>9
<1>11. Sound(q, i, n + Len(<<c>>))
  BY <1>7, <1>9
<1> DEFINE cs == <<c>>
<1> HIDE DEF cs
<1> QED
  BY <1>2, <1>8, <1>9, <1>10, <1>11, Forks DEF n, cs

LEMMA ExecutesPipeline ==
    ASSUME IInv, NEW i \in DOMAIN procs, ExecutePipeline(i)
    PROVE  IInv'
<1> DEFINE p == procs[i]
           n == Len(procs)
           t == p.do.tree
           copies(s, l) == [k \in 1..l |-> Copy(p, ChildDoes(s[k]), s[k])]
           w(k) == Waiting(n + 1, n + k)
           q(k) == [Node(p) EXCEPT !.do = w(k)]
<1>1. Sound(p, i, n) /\ Sound(Node(p), i, n) /\ n \in Nat /\ i \in 1..n
  BY OfProcess, NodeIs
<1>2. PICK written \in 2..MaxProcs :
          Forked(i, q(Kept(written)), copies(Stages(t, written), Kept(written)))
  BY DEF ExecutePipeline
<1> DEFINE m == Kept(written)
           stages == Stages(t, written)
           cs == copies(stages, m)
<1>3. m \in Nat /\ m >= 1 /\ n + m \in Nat /\ n <= n + m
  BY <1>1, <1>2, ShellAssumption, LanguageAssumption DEF Kept
<1>12. Forked(i, q(m), cs)
  BY <1>2
<1> HIDE DEF m, stages
<1>4. /\ IsSeq(cs) /\ Len(cs) = m
      /\ \A k \in 1..m :
            cs[k] = Copy(p, ChildDoes(stages[k]), stages[k])
  <2> DEFINE c(k) == Copy(p, ChildDoes(stages[k]), stages[k])
             C == {c(k) : k \in 1..m}
  <2>1. \A k \in 1..m : c(k) \in C
    OBVIOUS
  <2>2. cs = [k \in 1..m |-> c(k)]
    OBVIOUS
  <2> HIDE DEF c, C
  <2>3. cs \in Seq(C) /\ Len(cs) = m
    BY <1>3, <2>1, <2>2
  <2>4. IsSeq(cs)
    BY <2>3, SeqIs
  <2>5. \A k \in 1..m : cs[k] = c(k)
    BY <2>2
  <2> QED
    BY <2>3, <2>4, <2>5 DEF c
<1> HIDE DEF p, n, cs
<1>5. ASSUME NEW k \in 1..m
      PROVE  Sound(cs[k], n + k, n + m) /\ Fresh(cs[k])
  <2> DEFINE s == stages[k]
             do == ChildDoes(s)
  <2> HIDE DEF s
  <2>1. Later(do, n + m)
    BY Laters DEF ChildDoes
  <2> HIDE DEF do
  <2>2. n + k # Root
    BY <1>1, <1>3 DEF Root
  <2>3. Sound(Copy(p, do, s), n + k, n + m) /\ Copy(p, do, s).do = do
    BY <1>1, <2>1, <2>2, Copied DEF Later
  <2>4. Fresh(Copy(p, do, s))
    BY <2>1, <2>3 DEF Fresh, Later
  <2>5. cs[k] = Copy(p, do, s)
    BY <1>4 DEF do, s
  <2> QED
    BY <2>3, <2>4, <2>5
<1>6. Later(w(m), n + m)
  BY <1>1, <1>3, WaitsFor
<1>7. Sound(Node(p), i, n + m)
  BY <1>1, <1>3, MoreProcesses
<1> HIDE DEF w
<1>8. Sound(q(m), i, n + m) /\ q(m).do = w(m)
  BY <1>6, <1>7, Does DEF Later
<1>9. Fresh(q(m))
  BY <1>6, <1>8 DEF Fresh, Later
<1> HIDE DEF q
<1>10. Sound(q(m), i, n + Len(cs))
  BY <1>4, <1>8
<1>11. \A k \in 1..Len(cs) :
           Sound(cs[k], n + k, n + Len(cs)) /\ Fresh(cs[k])
  BY <1>4, <1>5
<1> QED
  BY <1>12, <1>4, <1>9, <1>10, <1>11, Forks DEF n

LEMMA ExecutesBackground ==
    ASSUME IInv, NEW i \in DOMAIN procs, ExecuteBackground(i)
    PROVE  IInv'
<1> DEFINE p == procs[i]
           n == Len(procs)
           t == p.do.tree.child
           do == ChildDoes(t)
           c == Copy(p, do, t)
           q == [Node(p) EXCEPT !.do = Return(0)]
           cs == <<c>>
<1>1. Sound(p, i, n) /\ Sound(Node(p), i, n) /\ n \in Nat /\ i \in 1..n
  BY OfProcess, NodeIs
<1>2. Forked(i, q, cs)
  BY DEF ExecuteBackground
<1> HIDE DEF p, n, t
<1>3. Later(do, n + 1)
  BY Laters DEF ChildDoes
<1>4. Later(Return(0), n + 1)
  <2>1. 0 \in Codes
    BY DEF Codes
  <2> QED
    BY <2>1, Laters
<1> HIDE DEF do
<1>5. n + 1 # Root
  BY <1>1 DEF Root
<1>6. Sound(c, n + 1, n + 1) /\ c.do = do
  BY <1>1, <1>3, <1>5, Copied DEF Later
<1>7. Sound(Node(p), i, n + 1)
  BY <1>1, MoreProcesses
<1>8. Sound(q, i, n + 1) /\ q.do = Return(0)
  BY <1>4, <1>7, Does DEF Later
<1>9. Fresh(c) /\ Fresh(q)
  BY <1>3, <1>4, <1>6, <1>8 DEF Fresh, Later
<1> HIDE DEF c, q
<1>10. IsSeq(cs) /\ Len(cs) = 1 /\ cs[1] = c
  BY OneAny
<1> HIDE DEF cs
<1>11. \A k \in 1..Len(cs) : Sound(cs[k], n + k, n + Len(cs)) /\ Fresh(cs[k])
  BY <1>6, <1>9, <1>10
<1>12. Sound(q, i, n + Len(cs))
  BY <1>8, <1>10
<1> QED
  BY <1>2, <1>9, <1>10, <1>11, <1>12, Forks DEF n

LEMMA Collects ==
    ASSUME IInv, NEW i \in DOMAIN procs, Collect(i)
    PROVE  IInv'
<1> DEFINE p == procs[i]
           w == p.do
           c == procs[w.last].do.code
<1>1. /\ Sound(p, i, Len(procs)) /\ w.what = "wait" /\ Len(procs) \in Nat
      /\ \A k \in w.first..w.last : procs[k].do.what = "over"
      /\ Become(i, [p EXCEPT !.do = Return(c)])
  BY OfProcess DEF Collect, Running
<1>2. w.last \in 1..Len(procs) /\ w.first \in 1..w.last
  BY <1>1 DEF Sound, Doing
<1>3. w.last \in w.first..w.last
  BY <1>1, <1>2
<1>4. w.last \in DOMAIN procs
  BY <1>2, Indices DEF IInv
<1>5. Sound(procs[w.last], w.last, Len(procs)) /\ procs[w.last].do.what = "over"
  BY <1>1, <1>3, <1>4, OfProcess
<1>6. c \in Codes
  BY <1>5 DEF Sound, Doing, Codes
<1>7. Later(Return(c), Len(procs))
  BY <1>6, Laters
<1> HIDE DEF c
<1> QED
  BY <1>1, <1>7, NowDoes

LEMMA ChildIsOver ==
    ASSUME IInv, NEW i \in DOMAIN procs, ChildExits(i)
    PROVE  IInv'
<1> DEFINE p == procs[i]
           d == [what |-> "over", code |-> p.do.code % 256]
<1>1. /\ Sound(p, i, Len(procs)) /\ p.do.what = "return"
      /\ Become(i, [p EXCEPT !.do = d])
  BY OfProcess DEF ChildExits, Running
<1>2. Later(d, Len(procs))
  <2>1. p.do.code \in Int
    BY <1>1, CodesAreIntegers DEF Sound, Doing
  <2>2. p.do.code % 256 \in 0..255
    BY <2>1
  <2> QED
    BY <2>2 DEF Later, Doing
<1> HIDE DEF d
<1> QED
  BY <1>1, <1>2, NowDoes

-------------------------------------------------------------------------------
(* Simple commands.                                                        *)

\* a builtin that returns code, having set the running flag, $? and the aliases
LEMMA Returns ==
    ASSUME IInv, NEW i \in DOMAIN procs, NEW q, Become(i, q), NEW code \in Codes,
           DOMAIN q = Fields, q.do = Return(code), q.running \in BOOLEAN,
           q.status \in Codes, DOMAIN q.aliases = AliasNames,
           q.stack = procs[i].stack, q.streams = procs[i].streams,
           q.input = procs[i].input
    PROVE  IInv'
<1>1. Sound(procs[i], i, Len(procs)) /\ Later(q.do, Len(procs))
  BY OfProcess, Laters
<1> QED
  BY <1>1, NowIs

LEMMA IsDone ==
    ASSUME IInv, NEW i \in DOMAIN procs, NEW code \in Codes,
           Become(i, Done(procs[i], code))
    PROVE  IInv'
<1>1. Sound(procs[i], i, Len(procs)) /\ Later(Return(code), Len(procs))
  BY OfProcess, Laters
<1> QED
  BY <1>1, NowDoes DEF Done

LEMMA LaunchedIs ==
    ASSUME NEW p, NEW i, NEW n, Sound(p, i, n)
    PROVE  /\ Sound(Launched(p), i, n)
           /\ \A x \in Fields \ {"ran"} : Launched(p)[x] = p[x]
<1> DEFINE q == Launched(p)
<1>1. DOMAIN q = Fields /\ \A x \in Fields \ {"ran"} : q[x] = p[x]
  BY DEF Sound, Fields, Launched
<1> HIDE DEF q
<1>2. /\ q.running = p.running /\ q.status = p.status /\ q.aliases = p.aliases
      /\ q.stack = p.stack /\ q.streams = p.streams /\ q.input = p.input
      /\ q.do = p.do
  BY <1>1 DEF Fields
<1>3. Sound(q, i, n)
  BY <1>1, <1>2, Steady DEF Sound
<1> QED
  BY <1>1, <1>3 DEF q

LEMMA ExternalRuns ==
    ASSUME IInv, NEW i \in DOMAIN procs, ExternalCommand(i)
    PROVE  IInv'
<1> DEFINE p == procs[i]
           cmd == p.do.tree
           code == IF cmd.argv[1] \in DOMAIN External THEN External[cmd.argv[1]] ELSE 127
           q == Done(Launched(p), code)
<1>1. Sound(p, i, Len(procs)) /\ Become(i, q)
  BY OfProcess DEF ExternalCommand
<1>2. code \in Codes
  <2>1. 127 \in Codes
    BY DEF Codes
  <2>2. \A c \in DOMAIN External : External[c] \in Codes
    BY LanguageAssumption DEF Codes
  <2> QED
    BY <2>1, <2>2
<1> HIDE DEF cmd, code
<1>3. Sound(Launched(p), i, Len(procs)) /\ Later(Return(code), Len(procs))
  BY <1>1, <1>2, LaunchedIs, Laters
<1> QED
  BY <1>1, <1>3, NowDoes DEF Done

LEMMA Stops ==
    ASSUME IInv, NEW i \in DOMAIN procs, NEW code \in Codes,
           Become(i, Stopped(procs[i], code))
    PROVE  IInv'
<1> DEFINE p == procs[i]
           q == Stopped(p, code)
<1>1. Sound(p, i, Len(procs))
  BY OfProcess
<1>2. /\ DOMAIN q = Fields /\ q.do = Return(code) /\ q.running = FALSE
      /\ q.status = code /\ q.aliases = p.aliases /\ q.stack = p.stack
      /\ q.streams = p.streams /\ q.input = p.input
  BY <1>1 DEF Sound, Fields, Done, Stopped
<1>3. q.running \in BOOLEAN /\ q.status \in Codes /\ DOMAIN q.aliases = AliasNames
  BY <1>1, <1>2 DEF Sound
<1>4. Become(i, q)
  OBVIOUS
<1> HIDE DEF q
<1> QED
  BY <1>2, <1>3, <1>4, Returns

LEMMA Exits ==
    ASSUME IInv, NEW i \in DOMAIN procs, BuiltinExit(i)
    PROVE  IInv'
<1> DEFINE p == procs[i]
           args == Args(p.do.tree)
           q == [Done(p, 1) EXCEPT !.status = 1]
<1>1. /\ Sound(p, i, Len(procs))
      /\ \/ Become(i, Stopped(p, p.status))
         \/ Become(i, Stopped(p, 2))
         \/ Become(i, q)
         \/ /\ args[1] \in DOMAIN Number
            /\ Become(i, Stopped(p, ExitCode(Number[args[1]])))
  BY OfProcess DEF BuiltinExit
<1> HIDE DEF args
<1>2. CASE Become(i, Stopped(p, p.status))
  <2>1. p.status \in Codes
    BY <1>1 DEF Sound
  <2> QED
    BY <1>2, <2>1, Stops
<1>3. CASE Become(i, Stopped(p, 2))
  <2>1. 2 \in Codes
    BY DEF Codes
  <2> QED
    BY <1>3, <2>1, Stops
<1>4. CASE Become(i, q)
  <2>1. /\ DOMAIN q = Fields /\ q.do = Return(1) /\ q.running = p.running
        /\ q.status = 1 /\ q.aliases = p.aliases /\ q.stack = p.stack
        /\ q.streams = p.streams /\ q.input = p.input
    BY <1>1 DEF Sound, Fields, Done
  <2>2. /\ q.running \in BOOLEAN /\ q.status \in Codes /\ DOMAIN q.aliases = AliasNames
        /\ 1 \in Codes
    BY <1>1, <2>1 DEF Sound, Codes
  <2> HIDE DEF q
  <2> QED
    BY <1>4, <2>1, <2>2, Returns
<1>5. CASE /\ args[1] \in DOMAIN Number
           /\ Become(i, Stopped(p, ExitCode(Number[args[1]])))
  <2>1. ExitCode(Number[args[1]]) \in Codes
    <3>1. Number[args[1]] \in Int
      BY <1>5, LanguageAssumption
    <3> QED
      BY <3>1 DEF ExitCode, Codes
  <2> QED
    BY <1>5, <2>1, Stops
<1> QED
  BY <1>1, <1>2, <1>3, <1>4, <1>5

LEMMA Sources ==
    ASSUME IInv, NEW i \in DOMAIN procs, BuiltinSource(i)
    PROVE  IInv'
<1> DEFINE p == procs[i]
           lines == Files[Args(p.do.tree)[1]]
           q == RunStream(p, lines)
<1>1. /\ Sound(p, i, Len(procs))
      /\ Become(i, Done(p, 2)) \/ Become(i, Done(p, 1)) \/ Become(i, q)
  BY OfProcess DEF BuiltinSource
<1>2. 1 \in Codes /\ 2 \in Codes
  BY DEF Codes
<1>3. CASE Become(i, Done(p, 2)) \/ Become(i, Done(p, 1))
  BY <1>2, <1>3, IsDone
<1>4. CASE Become(i, q)
  <2> HIDE DEF lines
  <2>1. Sound(q, i, Len(procs)) /\ q.do = Reading
    BY <1>1, RunsStream
  <2>2. Fresh(q)
    BY <2>1 DEF Fresh, Reading
  <2> QED
    BY <1>4, <2>1, <2>2, Becomes
<1> QED
  BY <1>1, <1>3, <1>4

\* alias and unalias keep a table of the same names
LEMMA ChangesAliases ==
    ASSUME IInv, NEW i \in DOMAIN procs, NEW code \in Codes, NEW table,
           DOMAIN table = AliasNames,
           Become(i, [Done(procs[i], code) EXCEPT !.aliases = table, !.status = code])
    PROVE  IInv'
<1> DEFINE p == procs[i]
           q == [Done(p, code) EXCEPT !.aliases = table, !.status = code]
<1>1. Sound(p, i, Len(procs))
  BY OfProcess
<1>2. /\ DOMAIN q = Fields /\ q.do = Return(code) /\ q.running = p.running
      /\ q.status = code /\ q.aliases = table /\ q.stack = p.stack
      /\ q.streams = p.streams /\ q.input = p.input
  BY <1>1 DEF Sound, Fields, Done
<1>3. q.running \in BOOLEAN /\ q.status \in Codes /\ DOMAIN q.aliases = AliasNames
  BY <1>1, <1>2 DEF Sound
<1>4. Become(i, q)
  OBVIOUS
<1> HIDE DEF q
<1> QED
  BY <1>2, <1>3, <1>4, Returns

LEMMA SetsAliases ==
    ASSUME IInv, NEW i \in DOMAIN procs, BuiltinAlias(i)
    PROVE  IInv'
<1> DEFINE p == procs[i]
           args == Args(p.do.tree)
           code == IF AliasFails(p.aliases, args) THEN 1 ELSE 0
           table == AliasAll(p.aliases, args)
<1>1. Sound(p, i, Len(procs))
  BY OfProcess
<1> HIDE DEF args
<1>2. code \in Codes
  BY DEF Codes
<1>3. DOMAIN table = AliasNames
  BY <1>1 DEF Sound, AliasAll
<1>4. Done(p, code).aliases = p.aliases
  BY <1>1 DEF Sound, Fields, Done
<1> HIDE DEF code
<1>5. Become(i, [Done(p, code) EXCEPT !.aliases = table, !.status = code])
  BY <1>4 DEF BuiltinAlias, code, args
<1> HIDE DEF table
<1> QED
  BY <1>2, <1>3, <1>5, ChangesAliases

LEMMA UnsetsAliases ==
    ASSUME IInv, NEW i \in DOMAIN procs, BuiltinUnalias(i)
    PROVE  IInv'
<1> DEFINE p == procs[i]
           ws == Args(p.do.tree)
           u == Unaliased(p.aliases, ws)
<1>1. Sound(p, i, Len(procs))
  BY OfProcess
<1>2. Become(i, [Done(p, u.code) EXCEPT !.aliases = u.table, !.status = u.code])
  BY DEF BuiltinUnalias
<1> HIDE DEF ws
<1>3. DOMAIN p.aliases = AliasNames
  BY <1>1 DEF Sound
<1>4. u.code \in Codes /\ DOMAIN u.table = AliasNames
  BY <1>3 DEF Unaliased, NoAliases, Codes
<1> HIDE DEF u
<1> QED
  BY <1>2, <1>4, ChangesAliases

-------------------------------------------------------------------------------
(* main.                                                                   *)

LEMMA Starts ==
    ASSUME IInv, NEW i \in DOMAIN procs, Start(i)
    PROVE  IInv'
<1> DEFINE p == procs[i]
           n == Len(procs)
           missing == [p EXCEPT !.status = 127, !.do = Return(127)]
           f == [fun |-> "stream", saved |-> 0]
           script == [Push(p, f) EXCEPT !.do = Reading]
           g(b) == [fun |-> "repl", interactive |-> b]
           repl == [Push(p, g(FALSE)) EXCEPT !.do = [what |-> "prompt"]]
           rc == IF "rc" \in DOMAIN Files THEN Files["rc"] ELSE <<>>
           interactive == RunStream(Push(p, g(TRUE)), rc)
<1>1. Sound(p, i, n) /\ Fresh(p) /\ p.do.what = "start"
  BY OfProcess DEF Start, Running
<1>2. \/ Become(i, missing) \/ Become(i, script) \/ Become(i, repl)
      \/ Become(i, interactive)
  <2>1. p.do.mode \in {"missing", "script", "repl", "interactive"}
    BY <1>1 DEF Sound, Doing
  <2> QED
    BY <2>1 DEF Start
<1> HIDE DEF rc, f
<1>3. CASE Become(i, missing)
  <2>1. /\ DOMAIN missing = Fields /\ missing.do = Return(127)
        /\ missing.running = p.running /\ missing.status = 127
        /\ missing.aliases = p.aliases /\ missing.stack = p.stack
        /\ missing.streams = p.streams /\ missing.input = p.input
    BY <1>1 DEF Sound, Fields
  <2>2. 127 \in Codes
    BY DEF Codes
  <2> HIDE DEF missing
  <2>3. missing.running \in BOOLEAN /\ DOMAIN missing.aliases = AliasNames
    <3>1. p.running \in BOOLEAN
      BY <1>1 DEF Sound
    <3>2. DOMAIN p.aliases = AliasNames
      BY <1>1 DEF Sound
    <3>3. missing.running = p.running
      BY <2>1
    <3>4. missing.aliases = p.aliases
      BY <2>1
    <3> QED
      BY <3>1, <3>2, <3>3, <3>4
  <2>4. missing.status \in Codes
    <3>1. missing.status = 127
      BY <2>1
    <3> QED
      BY <2>2, <3>1
  <2>5. Later(missing.do, n)
    BY <2>1, <2>2, Laters
  <2> HIDE DEF p, n
  <2> QED
    BY <1>1, <1>3, <2>1, <2>3, <2>4, <2>5, NowIs DEF n
<1>4. CASE Become(i, script)
  <2>1. p.stack = <<[fun |-> "main"]>> /\ Len(p.streams) = 1
    BY <1>1 DEF Fresh
  <2>2. Nested(p.stack, 0)
    <3> DEFINE m == [fun |-> "main"]
    <3>1. m.fun # "stream"
      OBVIOUS
    <3> HIDE DEF m
    <3>2. IsSeq(<<m>>) /\ Len(<<m>>) = 1 /\ <<m>>[1] = m
      BY OneAny
    <3>3. DOMAIN <<m>> = 1..1
      BY <3>2, Indices
    <3>4. \A k \in DOMAIN <<m>> : <<m>>[k].fun # "stream"
      BY <3>1, <3>2, <3>3
    <3> QED
      BY <2>1, <3>4 DEF Nested, m
  <2>3. Stacked(p.stack, i)
    BY <1>1 DEF Sound
  <2>4. f.fun = "stream" /\ f.saved = 0
    BY DEF f
  <2>5. Stacked(Append(p.stack, f), i) /\ Nested(Append(p.stack, f), 0 + 1)
    BY <2>2, <2>3, <2>4, PushedStream
  <2>6. /\ DOMAIN script = Fields /\ script.do = Reading
        /\ script.running = p.running /\ script.status = p.status
        /\ script.aliases = p.aliases /\ script.stack = Append(p.stack, f)
        /\ script.streams = p.streams /\ script.input = p.input
    BY <1>1 DEF Sound, Fields, Push
  <2>7. Later(Reading, n)
    BY Laters
  <2> HIDE DEF script
  <2>8. Stacked(script.stack, i) /\ Nested(script.stack, Len(script.streams))
    <3>1. 0 + 1 = Len(script.streams)
      BY <2>1, <2>6
    <3> QED
      BY <2>5, <2>6, <3>1
  <2>9. Sound(script, i, n) /\ Fresh(script)
    BY <1>1, <2>6, <2>7, <2>8 DEF Sound, Later, Fresh
  <2> QED
    BY <1>4, <2>9, Becomes
<1>5. \A b \in BOOLEAN : g(b).fun \in Ordinary
  BY DEF Ordinary, Frames
<1> HIDE DEF g
<1>6. \A b \in BOOLEAN : Sound(Push(p, g(b)), i, n)
  BY <1>1, <1>5, Pushes
<1>7. CASE Become(i, repl)
  <2>1. Later([what |-> "prompt"], n)
    BY Laters
  <2> QED
    BY <1>6, <1>7, <2>1, NowDoes
<1>8. CASE Become(i, interactive)
  <2>1. Sound(interactive, i, n) /\ interactive.do = Reading
    BY <1>6, RunsStream
  <2> HIDE DEF interactive
  <2>2. Fresh(interactive)
    BY <2>1 DEF Fresh, Reading
  <2> QED
    BY <1>8, <2>1, <2>2, Becomes
<1> QED
  BY <1>2, <1>3, <1>4, <1>7, <1>8

LEMMA RcIsDone ==
    ASSUME IInv, NEW i \in DOMAIN procs, RcDone(i)
    PROVE  IInv'
<1>1. Sound(procs[i], i, Len(procs))
  BY OfProcess
<1>2. Later([what |-> "prompt"], Len(procs))
  BY Laters
<1> QED
  BY <1>1, <1>2, NowDoes DEF RcDone

LEMMA ReadsSignals ==
    ASSUME IInv, NEW i \in DOMAIN procs, SignalsRead(i)
    PROVE  IInv'
<1> DEFINE d == [what |-> "signals", sig |-> pending]
<1>1. Sound(procs[i], i, Len(procs)) /\ Become(i, [procs[i] EXCEPT !.do = d])
  BY OfProcess DEF SignalsRead
<1>2. Later(d, Len(procs))
  BY DEF Later, Doing
<1> HIDE DEF d
<1> QED
  BY <1>1, <1>2, NowDoes

LEMMA ClearsSignals ==
    ASSUME IInv, NEW i \in DOMAIN procs, SignalsClear(i)
    PROVE  IInv'
<1> DEFINE p == procs[i]
           code == IF p.do.sig THEN 130 ELSE p.status
           q == [p EXCEPT !.status = code, !.do = Reading]
<1>1. Sound(p, i, Len(procs))
  BY OfProcess
<1>2. procs' = [procs EXCEPT ![i] = q] /\ pending' = FALSE /\ interrupts' = interrupts
  BY DEF SignalsClear
<1>3. code \in Codes
  BY <1>1 DEF Sound, Codes
<1> HIDE DEF code
<1>4. /\ DOMAIN q = Fields /\ q.do = Reading /\ q.running = p.running
      /\ q.status = code /\ q.aliases = p.aliases /\ q.stack = p.stack
      /\ q.streams = p.streams /\ q.input = p.input
  BY <1>1 DEF Sound, Fields
<1>5. q.running \in BOOLEAN /\ q.status \in Codes /\ DOMAIN q.aliases = AliasNames
  BY <1>1, <1>3, <1>4 DEF Sound
<1>6. Later(Reading, Len(procs))
  BY Laters
<1> HIDE DEF q
<1>7. Sound(q, i, Len(procs)) /\ Fresh(q)
  BY <1>1, <1>4, <1>5, <1>6, Steady DEF Later, Fresh
<1>8. /\ IsSeq(procs')
      /\ \A j \in DOMAIN procs' : Sound(procs'[j], j, Len(procs')) /\ Fresh(procs'[j])
  BY <1>2, <1>7, Replaces
<1> QED
  BY <1>2, <1>8, StaysSound DEF IInv

LEMMA ReplIsOver ==
    ASSUME IInv, NEW i \in DOMAIN procs, ReplEnds(i)
    PROVE  IInv'
<1> DEFINE p == procs[i]
           d == Return(p.status)
<1>1. /\ Sound(p, i, Len(procs)) /\ Top(p).fun = "repl"
      /\ Become(i, [Pop(p) EXCEPT !.do = d])
  BY OfProcess DEF ReplEnds
<1>2. Sound(Pop(p), i, Len(procs))
  BY <1>1, Pops DEF Ordinary, Frames
<1>3. Later(d, Len(procs))
  BY <1>1, Laters DEF Sound
<1> HIDE DEF d
<1> QED
  BY <1>1, <1>2, <1>3, NowDoes

LEMMA MainIsOver ==
    ASSUME IInv, NEW i \in DOMAIN procs, MainReturns(i)
    PROVE  IInv'
<1> DEFINE p == procs[i]
           d == [what |-> "over", code |-> p.status % 256]
<1>1. Sound(p, i, Len(procs)) /\ Become(i, [p EXCEPT !.do = d])
  BY OfProcess DEF MainReturns
<1>2. Later(d, Len(procs))
  <2>1. p.status \in Int
    BY <1>1, CodesAreIntegers DEF Sound
  <2>2. p.status % 256 \in 0..255
    BY <2>1
  <2> QED
    BY <2>2 DEF Later, Doing
<1> HIDE DEF d
<1> QED
  BY <1>1, <1>2, NowDoes

-------------------------------------------------------------------------------
(* Signals.                                                                *)

\* an interrupt adds -1 to the codes there may be
LEMMA MoreCodes ==
    ASSUME IInv, Signalled
    PROVE  /\ pending' = TRUE /\ interrupts' \in 0..MaxInterrupts
           /\ Codes' = Codes \cup {-1}
<1>1. pending' = TRUE /\ interrupts' = interrupts + 1 /\ interrupts < MaxInterrupts
  BY DEF Signalled
<1>2. interrupts \in Nat /\ interrupts' \in 0..MaxInterrupts /\ interrupts' # 0
  BY <1>1, ShellAssumption DEF IInv
<1> QED
  BY <1>1, <1>2 DEF Codes

LEMMA Interrupts == ASSUME IInv, Interrupt PROVE IInv'
<1>1. procs' = procs /\ Signalled
  BY DEF Interrupt
<1>2. /\ pending' = TRUE /\ interrupts' \in 0..MaxInterrupts
      /\ Codes' = Codes \cup {-1}
  BY <1>1, MoreCodes
<1>3. \A i \in DOMAIN procs : (Sound(procs[i], i, Len(procs)) /\ Fresh(procs[i]))'
  BY <1>1, <1>2 DEF IInv, Sound, Doing, Fresh
<1> QED
  BY <1>1, <1>2, <1>3 DEF IInv

LEMMA ReleasedStack ==
    ASSUME NEW stack, IsSeq(stack)
    PROVE  /\ IsSeq(Released(stack)) /\ Len(Released(stack)) = Len(stack)
           /\ DOMAIN Released(stack) = DOMAIN stack
           /\ \A k \in DOMAIN stack :
                  IF stack[k].fun = "line"
                  THEN Released(stack)[k] = [fun |-> "line", want |-> Anything]
                  ELSE Released(stack)[k] = stack[k]
<1> DEFINE e == Released(stack)
           f == [fun |-> "line", want |-> Anything]
           R == {stack[k] : k \in DOMAIN stack} \cup {f}
<1>1. Len(stack) \in Nat /\ DOMAIN stack = 1..Len(stack)
  BY Indices
<1>2. e = [k \in 1..Len(stack) |-> IF stack[k].fun = "line" THEN f ELSE stack[k]]
  BY <1>1 DEF Released
<1>3. \A k \in 1..Len(stack) : stack[k] \in R
  BY <1>1
<1>4. f \in R
  OBVIOUS
<1> HIDE DEF f, R, e
<1>5. e \in Seq(R) /\ Len(e) = Len(stack)
  BY <1>1, <1>2, <1>3, <1>4
<1>6. IsSeq(e)
  BY <1>5, SeqIs
<1> QED
  BY <1>1, <1>2, <1>5, <1>6 DEF e, f

\* the callers stay who they were
LEMMA GivesUpIs ==
    ASSUME NEW p, NEW i, NEW m, Sound(p, i, m)
    PROVE  LET q == GivesUp(p)
           IN  /\ DOMAIN q = Fields /\ q.do = Return(-1) /\ q.running = p.running
               /\ q.status = p.status /\ q.aliases = p.aliases /\ q.ran = p.ran
               /\ q.stack = Released(p.stack) /\ q.streams = p.streams
               /\ q.input = p.input
               /\ Stacked(q.stack, i) /\ Nested(q.stack, Len(q.streams))
<1> DEFINE q == GivesUp(p)
           e == Released(p.stack)
<1>1. /\ DOMAIN q = Fields /\ q.do = Return(-1) /\ q.running = p.running
      /\ q.status = p.status /\ q.aliases = p.aliases /\ q.ran = p.ran
      /\ q.stack = e /\ q.streams = p.streams /\ q.input = p.input
  BY DEF Sound, Fields, GivesUp
<1>2. Stacked(p.stack, i) /\ Nested(p.stack, Len(p.streams))
  BY DEF Sound
<1>3. /\ IsSeq(e) /\ Len(e) = Len(p.stack) /\ DOMAIN e = DOMAIN p.stack
      /\ \A k \in DOMAIN p.stack :
             IF p.stack[k].fun = "line"
             THEN e[k] = [fun |-> "line", want |-> Anything]
             ELSE e[k] = p.stack[k]
  BY <1>2, ReleasedStack DEF Stacked
<1> HIDE DEF q, e
<1>4. /\ \A k \in DOMAIN e : e[k].fun = p.stack[k].fun
      /\ \A k \in DOMAIN e : e[k].fun = "stream" => e[k].saved = p.stack[k].saved
  BY <1>3
<1>5. Len(e) \in Nat /\ Len(e) >= 1 /\ DOMAIN e = 1..Len(e)
  BY <1>2, <1>3, Indices DEF Stacked
<1>6. Stacked(e, i)
  <2>1. e # << >> /\ 1 \in DOMAIN e
    BY <1>3, <1>5, EmptySeq
  <2> QED
    BY <1>2, <1>3, <1>4, <2>1 DEF Stacked
<1>7. Nested(e, Len(p.streams))
  <2> DEFINE n == Len(p.streams)
  <2> SUFFICES ASSUME NEW k \in DOMAIN e, e[k].fun = "stream"
               PROVE  /\ e[k].saved \in Nat
                      /\ (\A l \in (k + 1)..Len(e) : e[l].fun # "stream") =>
                            n = e[k].saved + 1
                      /\ \A j \in (k + 1)..Len(e) :
                            e[j].fun = "stream" /\ (\A l \in (k + 1)..(j - 1) :
                                                        e[l].fun # "stream")
                               => e[j].saved = e[k].saved + 1
    BY DEF Nested
  <2>1. p.stack[k].fun = "stream" /\ e[k].saved = p.stack[k].saved /\ k \in DOMAIN p.stack
    BY <1>3, <1>4
  <2>2. \A l \in (k + 1)..Len(e) : l \in DOMAIN e /\ p.stack[l].fun = e[l].fun
    BY <1>4, <1>5
  <2>3. \A j \in (k + 1)..Len(e) : \A l \in (k + 1)..(j - 1) : l \in (k + 1)..Len(e)
    BY <1>5
  <2>4. \A j \in (k + 1)..Len(e) : e[j].fun = "stream" => e[j].saved = p.stack[j].saved
    BY <1>4, <2>2
  <2> QED
    BY <1>2, <1>3, <2>1, <2>2, <2>3, <2>4 DEF Nested
<1> QED
  BY <1>1, <1>6, <1>7 DEF q, e

\* Root waits no longer, and goes on with -1
LEMMA Releases ==
    ASSUME IInv, Signalled, Root \in DOMAIN procs, NEW p, Sound(p, Root, Len(procs)),
           procs' = [procs EXCEPT ![Root] = GivesUp(p)]
    PROVE  IInv'
<1> DEFINE q == GivesUp(p)
<1>1. /\ pending' = TRUE /\ interrupts' \in 0..MaxInterrupts
      /\ Codes' = Codes \cup {-1}
  BY MoreCodes
<1>2. /\ DOMAIN q = Fields /\ q.do = Return(-1) /\ q.running = p.running
      /\ q.status = p.status /\ q.aliases = p.aliases /\ q.streams = p.streams
      /\ q.input = p.input
      /\ Stacked(q.stack, Root) /\ Nested(q.stack, Len(q.streams))
  BY GivesUpIs
<1> HIDE DEF q
<1>3. IsSeq(procs)
  BY DEF IInv
<1>4. procs' = [procs EXCEPT ![Root] = q]
  BY DEF q
<1>5. IsSeq(procs') /\ Len(procs') = Len(procs) /\ DOMAIN procs' = DOMAIN procs
  <2>1. IsSeq([procs EXCEPT ![Root] = q]) /\ Len([procs EXCEPT ![Root] = q]) = Len(procs)
    BY <1>3, ReplacedAny
  <2> QED
    BY <1>4, <2>1
<1>6. ASSUME NEW i \in DOMAIN procs PROVE (Sound(procs[i], i, Len(procs)) /\ Fresh(procs[i]))'
  <2>1. CASE i = Root
    <3>1. procs'[i] = q
      BY <1>4, <2>1
    <3>2. IsSeq(q.streams) /\ q.input = Len(q.streams)
      BY <1>2 DEF Sound
    <3>3. q.running \in BOOLEAN /\ q.status \in Codes' /\ DOMAIN q.aliases = AliasNames
      BY <1>1, <1>2 DEF Sound
    <3>4. q.do.what = "return" /\ q.do.code \in Codes'
      BY <1>1, <1>2 DEF Return
    <3> QED
      BY <1>2, <2>1, <3>1, <3>2, <3>3, <3>4 DEF Sound, Doing, Fresh
  <2>2. CASE i # Root
    <3>1. procs'[i] = procs[i]
      BY <1>4, <2>2
    <3> DEFINE o == procs[i]
    <3>2. Sound(o, i, Len(procs)) /\ Fresh(o)
      BY DEF IInv
    <3> HIDE DEF o
    <3>3. /\ o.status \in Codes'
          /\ o.do.what = "return" => o.do.code \in Codes'
      BY <1>1, <3>2 DEF Sound, Doing
    <3>4. procs'[i] = o /\ Len(procs') = Len(procs)
      BY <1>5, <3>1 DEF o
    <3>5. Fresh(procs[i])'
      BY <3>2, <3>4 DEF Fresh
    <3>6. Doing(procs[i].do, Len(procs))'
      <4> DEFINE d == o.do
      <4>1. Doing(d, Len(procs)) /\ (d.what = "return" => d.code \in Codes')
        BY <3>2, <3>3 DEF Sound
      <4>2. procs'[i].do = d /\ Len(procs') = Len(procs)
        BY <3>4
      <4> HIDE DEF d
      <4> QED
        BY <4>1, <4>2 DEF Doing
    <3>7. Sound(procs[i], i, Len(procs))'
      BY <3>2, <3>3, <3>4, <3>6 DEF Sound
    <3> QED
      BY <3>5, <3>7
  <2> QED
    BY <2>1, <2>2
<1> QED
  BY <1>1, <1>5, <1>6 DEF IInv

LEMMA WaitIsInterrupted == ASSUME IInv, WaitInterrupted PROVE IInv'
<1>1. /\ Signalled /\ Root \in DOMAIN procs
      /\ procs' = [procs EXCEPT ![Root] = GivesUp(procs[Root])]
  BY DEF WaitInterrupted, Running
<1>2. Sound(procs[Root], Root, Len(procs))
  BY <1>1, OfProcess
<1> QED
  BY <1>1, <1>2, Releases

LEMMA CommandIsInterrupted == ASSUME IInv, CommandInterrupted PROVE IInv'
<1> DEFINE p == procs[Root]
           q == Launched(p)
<1>1. /\ Signalled /\ Root \in DOMAIN procs
      /\ procs' = [procs EXCEPT ![Root] = GivesUp(q)]
  BY DEF CommandInterrupted, RunsExternal, Running
<1>2. Sound(p, Root, Len(procs))
  BY <1>1, OfProcess
<1>3. Sound(q, Root, Len(procs))
  BY <1>2, LaunchedIs
<1> HIDE DEF q
<1> QED
  BY <1>1, <1>3, Releases

-------------------------------------------------------------------------------
(* The theorems.                                                           *)

LEMMA Starting == Init => IInv
<1> SUFFICES ASSUME NEW program \in Programs, procs = <<Process(program)>>,
                    pending = FALSE, interrupts = 0
             PROVE  IInv
  BY DEF Init
<1> DEFINE p == Process(program)
           m == [fun |-> "main"]
           o == Open(program.lines)
<1>1. /\ DOMAIN p = Fields /\ p.running = TRUE /\ p.status = 0 /\ p.aliases = NoAliases
      /\ p.stack = <<m>> /\ p.streams = <<o>> /\ p.input = 1
      /\ p.do = [what |-> "start", mode |-> program.mode]
  BY DEF Process, Fields
<1>2. Doing(p.do, 1)
  BY <1>1, ShellAssumption DEF Doing
<1>3. m.fun = "main"
  OBVIOUS
<1>4. DOMAIN p.aliases = AliasNames
  BY <1>1 DEF NoAliases
<1> HIDE DEF p, m, o
<1>5. IsSeq(<<m>>) /\ Len(<<m>>) = 1 /\ <<m>>[1] = m
  BY OneAny
<1>6. IsSeq(<<o>>) /\ Len(<<o>>) = 1
  BY OneAny
<1>7. IsSeq(<<p>>) /\ Len(<<p>>) = 1 /\ <<p>>[1] = p
  BY OneAny
<1>8. DOMAIN <<m>> = 1..1 /\ DOMAIN <<p>> = 1..1 /\ <<m>> # << >>
  BY <1>5, <1>7, Indices
<1>9. \A k \in DOMAIN <<m>> : <<m>>[k].fun = "main"
  BY <1>3, <1>5, <1>8
<1>10. Stacked(<<m>>, 1)
  <2>1. "main" \in Frames
    BY DEF Frames
  <2>2. \A k \in DOMAIN <<m>> : <<m>>[k].fun \in Frames
    BY <1>9, <2>1
  <2>3. <<m>>[1].fun = "main"
    BY <1>3, <1>5
  <2> QED
    BY <1>5, <1>8, <2>2, <2>3 DEF Stacked, Root
<1>11. Nested(<<m>>, 1)
  BY <1>9 DEF Nested
<1>12. Sound(p, 1, 1)
  <2>1. IsSeq(p.streams) /\ Len(p.streams) = 1 /\ p.input = 1
    BY <1>1, <1>6
  <2>2. Stacked(p.stack, 1) /\ Nested(p.stack, 1)
    BY <1>1, <1>10, <1>11
  <2>3. DOMAIN p = Fields /\ p.running \in BOOLEAN /\ p.status \in Codes
    <3>1. 0 \in Codes /\ TRUE \in BOOLEAN
      BY DEF Codes
    <3>2. p.status \in Codes
      BY <1>1, <3>1
    <3>3. p.running \in BOOLEAN
      BY <1>1, <3>1
    <3> QED
      BY <1>1, <3>2, <3>3
  <2> QED
    BY <1>2, <1>4, <2>1, <2>2, <2>3 DEF Sound
<1>13. Fresh(p)
  BY <1>1, <1>6 DEF Fresh, m
<1>14. procs = <<p>>
  BY DEF p
<1>15. 0 \in 0..MaxInterrupts
  BY ShellAssumption
<1>16. \A i \in DOMAIN procs : i = 1
  BY <1>8, <1>14
<1> QED
  BY <1>7, <1>12, <1>13, <1>14, <1>15, <1>16 DEF IInv

LEMMA Keeping == IInv /\ [Next]_vars => IInv'
<1> SUFFICES ASSUME IInv, [Next]_vars PROVE IInv'
  OBVIOUS
<1>1. CASE UNCHANGED vars
  BY <1>1 DEF IInv, vars, Sound, Doing, Codes, Fresh
<1>2. CASE Terminated
  BY <1>2 DEF IInv, vars, Terminated, Sound, Doing, Codes, Fresh
<1>3. CASE Interrupt
  BY <1>3, Interrupts
<1>4. ASSUME NEW i \in DOMAIN procs, Lines(i) PROVE IInv'
  BY <1>4, EndsStream, ReadsLine, ParsesLine, LineIsDone DEF Lines
<1>5. ASSUME NEW i \in DOMAIN procs, Executor(i) PROVE IInv'
  BY <1>5, Skips, ExecutesSimple, ExecutesLeft, ExecutesRight, ExecutesBlock,
     BlockIsDone, NodeIsDone, ExecutesSubshell, ExecutesPipeline,
     ExecutesBackground, Collects, ChildIsOver DEF Executor
<1>6. ASSUME NEW i \in DOMAIN procs, Commands(i) PROVE IInv'
  <2>1. ASSUME RedirectionFails(i) \/ AssignmentOnly(i) PROVE IInv'
    <3>1. Become(i, Done(procs[i], 1)) \/ Become(i, Done(procs[i], 0))
      BY <2>1 DEF RedirectionFails, AssignmentOnly
    <3>2. 0 \in Codes /\ 1 \in Codes
      BY DEF Codes
    <3> QED
      BY <3>1, <3>2, IsDone
  <2> QED
    BY <1>6, <2>1, ExternalRuns, Exits, Sources, SetsAliases, UnsetsAliases DEF Commands
<1>7. ASSUME NEW i \in DOMAIN procs, Main(i) PROVE IInv'
  BY <1>7, Starts, RcIsDone, ReadsSignals, ClearsSignals, ReplIsOver, MainIsOver
     DEF Main
<1>8. CASE WaitInterrupted \/ CommandInterrupted
  BY <1>8, WaitIsInterrupted, CommandIsInterrupted
<1> QED
  BY <1>1, <1>2, <1>3, <1>4, <1>5, <1>6, <1>7, <1>8 DEF Next

LEMMA Always == Spec => []IInv
BY Starting, Keeping, PTL DEF Spec

\* Every process, at any depth of functions, files, groups and forks, has a
\* stack of known callers that ends at main or at its own fork, and a table of
\* the alias names.  Until an interrupt, its $? and the codes its functions return
\* fit a byte whatever exit is given (dispatch_node, exec_pipeline, builtin_exit);
\* afterwards they may also be the -1 of an interrupted job_wait, and what a
\* process exits with is a byte even so.
THEOREM TypeCorrect == Spec => []TypeOK
<1>1. IInv => TypeOK
  <2> SUFFICES ASSUME IInv, NEW i \in DOMAIN procs
               PROVE  /\ procs[i].running \in BOOLEAN /\ procs[i].status \in Codes
                      /\ DOMAIN procs[i].aliases = AliasNames
                      /\ procs[i].stack # <<>>
                      /\ procs[i].stack[1].fun = IF i = Root THEN "main" ELSE "child"
                      /\ \A k \in DOMAIN procs[i].stack : procs[i].stack[k].fun \in Frames
                      /\ procs[i].do.what = "return" => procs[i].do.code \in Codes
                      /\ procs[i].do.what = "over" => procs[i].do.code \in 0..255
    BY DEF TypeOK, IInv
  <2>1. Sound(procs[i], i, Len(procs))
    BY OfProcess
  <2> QED
    BY <2>1 DEF Sound, Stacked, Doing
<1> QED
  BY <1>1, Always, PTL

\* Whatever ends a sourced file, the rc file or a script, and however deep they
\* source each other, the shell goes on reading the stream it was reading before
\* (shell_run_stream's saved input).
THEOREM ReadsInnermostCorrect == Spec => []ReadsInnermost
<1>1. IInv => ReadsInnermost
  BY DEF IInv, Sound, ReadsInnermost
<1> QED
  BY <1>1, Always, PTL
===============================================================================
