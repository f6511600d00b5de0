------------------------------ MODULE MeaningProofs ------------------------------
(***************************************************************************)
(* Proof that the executor implements the language: whatever the programs, *)
(* the files and the interleaving, a line leaves the shell as its meaning  *)
(* (Language) says, with the commands run that the meaning runs.           *)
(***************************************************************************)
EXTENDS ShellProofs, WellFoundedInduction

-------------------------------------------------------------------------------
(* The hypotheses.                                                         *)

\* the lines the shell has to read
Known == LinesOf(Programs)

\* the trees the parser finds in them, whatever the aliases
Parses == CHOOSE trees : Grammar(trees, Known) /\ Means(trees, Known)

Lawful == Grammar(Parses, Known) /\ Means(Parses, Known)

Familiar(lines) == \A k \in DOMAIN lines : lines[k] \in Known

-------------------------------------------------------------------------------
(* The invariant.  What a process does next is due to leave some state; each *)
(* frame turns the state its callee leaves into the one it leaves itself.    *)

Being(status, running, aliases, ran) ==
    [status |-> status, running |-> running, aliases |-> aliases, ran |-> ran]

Now(p)        == Being(p.status, p.running, p.aliases, p.ran)
After(p, code) == Being(code, p.running, p.aliases, p.ran)

\* the lines of a stream that are still to be read
Rest(s) == SubSeq(s.lines, s.at, Len(s.lines))

\* frame f, given the state got, leaves the state left; of a line whose wait a
\* signal ended nothing is wanted
Linked(f, streams, got, left) ==
    /\ f.fun \in {"node", "block", "line"} => left = got
    /\ f.fun = "line" => f.want \in {Anything, got}
    /\ f.fun = "child" => f.want = got
    /\ f.fun \in {"&&", "||", ";"} => left = MeaningOfRight(f.fun, f.right, got)
    /\ f.fun = "stream" => left = WantedOfLines(Rest(streams[f.saved + 1]), got)

\* ws[k + 1] is the state frame k is to get, w what the innermost is to get
Links(ws, stack, streams, w) ==
    /\ IsSeq(ws) /\ Len(ws) = Len(stack) + 1 /\ ws[Len(stack) + 1] = w
    /\ \A k \in 1..Len(stack) : Linked(stack[k], streams, ws[k + 1], ws[k])

Chain(stack, streams, w) == \E ws : Links(ws, stack, streams, w)

\* the status a child of the processes ps should exit with
Ordered(ps, j) == ps[j].stack[1].want.status % 256

\* what process p does next is to leave the state w
Due(p, ps, w) ==
    /\ p.do.what = "exec" =>
           w = IF p.running THEN Wanted(p.do.tree, Now(p)) ELSE Now(p)
    /\ p.do.what = "command" => w = MeaningOfCommand(p.do.tree, Now(p))
    /\ p.do.what = "return" => w = After(p, p.do.code)
    /\ p.do.what = "wait" => w = After(p, Ordered(ps, p.do.last))
    /\ p.do.what = "scan" =>
           w = MeaningOfTree(ParseTokens(p.do.scan.line), Now(p))
    /\ p.do.what = "read" /\ Top(p).fun = "stream" => w = Now(p)

\* main calls repl_loop; the streams that are open above it leave it its own
Spared(stack, n) ==
    /\ n >= 1 /\ stack[1].fun = "main"
    /\ \A j \in DOMAIN stack : stack[j].fun = "stream" => stack[j].saved >= 1

\* the right side that a frame keeps is a tree the parser can find
Keeps(f) == f.fun \in {"&&", "||", ";"} => f.right \in Parses

\* who calls whom, with n streams open; each waiting shell_run_stream has its own
Callers(stack, n) ==
    \A k \in DOMAIN stack :
        /\ stack[k].fun \in {"main", "child"} => k = 1
        /\ Keeps(stack[k])
        /\ stack[k].fun = "repl" => k = 2 /\ Spared(stack, n)
        /\ stack[k].fun = "line" => k > 1 /\ stack[k - 1].fun \in {"stream", "repl"}
        /\ stack[k].fun = "stream" =>
               /\ stack[k].saved \in Nat /\ stack[k].saved < n
               /\ \A j \in 1..(k - 1) :
                      stack[j].fun = "stream" => stack[j].saved < stack[k].saved

Readable(s) ==
    /\ DOMAIN s = {"lines", "at"}
    /\ IsSeq(s.lines) /\ s.at \in 1..(Len(s.lines) + 1) /\ Familiar(s.lines)

\* what a process does fits where it stands
Busy(p, i) ==
    /\ p.do.what = "scan" =>
           p.running /\ ParseTokens(p.do.scan.line) \in Parses \cup {NoTree}
    /\ p.do.what \in {"exec", "command"} => p.do.tree \in Parses
    /\ p.do.what = "command" => Top(p).fun \in {"node", "child"} /\ p.do.tree.op = "cmd"
    /\ p.do.what = "wait" => Top(p).fun = "node" /\ p.do.last # Root
    /\ p.do.what = "read" => Top(p).fun \in {"stream", "repl"}
    /\ p.do.what \in {"prompt", "signals"} => Top(p).fun = "repl"
    /\ p.do.what = "return" /\ Top(p).fun \notin {"node", "child"} =>
           p.do.code = p.status
    /\ p.do.what = "over" /\ i # Root => p.do.code = p.stack[1].want.status % 256

Placed(p, i) ==
    /\ p.aliases \in Tables
    /\ Callers(p.stack, Len(p.streams))
    /\ \A k \in DOMAIN p.streams : Readable(p.streams[k])
    /\ Busy(p, i)

Meant(p, i, ps) ==
    /\ Placed(p, i)
    /\ \E w : Due(p, ps, w) /\ Chain(p.stack, p.streams, w)

MInv == IInv /\ \A i \in DOMAIN procs : Meant(procs[i], i, procs)

-------------------------------------------------------------------------------
(* Stacks and the states they promise.                                     *)

LEMMA FrontAndLast ==
    ASSUME NEW s, IsSeq(s), s # << >>
    PROVE  Append(SubSeq(s, 1, Len(s) - 1), s[Len(s)]) = s
<1> DEFINE n == Len(s)
           t == SubSeq(s, 1, n - 1)
           a == Append(t, s[n])
<1>1. n \in Nat /\ n >= 1 /\ DOMAIN s = 1..n
  BY Indices
<1>2. IsSeq(t) /\ Len(t) = n - 1 /\ \A k \in 1..Len(t) : t[k] = s[k]
  BY FrontAny
<1> HIDE DEF t
<1>3. /\ IsSeq(a) /\ Len(a) = Len(t) + 1 /\ a[Len(t) + 1] = s[n]
      /\ \A k \in 1..Len(t) : a[k] = t[k]
  BY <1>2, AppendAny
<1> HIDE DEF a, n
<1>4. Len(a) = n /\ a[n] = s[n] /\ \A k \in 1..(n - 1) : a[k] = s[k]
  BY <1>1, <1>2, <1>3
<1>5. DOMAIN a = 1..n
  BY <1>3, <1>4, Indices
<1>6. \A k \in 1..n : a[k] = s[k]
  BY <1>1, <1>4
<1>7. a = s
  <2>1. a = [k \in DOMAIN a |-> a[k]] /\ s = [k \in DOMAIN s |-> s[k]]
    <3>1. a = [k \in DOMAIN a |-> a[k]]
      BY <1>3 DEF IsSeq
    <3>2. s = [k \in DOMAIN s |-> s[k]]
      BY DEF IsSeq
    <3> QED
      BY <3>1, <3>2
  <2> QED
    BY <1>1, <1>5, <1>6, <2>1
<1> QED
  BY <1>7 DEF a, t, n

LEMMA Chained ==
    ASSUME NEW stack, IsSeq(stack), NEW streams, NEW w, Chain(stack, streams, w),
           NEW f, NEW v, Linked(f, streams, v, w)
    PROVE  Chain(Append(stack, f), streams, v)
<1>1. PICK ws : Links(ws, stack, streams, w)
  BY DEF Chain
<1> DEFINE us == Append(ws, v)
           a == Append(stack, f)
           n == Len(stack)
<1>2. n \in Nat
  BY Indices
<1>3. IsSeq(ws) /\ Len(ws) = n + 1 /\ ws[n + 1] = w
  BY <1>1 DEF Links
<1>4. /\ IsSeq(us) /\ Len(us) = Len(ws) + 1 /\ us[Len(ws) + 1] = v
      /\ \A k \in 1..Len(ws) : us[k] = ws[k]
  BY <1>3, AppendAny
<1>5. Len(a) = n + 1 /\ a[n + 1] = f /\ \A k \in 1..n : a[k] = stack[k]
  BY AppendAny
<1>6. \A k \in 1..n : Linked(stack[k], streams, ws[k + 1], ws[k])
  BY <1>1 DEF Links
<1> HIDE DEF us, a, n
<1>7. Len(us) = Len(a) + 1 /\ us[Len(a) + 1] = v
  BY <1>2, <1>3, <1>4, <1>5
<1>8. ASSUME NEW k \in 1..Len(a) PROVE Linked(a[k], streams, us[k + 1], us[k])
  <2>1. CASE k = n + 1
    <3>1. us[k] = w /\ us[k + 1] = v /\ a[k] = f
      BY <1>2, <1>3, <1>4, <1>5, <2>1
    <3> QED
      BY <3>1
  <2>2. CASE k \in 1..n
    <3>1. us[k] = ws[k] /\ us[k + 1] = ws[k + 1] /\ a[k] = stack[k]
      BY <1>2, <1>3, <1>4, <1>5, <2>2
    <3> QED
      BY <1>6, <2>2, <3>1
  <2> QED
    BY <1>2, <1>5, <2>1, <2>2
<1>9. Links(us, a, streams, v)
  BY <1>4, <1>7, <1>8 DEF Links
<1> QED
  BY <1>9 DEF Chain, a

LEMMA Unchained ==
    ASSUME NEW stack, IsSeq(stack), stack # << >>, NEW streams, NEW w,
           Chain(stack, streams, w)
    PROVE  \E v : /\ Linked(stack[Len(stack)], streams, w, v)
                  /\ Chain(SubSeq(stack, 1, Len(stack) - 1), streams, v)
<1>1. PICK ws : Links(ws, stack, streams, w)
  BY DEF Chain
<1> DEFINE n == Len(stack)
           us == SubSeq(ws, 1, Len(ws) - 1)
           a == SubSeq(stack, 1, n - 1)
<1>2. n \in Nat /\ n >= 1
  BY Indices
<1>3. IsSeq(ws) /\ Len(ws) = n + 1 /\ ws[n + 1] = w
  BY <1>1 DEF Links
<1>4. ws # << >>
  BY <1>2, <1>3, EmptySeq
<1>5. IsSeq(us) /\ Len(us) = Len(ws) - 1 /\ \A k \in 1..Len(us) : us[k] = ws[k]
  BY <1>3, <1>4, FrontAny
<1>6. Len(a) = n - 1 /\ \A k \in 1..Len(a) : a[k] = stack[k]
  BY FrontAny
<1>7. \A k \in 1..n : Linked(stack[k], streams, ws[k + 1], ws[k])
  BY <1>1 DEF Links
<1> HIDE DEF us, a, n
<1>8. Linked(stack[n], streams, w, ws[n])
  BY <1>2, <1>3, <1>7
<1>9. Len(us) = Len(a) + 1 /\ us[Len(a) + 1] = ws[n]
  BY <1>2, <1>3, <1>5, <1>6
<1>10. ASSUME NEW k \in 1..Len(a) PROVE Linked(a[k], streams, us[k + 1], us[k])
  <2>1. us[k] = ws[k] /\ us[k + 1] = ws[k + 1] /\ a[k] = stack[k] /\ k \in 1..n
    BY <1>2, <1>3, <1>5, <1>6
  <2> QED
    BY <1>7, <2>1
<1>11. Links(us, a, streams, ws[n])
  BY <1>5, <1>9, <1>10 DEF Links
<1> QED
  BY <1>8, <1>11 DEF Chain, a, n

LEMMA Rechained ==
    ASSUME NEW stack, NEW streams, NEW others, NEW w, Chain(stack, streams, w),
           \A k \in 1..Len(stack) : stack[k].fun = "stream" =>
               others[stack[k].saved + 1] = streams[stack[k].saved + 1]
    PROVE  Chain(stack, others, w)
<1>1. PICK ws : Links(ws, stack, streams, w)
  BY DEF Chain
<1>2. ASSUME NEW k \in 1..Len(stack) PROVE Linked(stack[k], others, ws[k + 1], ws[k])
  <2>1. Linked(stack[k], streams, ws[k + 1], ws[k])
    BY <1>1 DEF Links
  <2> QED
    BY <2>1 DEF Linked
<1> QED
  BY <1>1, <1>2 DEF Links, Chain

LEMMA ChainOfOne ==
    ASSUME NEW f, NEW streams, NEW w, Linked(f, streams, w, w)
    PROVE  Chain(<<f>>, streams, w)
<1> DEFINE ws == Append(<<w>>, w)
           a == <<f>>
<1>1. IsSeq(<<w>>) /\ Len(<<w>>) = 1 /\ <<w>>[1] = w
  BY OneAny
<1>2. IsSeq(ws) /\ Len(ws) = 2 /\ ws[1] = w /\ ws[2] = w
  BY <1>1, AppendAny
<1>3. Len(a) = 1 /\ a[1] = f
  BY OneAny
<1> HIDE DEF ws, a
<1>4. Links(ws, a, streams, w)
  BY <1>2, <1>3 DEF Links
<1> QED
  BY <1>4 DEF Chain, a

LEMMA KeepsNone ==
    ASSUME NEW f, f.fun \notin {"&&", "||", ";"}
    PROVE  Keeps(f)
BY DEF Keeps

LEMMA CallersPushed ==
    ASSUME NEW stack, IsSeq(stack), stack # << >>, NEW n \in Nat, NEW m \in Nat, n <= m,
           Callers(stack, n), NEW f, f.fun \notin {"main", "child"},
           f.fun = "repl" => Len(stack) = 1 /\ stack[1].fun = "main" /\ n >= 1,
           f.fun = "line" => stack[Len(stack)].fun \in {"stream", "repl"},
           f.fun = "stream" => f.saved = n /\ n < m,
           Keeps(f)
    PROVE  Callers(Append(stack, f), m)
<1> DEFINE a == Append(stack, f)
           l == Len(stack)
<1>1. l \in Nat /\ l >= 1 /\ DOMAIN stack = 1..l
  BY Indices
<1>2. IsSeq(a) /\ Len(a) = l + 1 /\ a[l + 1] = f /\ \A k \in 1..l : a[k] = stack[k]
  BY AppendAny
<1>3. DOMAIN a = 1..(l + 1)
  BY <1>2, Indices
<1>4. /\ f.fun = "repl" => l = 1 /\ stack[1].fun = "main" /\ n >= 1
      /\ f.fun = "line" => stack[l].fun \in {"stream", "repl"}
      /\ Keeps(f)
  OBVIOUS
<1> HIDE DEF a, l
<1>6. ASSUME NEW k \in DOMAIN a, a[k].fun = "repl"
      PROVE  k = 2 /\ Spared(a, m)
  <2>1. CASE k = l + 1
    <3>1. l = 1 /\ stack[1].fun = "main" /\ n >= 1 /\ f.fun # "stream"
      BY <1>2, <1>4, <1>6, <2>1
    <3>2. \A j \in DOMAIN a : a[j].fun # "stream"
      BY <1>2, <1>3, <3>1
    <3>3. a[1].fun = "main"
      BY <1>1, <1>2, <3>1
    <3> QED
      BY <2>1, <3>1, <3>2, <3>3 DEF Spared
  <2>2. CASE k \in 1..l
    <3>1. k = 2 /\ Spared(stack, n)
      BY <1>1, <1>2, <1>6, <2>2 DEF Callers
    <3>2. ASSUME NEW j \in DOMAIN a, a[j].fun = "stream" PROVE a[j].saved >= 1
      <4>1. j \in 1..l \/ j = l + 1
        BY <1>1, <1>3
      <4> QED
        BY <1>1, <1>2, <3>1, <3>2, <4>1 DEF Spared
    <3>3. a[1] = stack[1]
      BY <1>1, <1>2
    <3> QED
      BY <3>1, <3>2, <3>3 DEF Spared
  <2> QED
    BY <1>1, <1>3, <2>1, <2>2
<1>5. ASSUME NEW k \in DOMAIN a
      PROVE  /\ a[k].fun \in {"main", "child"} => k = 1
             /\ a[k].fun = "line" => k > 1 /\ a[k - 1].fun \in {"stream", "repl"}
             /\ a[k].fun = "stream" =>
                   /\ a[k].saved \in Nat /\ a[k].saved < m
                   /\ \A j \in 1..(k - 1) :
                          a[j].fun = "stream" => a[j].saved < a[k].saved
  <2>1. CASE k = l + 1
    <3>1. a[k] = f /\ k - 1 = l /\ k > 1 /\ a[k - 1] = stack[l]
      BY <1>1, <1>2, <2>1
    <3>2. ASSUME a[k].fun = "stream", NEW j \in 1..(k - 1), a[j].fun = "stream"
          PROVE  a[j].saved < a[k].saved
      <4>1. j \in DOMAIN stack /\ a[j] = stack[j]
        BY <1>1, <1>2, <3>1
      <4>2. stack[j].saved < n
        BY <3>2, <4>1 DEF Callers
      <4> QED
        BY <3>1, <3>2, <4>1, <4>2
    <3> QED
      BY <1>1, <1>4, <2>1, <3>1, <3>2
  <2>2. CASE k \in 1..l
    <3>1. a[k] = stack[k] /\ k \in DOMAIN stack
      BY <1>1, <1>2, <2>2
    <3>2. k > 1 => a[k - 1] = stack[k - 1]
      BY <1>1, <1>2, <2>2
    <3>3. \A j \in 1..(k - 1) : a[j] = stack[j]
      BY <1>1, <1>2, <2>2
    <3>4. ASSUME a[k].fun = "stream"
          PROVE  /\ a[k].saved \in Nat /\ a[k].saved < m
                 /\ \A j \in 1..(k - 1) :
                        a[j].fun = "stream" => a[j].saved < a[k].saved
      <4>1. /\ stack[k].saved \in Nat /\ stack[k].saved < n
            /\ \A j \in 1..(k - 1) :
                   stack[j].fun = "stream" => stack[j].saved < stack[k].saved
        BY <3>1, <3>4 DEF Callers
      <4> QED
        BY <3>1, <3>3, <4>1
    <3> QED
      BY <3>1, <3>2, <3>4 DEF Callers
  <2> QED
    BY <1>1, <1>3, <2>1, <2>2
<1>7. ASSUME NEW k \in DOMAIN a PROVE Keeps(a[k])
  <2>1. CASE k = l + 1
    BY <1>2, <1>4, <1>7, <2>1
  <2>2. CASE k \in 1..l
    <3>1. a[k] = stack[k] /\ k \in DOMAIN stack
      BY <1>1, <1>2, <2>2
    <3> QED
      BY <1>7, <3>1 DEF Callers
  <2> QED
    BY <1>1, <1>3, <2>1, <2>2
<1> QED
  BY <1>5, <1>6, <1>7 DEF Callers, a

LEMMA CallersPopped ==
    ASSUME NEW stack, IsSeq(stack), stack # << >>, NEW n, Callers(stack, n), NEW m,
           \A k \in 1..(Len(stack) - 1) :
               /\ stack[k].fun = "stream" => stack[k].saved < m
               /\ stack[k].fun = "repl" => m >= 1
    PROVE  Callers(SubSeq(stack, 1, Len(stack) - 1), m)
<1> DEFINE l == Len(stack)
           a == SubSeq(stack, 1, l - 1)
<1>1. l \in Nat /\ l >= 1 /\ DOMAIN stack = 1..l
  BY Indices
<1>2. IsSeq(a) /\ Len(a) = l - 1 /\ \A k \in 1..Len(a) : a[k] = stack[k]
  BY FrontAny
<1>3. DOMAIN a = 1..(l - 1)
  BY <1>2, Indices
<1>4. \A k \in 1..(l - 1) :
          /\ stack[k].fun = "stream" => stack[k].saved < m
          /\ stack[k].fun = "repl" => m >= 1
  OBVIOUS
<1> HIDE DEF a, l
<1>6. ASSUME NEW k \in DOMAIN a, a[k].fun = "repl"
      PROVE  k = 2 /\ Spared(a, m)
  <2>1. k \in DOMAIN stack /\ k \in 1..(l - 1) /\ stack[k].fun = "repl"
    BY <1>1, <1>2, <1>3, <1>6
  <2>2. k = 2 /\ Spared(stack, n) /\ m >= 1
    <3>1. m >= 1
      BY <1>4, <2>1
    <3>2. k = 2 /\ Spared(stack, n)
      BY <2>1 DEF Callers
    <3> QED
      BY <3>1, <3>2
  <2>3. \A j \in DOMAIN a : j \in DOMAIN stack /\ a[j] = stack[j]
    BY <1>1, <1>2, <1>3
  <2>4. a[1] = stack[1]
    BY <1>1, <1>2, <2>1, <2>2
  <2> QED
    BY <2>2, <2>3, <2>4 DEF Spared
<1>5. ASSUME NEW k \in DOMAIN a
      PROVE  /\ a[k].fun \in {"main", "child"} => k = 1
             /\ a[k].fun = "line" => k > 1 /\ a[k - 1].fun \in {"stream", "repl"}
             /\ a[k].fun = "stream" =>
                   /\ a[k].saved \in Nat /\ a[k].saved < m
                   /\ \A j \in 1..(k - 1) :
                          a[j].fun = "stream" => a[j].saved < a[k].saved
  <2>1. k \in DOMAIN stack /\ k \in 1..(l - 1) /\ a[k] = stack[k]
    BY <1>1, <1>2, <1>3
  <2>2. k > 1 => a[k - 1] = stack[k - 1]
    BY <1>1, <1>2, <2>1
  <2>3. \A j \in 1..(k - 1) : a[j] = stack[j]
    BY <1>1, <1>2, <2>1
  <2>4. a[k].fun = "stream" =>
            /\ a[k].saved \in Nat /\ a[k].saved < m
            /\ \A j \in 1..(k - 1) : a[j].fun = "stream" => a[j].saved < a[k].saved
    <3>1. stack[k].fun = "stream" => stack[k].saved < m
      BY <1>4, <2>1
    <3>2. stack[k].fun = "stream" =>
              /\ stack[k].saved \in Nat
              /\ \A j \in 1..(k - 1) :
                     stack[j].fun = "stream" => stack[j].saved < stack[k].saved
      BY <2>1 DEF Callers
    <3> QED
      BY <2>1, <2>3, <3>1, <3>2
  <2> QED
    BY <2>1, <2>2, <2>4 DEF Callers
<1>7. ASSUME NEW k \in DOMAIN a PROVE Keeps(a[k])
  <2>1. k \in DOMAIN stack /\ a[k] = stack[k]
    BY <1>1, <1>2, <1>3
  <2> QED
    BY <1>7, <2>1 DEF Callers
<1> QED
  BY <1>5, <1>6, <1>7 DEF Callers, a, l

-------------------------------------------------------------------------------
(* States, and what the parts of a tree do to them.                        *)

LEMMA BeingIs ==
    ASSUME NEW s, NEW r, NEW a, NEW x
    PROVE  /\ Being(s, r, a, x).status = s /\ Being(s, r, a, x).running = r
           /\ Being(s, r, a, x).aliases = a /\ Being(s, r, a, x).ran = x
BY DEF Being

LEMMA BeingWith ==
    ASSUME NEW s, NEW r, NEW a, NEW x
    PROVE  /\ \A n : [Being(s, r, a, x) EXCEPT !.status = n] = Being(n, r, a, x)
           /\ \A n : [Being(s, r, a, x) EXCEPT !.running = n] = Being(s, n, a, x)
           /\ \A n : [Being(s, r, a, x) EXCEPT !.aliases = n] = Being(s, r, n, x)
           /\ \A n : [Being(s, r, a, x) EXCEPT !.ran = n] = Being(s, r, a, n)
BY DEF Being

LEMMA Stating ==
    ASSUME NEW p
    PROVE  /\ [State(p) EXCEPT !.ran = p.ran] = Now(p)
           /\ \A n : [State(p) EXCEPT !.ran = p.ran, !.status = n] = After(p, n)
           /\ State(p) = Being(p.status, p.running, p.aliases, << >>)
           /\ After(p, p.status) = Now(p)
           /\ [Now(p) EXCEPT !.ran = << >>] = State(p)
<1>1. State(p) = Being(p.status, p.running, p.aliases, << >>)
  BY DEF State, Being
<1>2. [State(p) EXCEPT !.ran = p.ran] = Now(p)
  BY <1>1, BeingWith DEF Now
<1>3. \A n : [State(p) EXCEPT !.ran = p.ran, !.status = n] = After(p, n)
  <2> SUFFICES ASSUME NEW n
               PROVE  [State(p) EXCEPT !.ran = p.ran, !.status = n] = After(p, n)
    OBVIOUS
  <2>1. [State(p) EXCEPT !.ran = p.ran, !.status = n]
            = [[State(p) EXCEPT !.ran = p.ran] EXCEPT !.status = n]
    OBVIOUS
  <2>2. [Now(p) EXCEPT !.status = n] = After(p, n)
    BY BeingWith DEF Now, After
  <2> QED
    BY <1>2, <2>1, <2>2
<1>4. [Now(p) EXCEPT !.ran = << >>] = State(p)
  BY <1>1, BeingWith DEF Now
<1>5. After(p, p.status) = Now(p)
  BY DEF After, Now
<1> QED
  BY <1>1, <1>2, <1>3, <1>4, <1>5

\* a process's state has its alias table
LEMMA OwnTable ==
    ASSUME NEW p
    PROVE  Now(p).aliases = p.aliases /\ State(p).aliases = p.aliases
<1>1. State(p) = Being(p.status, p.running, p.aliases, << >>)
  BY Stating
<1> QED
  BY <1>1, BeingIs DEF Now

\* the parts of a tree the parser can find
LEMMA PartsOf ==
    ASSUME Lawful, NEW t \in Parses
    PROVE  /\ t.op = "cmd" => t.argv \in Seq(Range(t.argv))
           /\ t.op \in {"&&", "||", "|", ";"} => t.left \in Parses /\ t.right \in Parses
           /\ t.op \in {"block", "sub", "&"} => t.child \in Parses
BY DEF Lawful, Grammar

LEMMA OfTree ==
    ASSUME Lawful, NEW t \in Parses, NEW st, st.aliases \in Tables
    PROVE  /\ t.op = "cmd" => Wanted(t, st) = MeaningOfCommand(t, st)
           /\ t.op \in {"&&", "||", ";"} =>
                  Wanted(t, st) = MeaningOfRight(t.op, t.right, Wanted(t.left, st))
           /\ t.op = "block" => Wanted(t, st) =
                  IF CannotOpen(t.redirs) THEN [st EXCEPT !.status = 1]
                  ELSE Wanted(t.child, st)
           /\ t.op = "sub" => Wanted(t, st) =
                  IF CannotOpen(t.redirs) THEN [st EXCEPT !.status = 1]
                  ELSE InCopy(t.child, st)
           /\ t.op = "|" => Wanted(t, st) = InCopy(t.right, st)
           /\ t.op = "&" => Wanted(t, st) = [st EXCEPT !.status = 0]
<1>1. Wanted(t, st) = MeaningByParts(t, st)
  BY DEF Lawful, Means
<1>2. t.op = "cmd" => MeaningByParts(t, st) = MeaningOfCommand(t, st)
  BY DEF MeaningByParts
<1>3. t.op \in {"&&", "||", ";"} =>
          MeaningByParts(t, st) = MeaningOfRight(t.op, t.right, Wanted(t.left, st))
  BY DEF MeaningByParts
<1>4. t.op = "block" => MeaningByParts(t, st) =
          IF CannotOpen(t.redirs) THEN [st EXCEPT !.status = 1] ELSE Wanted(t.child, st)
  BY DEF MeaningByParts
<1>5. t.op = "sub" => MeaningByParts(t, st) =
          IF CannotOpen(t.redirs) THEN [st EXCEPT !.status = 1] ELSE InCopy(t.child, st)
  BY DEF MeaningByParts
<1>6. t.op = "|" => MeaningByParts(t, st) = InCopy(t.right, st)
  BY DEF MeaningByParts
<1>7. t.op = "&" => MeaningByParts(t, st) = [st EXCEPT !.status = 0]
  BY DEF MeaningByParts
<1> QED
  BY <1>1, <1>2, <1>3, <1>4, <1>5, <1>6, <1>7

LEMMA OfLines ==
    ASSUME Lawful, NEW ls \in Seq(Known), NEW st, st.aliases \in Tables
    PROVE  /\ ls = << >> \/ ~st.running => WantedOfLines(ls, st) = st
           /\ ls # << >> /\ st.running =>
                  WantedOfLines(ls, st) = WantedOfLines(Tail(ls), MeaningOfLine(Head(ls), st))
<1>1. WantedOfLines(ls, st) = LinesByParts(ls, st)
  BY DEF Lawful, Means
<1> QED
  BY <1>1 DEF LinesByParts

LEMMA OfAlias ==
    ASSUME NEW args, NEW s, NEW r, NEW a, NEW x
    PROVE  /\ MeaningOfCall("alias", args, Being(s, r, a, x)) =
                  Being(IF AliasFails(a, args) THEN 1 ELSE 0, r, AliasAll(a, args), x)
           /\ MeaningOfCall("unalias", args, Being(s, r, a, x)) =
                  Being(Unaliased(a, args).code, r, Unaliased(a, args).table, x)
<1> DEFINE st == Being(s, r, a, x)
           code == IF AliasFails(a, args) THEN 1 ELSE 0
           all == AliasAll(a, args)
           u == Unaliased(a, args)
<1>1. st.aliases = a
  BY BeingIs
<1>2. MeaningOfCall("alias", args, st) = [[st EXCEPT !.status = code] EXCEPT !.aliases = all]
  <2> HIDE DEF st
  <2>1. MeaningOfCall("alias", args, st) =
            [st EXCEPT !.status = IF AliasFails(st.aliases, args) THEN 1 ELSE 0,
                       !.aliases = AliasAll(st.aliases, args)]
    BY DEF MeaningOfCall
  <2> QED
    BY <1>1, <2>1
<1>3. MeaningOfCall("unalias", args, st) = [[st EXCEPT !.status = u.code] EXCEPT !.aliases = u.table]
  <2> HIDE DEF st
  <2>1. MeaningOfCall("unalias", args, st) =
            [st EXCEPT !.status = Unaliased(st.aliases, args).code,
                       !.aliases = Unaliased(st.aliases, args).table]
    BY DEF MeaningOfCall
  <2> QED
    BY <1>1, <2>1
<1> HIDE DEF code, all, u
<1>4. \A n : [st EXCEPT !.status = n] = Being(n, r, a, x)
  BY BeingWith
<1>5. \A n, m : [Being(n, r, a, x) EXCEPT !.aliases = m] = Being(n, r, m, x)
  BY BeingWith
<1> HIDE DEF st
<1> QED
  BY <1>2, <1>3, <1>4, <1>5 DEF st, code, all, u

LEMMA OfExternal ==
    ASSUME NEW name, name \notin {"exit", ".", "alias", "unalias"}, NEW args,
           NEW s, NEW r, NEW a, NEW x
    PROVE  MeaningOfCall(name, args, Being(s, r, a, x)) =
               Being(IF name \in DOMAIN External THEN External[name] ELSE 127,
                     r, a, Append(x, <<name, s>>))
<1> DEFINE st == Being(s, r, a, x)
           code == IF name \in DOMAIN External THEN External[name] ELSE 127
           e == Append(x, <<name, s>>)
<1>1. st.ran = x /\ st.status = s
  BY BeingIs
<1>2. MeaningOfCall(name, args, st) = [[st EXCEPT !.ran = e] EXCEPT !.status = code]
  <2> HIDE DEF st
  <2> QED
    BY <1>1 DEF MeaningOfCall
<1> HIDE DEF code, e
<1>3. [st EXCEPT !.ran = e] = Being(s, r, a, e)
  BY BeingWith
<1>4. [Being(s, r, a, e) EXCEPT !.status = code] = Being(code, r, a, e)
  BY BeingWith
<1> QED
  BY <1>2, <1>3, <1>4 DEF code, e

-------------------------------------------------------------------------------
(* What all steps have in common.                                          *)

\* the children a process waits for are among the first n processes
AwaitsForked(p, n) == p.do.what = "wait" => p.do.last \in 1..n

\* what a process is due to do depends on the other processes only by what the
\* children it waits for were forked to do
LEMMA StillMeant ==
    ASSUME NEW p, NEW i, NEW n, AwaitsForked(p, n), NEW ps, NEW qs,
           \A j \in 1..n : qs[j].stack[1] = ps[j].stack[1],
           Meant(p, i, ps)
    PROVE  Meant(p, i, qs)
<1>1. PICK w : Due(p, ps, w) /\ Chain(p.stack, p.streams, w)
  BY DEF Meant
<1>2. p.do.what = "wait" => Ordered(qs, p.do.last) = Ordered(ps, p.do.last)
  BY DEF Ordered, AwaitsForked
<1>3. Due(p, qs, w)
  BY <1>1, <1>2 DEF Due
<1> QED
  BY <1>1, <1>3 DEF Meant

LEMMA Proceeds ==
    ASSUME MInv, IInv', NEW i \in DOMAIN procs, NEW q,
           procs' = [procs EXCEPT ![i] = q],
           q.stack[1] = procs[i].stack[1], Meant(q, i, procs)
    PROVE  MInv'
<1>1. IsSeq(procs)
  BY DEF MInv, IInv
<1>2. Len(procs') = Len(procs) /\ DOMAIN procs' = DOMAIN procs
  BY <1>1, ReplacedAny
<1>3. \A j \in DOMAIN procs : procs'[j] = IF j = i THEN q ELSE procs[j]
  OBVIOUS
<1>4. DOMAIN procs = 1..Len(procs)
  BY <1>1, Indices
<1>5. \A j \in 1..Len(procs) : procs'[j].stack[1] = procs[j].stack[1]
  BY <1>3, <1>4
<1>7. \A k \in DOMAIN procs' : AwaitsForked(procs'[k], Len(procs'))
  BY DEF IInv, Sound, Doing, AwaitsForked
<1>6. ASSUME NEW j \in DOMAIN procs' PROVE Meant(procs'[j], j, procs')
  <2>1. Meant(procs'[j], j, procs)
    BY <1>2, <1>3 DEF MInv
  <2>2. AwaitsForked(procs'[j], Len(procs))
    BY <1>2, <1>7
  <2> DEFINE r == procs'[j]
             n == Len(procs)
             qs == procs'
  <2>3. /\ Meant(r, j, procs) /\ AwaitsForked(r, n)
        /\ \A k \in 1..n : qs[k].stack[1] = procs[k].stack[1]
    BY <1>5, <2>1, <2>2
  <2> HIDE DEF r, n, qs
  <2>4. Meant(r, j, qs)
    BY <2>3, StillMeant
  <2> QED
    BY <2>4 DEF r, qs
<1> QED
  BY <1>6 DEF MInv

LEMMA Multiplies ==
    ASSUME MInv, IInv', NEW i \in DOMAIN procs, NEW q, NEW cs, IsSeq(cs),
           Forked(i, q, cs), q.stack[1] = procs[i].stack[1], Meant(q, i, procs'),
           \A k \in 1..Len(cs) : Meant(cs[k], Len(procs) + k, procs')
    PROVE  MInv'
<1> DEFINE a == [procs EXCEPT ![i] = q]
           n == Len(procs)
           m == Len(cs)
<1>1. IsSeq(procs)
  BY DEF MInv, IInv
<1>2. IsSeq(a) /\ Len(a) = n
  BY <1>1, ReplacedAny
<1>3. n \in Nat /\ DOMAIN procs = 1..n /\ m \in Nat
  BY <1>1, Indices
<1>4. \A j \in DOMAIN procs : a[j] = IF j = i THEN q ELSE procs[j]
  OBVIOUS
<1>5. procs' = a \o cs
  BY DEF Forked
<1>6. \A k \in 1..m : Meant(cs[k], n + k, procs')
  OBVIOUS
<1> HIDE DEF a
<1>7. /\ IsSeq(a \o cs) /\ Len(a \o cs) = Len(a) + m
      /\ \A k \in 1..(Len(a) + m) :
             (a \o cs)[k] = IF k <= Len(a) THEN a[k] ELSE cs[k - Len(a)]
  BY <1>2, ConcatAny
<1>8. \A j \in DOMAIN procs : Sound(procs[j], j, n) /\ Meant(procs[j], j, procs)
  BY DEF MInv, IInv
<1> HIDE DEF n, m
<1>9. /\ IsSeq(procs') /\ Len(procs') = n + m
      /\ \A k \in 1..(n + m) : procs'[k] = IF k <= n THEN a[k] ELSE cs[k - n]
  BY <1>2, <1>5, <1>7
<1>10. DOMAIN procs' = 1..(n + m)
  BY <1>9, Indices
<1>11. \A j \in 1..n : procs'[j] = IF j = i THEN q ELSE procs[j]
  BY <1>3, <1>4, <1>9
<1>12. \A j \in 1..n : procs'[j].stack[1] = procs[j].stack[1]
  BY <1>11
<1>13. ASSUME NEW j \in 1..(n + m) PROVE Meant(procs'[j], j, procs')
  <2>1. CASE j <= n
    <3>1. j \in DOMAIN procs /\ j \in 1..n
      BY <1>3, <2>1
    <3>2. CASE j = i
      BY <1>11, <3>1, <3>2
    <3>3. CASE j # i
      <4>1. Sound(procs[j], j, n) /\ Meant(procs[j], j, procs)
        BY <1>8, <3>1
      <4>3. AwaitsForked(procs[j], n)
        BY <4>1 DEF Sound, Doing, AwaitsForked
      <4>2. Meant(procs[j], j, procs')
        BY <1>12, <4>1, <4>3, StillMeant
      <4> QED
        BY <1>11, <3>1, <3>3, <4>2
    <3> QED
      BY <3>2, <3>3
  <2>2. CASE j > n
    <3> DEFINE k == j - n
    <3>1. k \in 1..m /\ n + k = j /\ procs'[j] = cs[k]
      BY <1>3, <1>9, <2>2
    <3> HIDE DEF k
    <3> QED
      BY <1>6, <3>1
  <2> QED
    BY <1>3, <2>1, <2>2
<1> QED
  BY <1>10, <1>13 DEF MInv

LEMMA OfMeant ==
    ASSUME MInv, NEW i \in DOMAIN procs
    PROVE  /\ Sound(procs[i], i, Len(procs)) /\ Fresh(procs[i])
           /\ IsSeq(procs[i].stack) /\ procs[i].stack # << >>
           /\ IsSeq(procs[i].streams)
           /\ Placed(procs[i], i)
           /\ \E w : Due(procs[i], procs, w) /\ Chain(procs[i].stack, procs[i].streams, w)
<1>1. Sound(procs[i], i, Len(procs)) /\ Fresh(procs[i])
  BY OfProcess DEF MInv
<1>2. Meant(procs[i], i, procs)
  BY DEF MInv
<1> QED
  BY <1>1, <1>2 DEF Sound, Stacked, Meant

\* a step that leaves the stack and the streams alone
LEMMA GoesOn ==
    ASSUME MInv, IInv', NEW i \in DOMAIN procs, NEW q,
           procs' = [procs EXCEPT ![i] = q],
           q.stack = procs[i].stack, q.streams = procs[i].streams,
           q.aliases = procs[i].aliases \/ q.aliases \in Tables, Busy(q, i),
           \A w : Due(procs[i], procs, w) => Due(q, procs, w)
    PROVE  MInv'
<1>1. Meant(q, i, procs)
  <2>1. PICK w : Due(procs[i], procs, w) /\ Chain(procs[i].stack, procs[i].streams, w)
    BY OfMeant
  <2>2. Placed(q, i)
    BY OfMeant DEF Placed
  <2> QED
    BY <2>1, <2>2 DEF Meant
<1> QED
  BY <1>1, Proceeds

Inner == {"node", "block", "&&", "||", ";"}

\* a frame of the executor on top
LEMMA Entered ==
    ASSUME NEW stack, IsSeq(stack), stack # << >>, NEW n \in Nat, Callers(stack, n),
           NEW streams, NEW w, Chain(stack, streams, w),
           NEW f, f.fun \in Inner,
           Keeps(f), NEW v, Linked(f, streams, v, w)
    PROVE  /\ IsSeq(Append(stack, f)) /\ Append(stack, f) # << >>
           /\ Append(stack, f)[Len(Append(stack, f))] = f
           /\ Append(stack, f)[1] = stack[1]
           /\ Callers(Append(stack, f), n) /\ Chain(Append(stack, f), streams, v)
<1> DEFINE a == Append(stack, f)
<1>1. /\ IsSeq(a) /\ Len(a) = Len(stack) + 1 /\ a[Len(stack) + 1] = f /\ a # << >>
      /\ \A k \in 1..Len(stack) : a[k] = stack[k]
  BY AppendAny
<1>2. Len(stack) \in Nat /\ Len(stack) >= 1
  BY Indices
<1>3. a[1] = stack[1]
  BY <1>1, <1>2
<1>4. n <= n
  OBVIOUS
<1>5. f.fun \notin {"main", "child"} /\ f.fun # "repl" /\ f.fun # "line" /\ f.fun # "stream"
  BY DEF Inner
<1>6. Callers(a, n)
  BY <1>4, <1>5, CallersPushed
<1>7. Chain(a, streams, v)
  BY Chained
<1> QED
  BY <1>1, <1>3, <1>6, <1>7

\* the executor's frame on top returns
LEMMA Left ==
    ASSUME MInv, NEW i \in DOMAIN procs, Top(procs[i]).fun \notin {"main", "child"}
    PROVE  LET p == procs[i]
               s == SubSeq(p.stack, 1, Len(p.stack) - 1)
           IN  /\ IsSeq(s) /\ s # << >> /\ s[1] = p.stack[1]
               /\ Callers(s, Len(p.streams))
               /\ Append(s, Top(p)) = p.stack
               /\ \A w : Chain(p.stack, p.streams, w) =>
                      \E v : Linked(Top(p), p.streams, w, v) /\ Chain(s, p.streams, v)
<1> DEFINE p == procs[i]
           s == SubSeq(p.stack, 1, Len(p.stack) - 1)
<1>1. IsSeq(p.stack) /\ p.stack # << >> /\ Sound(p, i, Len(procs)) /\ Placed(p, i)
  BY OfMeant
<1>2. Len(p.stack) \in Nat /\ Len(p.stack) >= 2 /\ DOMAIN p.stack = 1..Len(p.stack)
  <2>1. Stacked(p.stack, i)
    BY <1>1 DEF Sound
  <2> HIDE DEF p
  <2>2. Top(p).fun \notin {"main", "child"}
    BY DEF p
  <2> QED
    BY <2>1, <2>2, TopIs
<1>3. IsSeq(s) /\ Len(s) = Len(p.stack) - 1 /\ \A k \in 1..Len(s) : s[k] = p.stack[k]
  BY <1>1, FrontAny
<1>4. Append(s, Top(p)) = p.stack
  BY <1>1, FrontAndLast DEF Top
<1>5. \A w : Chain(p.stack, p.streams, w) =>
          \E v : Linked(Top(p), p.streams, w, v) /\ Chain(s, p.streams, v)
  BY <1>1, Unchained DEF Top
<1>6. s # << >> /\ s[1] = p.stack[1]
  <2> HIDE DEF s, p
  <2> QED
    BY <1>2, <1>3, EmptySeq
<1>7. Callers(s, Len(p.streams))
  <2>1. Callers(p.stack, Len(p.streams))
    BY <1>1 DEF Placed
  <2>2. \A k \in 1..(Len(p.stack) - 1) :
            /\ p.stack[k].fun = "stream" => p.stack[k].saved < Len(p.streams)
            /\ p.stack[k].fun = "repl" => Len(p.streams) >= 1
    BY <1>2, <2>1 DEF Callers, Spared
  <2> QED
    BY <1>1, <2>1, <2>2, CallersPopped
<1> QED
  BY <1>3, <1>4, <1>5, <1>6, <1>7

-------------------------------------------------------------------------------
(* Reading.                                                                *)

LEMMA TopStream ==
    ASSUME NEW p, NEW i, NEW n, Sound(p, i, n), Top(p).fun = "stream"
    PROVE  /\ Top(p).saved \in Nat /\ Len(p.streams) = Top(p).saved + 1
           /\ Len(p.stack) \in Nat /\ Len(p.stack) >= 2
           /\ DOMAIN p.stack = 1..Len(p.stack)
<1>1. Stacked(p.stack, i) /\ Nested(p.stack, Len(p.streams))
  BY DEF Sound
<1>2. Len(p.stack) \in Nat /\ Len(p.stack) >= 2 /\ DOMAIN p.stack = 1..Len(p.stack)
  BY <1>1, TopIs
<1>3. Len(p.stack) \in DOMAIN p.stack
  BY <1>2
<1>4. Top(p).saved \in Nat
  BY <1>1, <1>3 DEF Nested, Top
<1>5. Len(p.streams) = Top(p).saved + 1
  BY <1>1, PoppedStack
<1> QED
  BY <1>2, <1>4, <1>5

LEMMA RestKnown == ASSUME NEW s, Readable(s) PROVE Rest(s) \in Seq(Known)
<1> DEFINE ls == s.lines
           n == Len(ls)
           at == s.at
<1>1. n \in Nat /\ at \in 1..(n + 1) /\ \A k \in 1..n : ls[k] \in Known
  BY Indices DEF Readable, Familiar
<1>2. Rest(s) = SubSeq(ls, at, n)
  BY DEF Rest
<1> HIDE DEF ls, n, at
<1>3. \A k \in at..n : ls[k] \in Known
  BY <1>1
<1> QED
  BY <1>1, <1>2, <1>3, SubSeqProperties

\* nothing is left to read, or a shell that is to exit does not read it
LEMMA NothingRest ==
    ASSUME Lawful, NEW s, Readable(s), NEW st, st.aliases \in Tables,
           ~st.running \/ s.at > Len(s.lines)
    PROVE  WantedOfLines(Rest(s), st) = st
<1>0. Rest(s) \in Seq(Known)
  BY RestKnown
<1>1. CASE ~st.running
  BY <1>0, <1>1, OfLines
<1>2. CASE s.at > Len(s.lines)
  <2>1. IsSeq(s.lines) /\ s.at \in 1..(Len(s.lines) + 1)
    BY DEF Readable
  <2>2. Len(s.lines) \in Nat
    BY <2>1, Indices
  <2>3. Rest(s) = << >>
    BY <1>2, <2>1, <2>2 DEF Rest
  <2> QED
    BY <1>0, <2>3, OfLines
<1> QED
  BY <1>1, <1>2

LEMMA EndStreamMeant ==
    ASSUME Lawful, MInv, IInv', NEW i \in DOMAIN procs, EndStream(i)
    PROVE  MInv'
<1> DEFINE p == procs[i]
           n == Len(procs)
           q == Pop(StreamOver(p))
           s == SubSeq(p.stack, 1, Len(p.stack) - 1)
           t == SubSeq(p.streams, 1, Len(p.streams) - 1)
           f == Top(p)
<1>1. /\ Sound(p, i, n) /\ f.fun = "stream" /\ p.do.what = "read"
      /\ ~p.running \/ Stream(p).at > Len(Stream(p).lines)
      /\ procs' = [procs EXCEPT ![i] = q]
  BY OfMeant DEF EndStream, Become, Running, AtEnd
<1>2. /\ q.stack = s /\ q.streams = t /\ q.do = Return(p.status) /\ q.running = p.running
      /\ q.status = p.status /\ q.aliases = p.aliases /\ q.ran = p.ran
  BY <1>1 DEF Sound, Fields, Pop, StreamOver
<1>3. /\ IsSeq(p.stack) /\ p.stack # << >> /\ IsSeq(p.streams) /\ Placed(p, i)
      /\ \E w : Due(p, procs, w) /\ Chain(p.stack, p.streams, w)
  BY OfMeant
<1>4. /\ f.saved \in Nat /\ Len(p.streams) = f.saved + 1
      /\ Len(p.stack) \in Nat /\ Len(p.stack) >= 2 /\ DOMAIN p.stack = 1..Len(p.stack)
  BY <1>1, TopStream
<1>5. IsSeq(t) /\ Len(t) = f.saved /\ \A k \in 1..f.saved : t[k] = p.streams[k]
  <2>1. p.streams # << >>
    BY <1>4, EmptySeq
  <2>2. IsSeq(t) /\ Len(t) = Len(p.streams) - 1 /\ \A k \in 1..Len(t) : t[k] = p.streams[k]
    BY <1>3, <2>1, FrontAny
  <2> QED
    BY <1>4, <2>2
<1>6. f.fun \notin {"main", "child"}
  BY <1>1
<1>7. /\ IsSeq(s) /\ s # << >> /\ s[1] = p.stack[1]
      /\ \A w : Chain(p.stack, p.streams, w) =>
             \E v : Linked(f, p.streams, w, v) /\ Chain(s, p.streams, v)
  BY <1>6, Left
<1>8. \A k \in 1..(Len(p.stack) - 1) :
          /\ p.stack[k].fun = "stream" => p.stack[k].saved \in Nat /\ p.stack[k].saved < f.saved
          /\ p.stack[k].fun = "repl" => f.saved >= 1
  <2>1. Callers(p.stack, Len(p.streams)) /\ f = p.stack[Len(p.stack)]
    BY <1>3 DEF Placed, Top
  <2>2. Len(p.stack) \in DOMAIN p.stack /\ \A k \in 1..(Len(p.stack) - 1) : k \in DOMAIN p.stack
    BY <1>4
  <2> HIDE DEF f
  <2>3. \A k \in 1..(Len(p.stack) - 1) : p.stack[k].fun = "stream" =>
            p.stack[k].saved \in Nat /\ p.stack[k].saved < f.saved
    BY <1>1, <2>1, <2>2 DEF Callers
  <2>4. \A k \in 1..(Len(p.stack) - 1) : p.stack[k].fun = "repl" => f.saved >= 1
    BY <1>1, <2>1, <2>2 DEF Callers, Spared
  <2> QED
    BY <2>3, <2>4
<1>9. Callers(s, Len(t))
  <2>1. Callers(p.stack, Len(p.streams))
    BY <1>3 DEF Placed
  <2> HIDE DEF t, f
  <2>2. \A k \in 1..(Len(p.stack) - 1) :
          /\ p.stack[k].fun = "stream" => p.stack[k].saved < Len(t)
          /\ p.stack[k].fun = "repl" => Len(t) >= 1
    BY <1>5, <1>8
  <2> QED
    BY <1>3, <2>1, <2>2, CallersPopped
<1>10. PICK w : Due(p, procs, w) /\ Chain(p.stack, p.streams, w)
  BY <1>3
<1>11. w = Now(p)
  BY <1>1, <1>10 DEF Due
<1>12. PICK v : Linked(f, p.streams, w, v) /\ Chain(s, p.streams, v)
  BY <1>7, <1>10
<1>13. v = Now(p)
  <2>1. v = WantedOfLines(Rest(p.streams[f.saved + 1]), w)
    BY <1>1, <1>12 DEF Linked
  <2>2. Stream(p) = p.streams[f.saved + 1]
    BY <1>1, <1>4 DEF Sound, Stream
  <2>3. Readable(Stream(p))
    <3>1. f.saved + 1 \in DOMAIN p.streams
      <4>1. DOMAIN p.streams = 1..Len(p.streams)
        BY <1>3, Indices
      <4> QED
        BY <1>4, <4>1
    <3> QED
      BY <1>3, <2>2, <3>1 DEF Placed
  <2>4. w.running = p.running /\ w.aliases = p.aliases /\ p.aliases \in Tables
    BY <1>3, <1>11, BeingIs DEF Now, Placed
  <2>5. WantedOfLines(Rest(Stream(p)), w) = w
    BY <1>1, <2>3, <2>4, NothingRest
  <2> QED
    BY <1>11, <2>1, <2>2, <2>5
<1>14. Chain(s, t, v)
  <2>1. \A k \in 1..Len(s) : s[k].fun = "stream" =>
            t[s[k].saved + 1] = p.streams[s[k].saved + 1]
    <3>1. Len(s) = Len(p.stack) - 1 /\ \A k \in 1..Len(s) : s[k] = p.stack[k]
      BY <1>3, FrontAny
    <3> HIDE DEF s, t, f
    <3> SUFFICES ASSUME NEW k \in 1..Len(s), s[k].fun = "stream"
                 PROVE  t[s[k].saved + 1] = p.streams[s[k].saved + 1]
      OBVIOUS
    <3>2. s[k].saved \in Nat /\ s[k].saved < f.saved
      BY <1>8, <3>1
    <3>3. s[k].saved + 1 \in 1..f.saved
      BY <1>4, <3>2
    <3> QED
      BY <1>5, <3>3
  <2> HIDE DEF s, t
  <2> QED
    BY <1>12, <2>1, Rechained
<1>15. \A k \in DOMAIN t : Readable(t[k])
  <2>1. DOMAIN t = 1..Len(t) /\ DOMAIN p.streams = 1..Len(p.streams)
    BY <1>3, <1>5, Indices
  <2> HIDE DEF t, f
  <2>2. \A k \in DOMAIN t : k \in DOMAIN p.streams /\ t[k] = p.streams[k]
    BY <1>4, <1>5, <2>1
  <2> QED
    BY <1>3, <2>2 DEF Placed
<1> HIDE DEF q, s, t, f
<1>16. Busy(q, i)
  BY <1>2 DEF Busy, Return
<1>17. Due(q, procs, v)
  <2>1. After(q, p.status) = Now(p)
    BY <1>2, Stating DEF After, Now
  <2> QED
    BY <1>2, <1>13, <2>1 DEF Due, Return
<1>18. Meant(q, i, procs)
  BY <1>2, <1>3, <1>9, <1>14, <1>15, <1>16, <1>17 DEF Meant, Placed
<1> QED
  BY <1>1, <1>2, <1>7, <1>18, Proceeds

-------------------------------------------------------------------------------
(* The executor.                                                           *)

\* a step that calls: f waits for what the process does next
LEMMA Enters ==
    ASSUME MInv, IInv', NEW i \in DOMAIN procs, NEW q, NEW f,
           procs' = [procs EXCEPT ![i] = q], f.fun \in Inner,
           q.stack = Append(procs[i].stack, f), q.streams = procs[i].streams,
           q.aliases = procs[i].aliases, Busy(q, i),
           Keeps(f),
           \A w : Due(procs[i], procs, w) =>
               \E v : Linked(f, q.streams, v, w) /\ Due(q, procs, v)
    PROVE  MInv'
<1> DEFINE p == procs[i]
<1>1. /\ IsSeq(p.stack) /\ p.stack # << >> /\ IsSeq(p.streams) /\ Placed(p, i)
      /\ \E w : Due(p, procs, w) /\ Chain(p.stack, p.streams, w)
  BY OfMeant
<1>2. PICK w : Due(p, procs, w) /\ Chain(p.stack, p.streams, w)
  BY <1>1
<1>3. PICK v : Linked(f, p.streams, v, w) /\ Due(q, procs, v)
  BY <1>2
<1>4. Len(p.streams) \in Nat /\ Callers(p.stack, Len(p.streams))
  BY <1>1, Indices DEF Placed
<1>5. /\ Append(p.stack, f)[1] = p.stack[1]
      /\ Callers(Append(p.stack, f), Len(p.streams)) /\ Chain(Append(p.stack, f), p.streams, v)
  BY <1>1, <1>2, <1>3, <1>4, Entered
<1>6. Meant(q, i, procs)
  BY <1>1, <1>3, <1>5 DEF Meant, Placed
<1> QED
  BY <1>5, <1>6, Proceeds

\* two calls in one step: dispatch_node, and the node's own function
LEMMA EntersTwo ==
    ASSUME MInv, IInv', NEW i \in DOMAIN procs, NEW q, NEW f, NEW g,
           procs' = [procs EXCEPT ![i] = q], f.fun \in Inner, g.fun \in Inner,
           q.stack = Append(Append(procs[i].stack, f), g),
           q.streams = procs[i].streams, q.aliases = procs[i].aliases, Busy(q, i),
           Keeps(f), Keeps(g),
           \A w : Due(procs[i], procs, w) =>
               \E u, v : /\ Linked(f, q.streams, u, w) /\ Linked(g, q.streams, v, u)
                         /\ Due(q, procs, v)
    PROVE  MInv'
<1> DEFINE p == procs[i]
           a == Append(p.stack, f)
<1>1. /\ IsSeq(p.stack) /\ p.stack # << >> /\ IsSeq(p.streams) /\ Placed(p, i)
      /\ \E w : Due(p, procs, w) /\ Chain(p.stack, p.streams, w)
  BY OfMeant
<1>2. PICK w : Due(p, procs, w) /\ Chain(p.stack, p.streams, w)
  BY <1>1
<1>3. PICK u, v : Linked(f, p.streams, u, w) /\ Linked(g, p.streams, v, u) /\ Due(q, procs, v)
  BY <1>2
<1>4. Len(p.streams) \in Nat /\ Callers(p.stack, Len(p.streams))
  BY <1>1, Indices DEF Placed
<1>5. /\ IsSeq(a) /\ a # << >> /\ a[1] = p.stack[1]
      /\ Callers(a, Len(p.streams)) /\ Chain(a, p.streams, u)
  BY <1>1, <1>2, <1>3, <1>4, Entered
<1> HIDE DEF a
<1>6. /\ Append(a, g)[1] = a[1]
      /\ Callers(Append(a, g), Len(p.streams)) /\ Chain(Append(a, g), p.streams, v)
  BY <1>3, <1>4, <1>5, Entered
<1>7. q.stack = Append(a, g)
  BY DEF a
<1>8. Meant(q, i, procs)
  BY <1>1, <1>3, <1>6, <1>7 DEF Meant, Placed
<1> QED
  BY <1>5, <1>6, <1>7, <1>8, Proceeds

\* a step that returns to the frame beneath
LEMMA GoesBack ==
    ASSUME MInv, IInv', NEW i \in DOMAIN procs, NEW q,
           Top(procs[i]).fun \notin {"main", "child"},
           procs' = [procs EXCEPT ![i] = q],
           q.stack = SubSeq(procs[i].stack, 1, Len(procs[i].stack) - 1),
           q.streams = procs[i].streams, q.aliases = procs[i].aliases, Busy(q, i),
           \A x, y : Due(procs[i], procs, x) /\ Linked(Top(procs[i]), q.streams, x, y)
                        => Due(q, procs, y)
    PROVE  MInv'
<1> DEFINE p == procs[i]
           s == SubSeq(p.stack, 1, Len(p.stack) - 1)
<1>1. Placed(p, i)
  BY OfMeant
<1>2. PICK w : Due(p, procs, w) /\ Chain(p.stack, p.streams, w)
  BY OfMeant
<1>3. s[1] = p.stack[1] /\ Callers(s, Len(p.streams))
  BY Left
<1>4. \E v : Linked(Top(p), p.streams, w, v) /\ Chain(s, p.streams, v)
  BY <1>2, Left
<1>5. PICK v : Linked(Top(p), p.streams, w, v) /\ Chain(s, p.streams, v)
  BY <1>4
<1>6. Due(q, procs, v)
  BY <1>2, <1>5
<1>7. q.stack = s /\ q.streams = p.streams /\ q.aliases = p.aliases /\ Busy(q, i)
  OBVIOUS
<1> HIDE DEF s
<1>8. Meant(q, i, procs)
  BY <1>1, <1>3, <1>5, <1>6, <1>7 DEF Meant, Placed
<1>9. q.stack[1] = p.stack[1]
  BY <1>3, <1>7
<1> QED
  BY <1>8, <1>9, Proceeds

\* a pushed or a popped process, field by field
LEMMA PushIs ==
    ASSUME NEW p, DOMAIN p = Fields, NEW f, NEW d
    PROVE  LET q == [Push(p, f) EXCEPT !.do = d]
           IN  /\ DOMAIN q = Fields /\ q.do = d /\ q.stack = Append(p.stack, f)
               /\ q.streams = p.streams /\ q.running = p.running /\ q.status = p.status
               /\ q.aliases = p.aliases /\ q.ran = p.ran /\ q.input = p.input
BY DEF Push, Fields

LEMMA PopIs ==
    ASSUME NEW p, DOMAIN p = Fields, NEW d
    PROVE  LET q == [Pop(p) EXCEPT !.do = d]
           IN  /\ DOMAIN q = Fields /\ q.do = d
               /\ q.stack = SubSeq(p.stack, 1, Len(p.stack) - 1)
               /\ q.streams = p.streams /\ q.running = p.running /\ q.status = p.status
               /\ q.aliases = p.aliases /\ q.ran = p.ran /\ q.input = p.input
BY DEF Pop, Fields

LEMMA DoesIs ==
    ASSUME NEW p, DOMAIN p = Fields, NEW d
    PROVE  LET q == [p EXCEPT !.do = d]
           IN  /\ DOMAIN q = Fields /\ q.do = d /\ q.stack = p.stack
               /\ q.streams = p.streams /\ q.running = p.running /\ q.status = p.status
               /\ q.aliases = p.aliases /\ q.ran = p.ran /\ q.input = p.input
BY DEF Fields

LEMMA SameNow ==
    ASSUME NEW p, NEW q, q.running = p.running, q.aliases = p.aliases, q.ran = p.ran
    PROVE  /\ q.status = p.status => Now(q) = Now(p)
           /\ \A n : After(q, n) = After(p, n)
           /\ \A n : q.status = n => Now(q) = After(p, n)
BY DEF Now, After

LEMMA TopOf ==
    ASSUME NEW p, NEW s, IsSeq(s), NEW f, p.stack = Append(s, f)
    PROVE  Top(p) = f
<1>1. Len(Append(s, f)) = Len(s) + 1 /\ Append(s, f)[Len(s) + 1] = f
  BY AppendAny
<1> QED
  BY <1>1 DEF Top

LEMMA ParseLineMeant ==
    ASSUME Lawful, MInv, IInv', NEW i \in DOMAIN procs, ParseLine(i)
    PROVE  MInv'
<1> DEFINE p == procs[i]
           t == ParseTokens(p.do.scan.line)
           q == [p EXCEPT !.do = Exec(t)]
           r == [p EXCEPT !.status = 2, !.do = Return(2)]
<1>1. /\ Sound(p, i, Len(procs)) /\ Placed(p, i) /\ p.do.what = "scan"
      /\ procs' = [procs EXCEPT ![i] = IF t = NoTree THEN r ELSE q]
  BY OfMeant DEF ParseLine, Become, Running
<1>2. p.running /\ DOMAIN p = Fields /\ t \in Parses \cup {NoTree}
  BY <1>1 DEF Placed, Busy, Sound
<1>3. \A w : Due(p, procs, w) => w = MeaningOfTree(t, Now(p))
  BY <1>1 DEF Due
<1>4. CASE t = NoTree
  <2>1. /\ r.stack = p.stack /\ r.streams = p.streams /\ r.running = p.running
        /\ r.aliases = p.aliases /\ r.ran = p.ran /\ r.status = 2 /\ r.do = Return(2)
    BY <1>2 DEF Fields
  <2>2. MeaningOfTree(t, Now(p)) = After(p, 2)
    BY <1>4, BeingWith DEF MeaningOfTree, Now, After
  <2>3. procs' = [procs EXCEPT ![i] = r]
    BY <1>1, <1>4
  <2> HIDE DEF r, t
  <2>4. Busy(r, i)
    BY <2>1 DEF Busy, Return
  <2>5. After(r, 2) = After(p, 2)
    BY <2>1 DEF After
  <2>6. Due(r, procs, After(r, 2))
    BY <2>1 DEF Due, Return
  <2>7. \A w : Due(p, procs, w) => Due(r, procs, w)
    BY <1>3, <2>2, <2>5, <2>6
  <2> QED
    BY <2>1, <2>3, <2>4, <2>7, GoesOn
<1>5. CASE t # NoTree
  <2>1. /\ q.stack = p.stack /\ q.streams = p.streams /\ q.running = p.running
        /\ q.aliases = p.aliases /\ q.ran = p.ran /\ q.status = p.status /\ q.do = Exec(t)
    BY <1>2 DEF Fields
  <2>2. MeaningOfTree(t, Now(p)) = Wanted(t, Now(p))
    BY <1>5 DEF MeaningOfTree
  <2>3. procs' = [procs EXCEPT ![i] = q]
    BY <1>1, <1>5
  <2> HIDE DEF q, t
  <2>4. Busy(q, i)
    BY <1>2, <1>5, <2>1 DEF Busy, Exec
  <2>5. \A w : Due(p, procs, w) => Due(q, procs, w)
    <3>1. Now(q) = Now(p)
      BY <2>1, SameNow
    <3> QED
      BY <1>2, <1>3, <2>1, <2>2, <3>1 DEF Due, Exec
  <2> QED
    BY <2>1, <2>3, <2>4, <2>5, GoesOn
<1> QED
  BY <1>4, <1>5

\* who a line goes back to
LEMMA LineCaller ==
    ASSUME MInv, NEW i \in DOMAIN procs, Top(procs[i]).fun = "line"
    PROVE  Top(Pop(procs[i])).fun \in {"stream", "repl"}
<1> DEFINE p == procs[i]
           s == SubSeq(p.stack, 1, Len(p.stack) - 1)
           n == Len(p.stack)
<1>1. /\ Sound(p, i, Len(procs)) /\ IsSeq(p.stack) /\ p.stack # << >> /\ Placed(p, i)
  BY OfMeant
<1>2. n \in Nat /\ n >= 2 /\ DOMAIN p.stack = 1..n
  <2>1. Stacked(p.stack, i)
    BY <1>1 DEF Sound
  <2> QED
    BY <2>1, TopIs
<1>3. IsSeq(s) /\ Len(s) = n - 1 /\ \A k \in 1..Len(s) : s[k] = p.stack[k]
  BY <1>1, FrontAny
<1>4. Pop(p).stack = s /\ Top(p) = p.stack[n]
  BY <1>1 DEF Pop, Sound, Fields, Top
<1>5. Callers(p.stack, Len(p.streams))
  BY <1>1 DEF Placed
<1>6. p.stack[n].fun = "line"
  BY <1>4
<1> HIDE DEF p, n, s
<1>7. n \in DOMAIN p.stack
  BY <1>2
<1>8. p.stack[n - 1].fun \in {"stream", "repl"}
  BY <1>5, <1>6, <1>7 DEF Callers
<1>9. Top(Pop(p)) = p.stack[n - 1]
  BY <1>2, <1>3, <1>4 DEF Top
<1> QED
  BY <1>8, <1>9 DEF p

LEMMA LineDoneMeant ==
    ASSUME Lawful, MInv, IInv', NEW i \in DOMAIN procs, LineDone(i)
    PROVE  MInv'
<1> DEFINE p == procs[i]
           d == IF Top(Pop(p)).fun = "repl" THEN [what |-> "prompt"] ELSE Reading
           q == [Pop(p) EXCEPT !.do = d]
<1>1. /\ Sound(p, i, Len(procs)) /\ Placed(p, i)
      /\ p.do.what = "return" /\ Top(p).fun = "line"
      /\ procs' = [procs EXCEPT ![i] = q]
  BY OfMeant DEF LineDone, Become, Running
<1>2. p.do.code = p.status
  BY <1>1 DEF Placed, Busy
<1>3. Top(Pop(p)).fun \in {"stream", "repl"}
  BY <1>1, LineCaller
<1>4. \/ d = Reading /\ Top(Pop(p)).fun = "stream"
      \/ d = [what |-> "prompt"] /\ Top(Pop(p)).fun = "repl"
  BY <1>3
<1> HIDE DEF d
<1>5. /\ q.do = d /\ q.stack = SubSeq(p.stack, 1, Len(p.stack) - 1)
      /\ q.streams = p.streams /\ q.running = p.running /\ q.status = p.status
      /\ q.aliases = p.aliases /\ q.ran = p.ran
  <2>1. DOMAIN p = Fields
    BY <1>1 DEF Sound
  <2> HIDE DEF p
  <2> QED
    BY <2>1, PopIs
<1>6. Top(Pop(p)) = Top(q)
  BY <1>1, <1>5 DEF Top, Pop, Sound, Fields
<1> HIDE DEF q
<1>7. Busy(q, i)
  BY <1>4, <1>5, <1>6 DEF Busy, Reading
<1>8. \A w, v : Due(p, procs, w) /\ Linked(Top(p), q.streams, w, v) => v = Now(q)
  <2>1. \A w : Due(p, procs, w) => w = Now(p)
    BY <1>1, <1>2, Stating DEF Due
  <2>2. \A w, v : Linked(Top(p), q.streams, w, v) => v = w
    BY <1>1 DEF Linked
  <2>3. Now(q) = Now(p)
    BY <1>5, SameNow
  <2> QED
    BY <2>1, <2>2, <2>3
<1>9. Due(q, procs, Now(q))
  BY <1>4, <1>5 DEF Due, Reading
<1>10. \A w, v : Due(p, procs, w) /\ Linked(Top(p), q.streams, w, v) => Due(q, procs, v)
  BY <1>8, <1>9
<1>11. Top(p).fun \notin {"main", "child"}
  BY <1>1
<1> QED
  BY <1>1, <1>5, <1>7, <1>10, <1>11, GoesBack

LEMMA SkipMeant ==
    ASSUME Lawful, MInv, IInv', NEW i \in DOMAIN procs, Skip(i)
    PROVE  MInv'
<1> DEFINE p == procs[i]
           q == [p EXCEPT !.do = Return(p.status)]
<1>1. /\ Sound(p, i, Len(procs)) /\ p.do.what = "exec" /\ ~p.running
      /\ procs' = [procs EXCEPT ![i] = q]
  BY OfMeant DEF Skip, Become, Running
<1>2. /\ q.do = Return(p.status) /\ q.stack = p.stack
      /\ q.streams = p.streams /\ q.running = p.running /\ q.status = p.status
      /\ q.aliases = p.aliases /\ q.ran = p.ran
  BY <1>1, DoesIs DEF Sound
<1> HIDE DEF q
<1>3. Busy(q, i)
  BY <1>2 DEF Busy, Return
<1>4. \A w : Due(p, procs, w) => Due(q, procs, w)
  <2>1. \A w : Due(p, procs, w) => w = Now(p)
    BY <1>1 DEF Due
  <2>2. Now(p) = After(q, p.status)
    <3>1. After(p, p.status) = Now(p)
      BY Stating
    <3>2. After(q, p.status) = After(p, p.status)
      BY <1>2, SameNow
    <3> QED
      BY <3>1, <3>2
  <2> QED
    BY <1>2, <2>1, <2>2 DEF Due, Return
<1> QED
  BY <1>1, <1>2, <1>3, <1>4, GoesOn

\* what is due of a process that is to execute a tree, or to return
LEMMA DueIs ==
    ASSUME NEW q, NEW ps
    PROVE  /\ \A t : q.do = Exec(t) /\ q.running => Due(q, ps, Wanted(t, Now(q)))
           /\ \A t : q.do = Exec(t) /\ ~q.running => Due(q, ps, Now(q))
           /\ \A t : q.do = Run(t) => Due(q, ps, MeaningOfCommand(t, Now(q)))
           /\ \A c : q.do = Return(c) => Due(q, ps, After(q, c))
           /\ \A a, b : q.do = Waiting(a, b) => Due(q, ps, After(q, Ordered(ps, b)))
<1>1. \A t : q.do = Exec(t) => q.do.what = "exec" /\ q.do.tree = t
  BY DEF Exec
<1>2. \A t : q.do = Run(t) => q.do.what = "command" /\ q.do.tree = t
  BY DEF Run
<1>3. \A c : q.do = Return(c) => q.do.what = "return" /\ q.do.code = c
  BY DEF Return
<1>4. \A a, b : q.do = Waiting(a, b) => q.do.what = "wait" /\ q.do.last = b
  BY DEF Waiting
<1>5. \A t : q.do = Exec(t) /\ q.running => Due(q, ps, Wanted(t, Now(q)))
  BY <1>1 DEF Due
<1>6. \A t : q.do = Exec(t) /\ ~q.running => Due(q, ps, Now(q))
  BY <1>1 DEF Due
<1>7. \A t : q.do = Run(t) => Due(q, ps, MeaningOfCommand(t, Now(q)))
  BY <1>2 DEF Due
<1>8. \A c : q.do = Return(c) => Due(q, ps, After(q, c))
  BY <1>3 DEF Due
<1>9. \A a, b : q.do = Waiting(a, b) => Due(q, ps, After(q, Ordered(ps, b)))
  BY <1>4 DEF Due
<1> QED
  BY <1>5, <1>6, <1>7, <1>8, <1>9

LEMMA BusyIs ==
    ASSUME NEW q, NEW i
    PROVE  /\ \A t \in Parses : q.do = Exec(t) => Busy(q, i)
           /\ \A t \in Parses : /\ q.do = Run(t) /\ t.op = "cmd"
                               /\ Top(q).fun \in {"node", "child"}
                               => Busy(q, i)
           /\ \A c : q.do = Return(c) /\ (Top(q).fun \in {"node", "child"} \/ c = q.status)
                      => Busy(q, i)
           /\ \A a, b : q.do = Waiting(a, b) /\ Top(q).fun = "node" /\ b # Root => Busy(q, i)
           /\ q.do = Reading /\ Top(q).fun \in {"stream", "repl"} => Busy(q, i)
<1>1. \A t : q.do = Exec(t) => q.do.what = "exec" /\ q.do.tree = t
  BY DEF Exec
<1>2. \A t : q.do = Run(t) => q.do.what = "command" /\ q.do.tree = t
  BY DEF Run
<1>3. \A c : q.do = Return(c) => q.do.what = "return" /\ q.do.code = c
  BY DEF Return
<1>4. \A a, b : q.do = Waiting(a, b) => q.do.what = "wait" /\ q.do.last = b
  BY DEF Waiting
<1>5. \A t \in Parses : q.do = Exec(t) => Busy(q, i)
  BY <1>1 DEF Busy
<1>6. \A t \in Parses : /\ q.do = Run(t) /\ t.op = "cmd"
                         /\ Top(q).fun \in {"node", "child"}
                         => Busy(q, i)
  BY <1>2 DEF Busy
<1>7. \A c : q.do = Return(c) /\ (Top(q).fun \in {"node", "child"} \/ c = q.status)
                 => Busy(q, i)
  BY <1>3 DEF Busy
<1>8. \A a, b : q.do = Waiting(a, b) /\ Top(q).fun = "node" /\ b # Root => Busy(q, i)
  BY <1>4 DEF Busy
<1>9. q.do = Reading /\ Top(q).fun \in {"stream", "repl"} => Busy(q, i)
  BY DEF Busy, Reading
<1> QED
  BY <1>5, <1>6, <1>7, <1>8, <1>9

LEMMA ExecuteSimpleMeant ==
    ASSUME Lawful, MInv, IInv', NEW i \in DOMAIN procs, ExecuteSimple(i)
    PROVE  MInv'
<1> DEFINE p == procs[i]
           t == p.do.tree
           f == [fun |-> "node"]
           q == [Push(p, f) EXCEPT !.do = Run(t)]
<1>1. /\ p.do.what = "exec" /\ p.running /\ t.op = "cmd"
      /\ procs' = [procs EXCEPT ![i] = [Node(p) EXCEPT !.do = Run(@.tree)]]
  BY DEF ExecuteSimple, Executes, Become, Running
<1>2. /\ DOMAIN p = Fields /\ IsSeq(p.stack)
      /\ t \in Parses /\ Now(p).aliases \in Tables
  BY <1>1, OfMeant, OwnTable DEF Sound, Placed, Busy
<1>3. procs' = [procs EXCEPT ![i] = q]
  <2>1. Node(p) = Push(p, f)
    BY DEF Node
  <2>2. Push(p, f).do = p.do
    BY <1>2 DEF Push, Fields
  <2>3. [Push(p, f) EXCEPT !.do = Run(@.tree)] = q
    BY <2>2
  <2> QED
    BY <1>1, <2>1, <2>3
<1>4. f.fun = "node"
  OBVIOUS
<1> HIDE DEF f
<1>5. /\ q.do = Run(t) /\ q.stack = Append(p.stack, f)
      /\ q.streams = p.streams /\ q.running = p.running /\ q.status = p.status
      /\ q.aliases = p.aliases /\ q.ran = p.ran
  <2> HIDE DEF p, t
  <2> QED
    BY <1>2, PushIs
<1> HIDE DEF q
<1>6. Top(q) = f
  BY <1>2, <1>5, TopOf
<1>7. Busy(q, i)
  BY <1>1, <1>2, <1>4, <1>5, <1>6, BusyIs
<1>8. \A w : Due(p, procs, w) => Linked(f, q.streams, w, w) /\ Due(q, procs, w)
  <2>1. \A w : Due(p, procs, w) => w = MeaningOfCommand(t, Now(p))
    BY <1>1, <1>2, OfTree DEF Due
  <2>2. Now(q) = Now(p)
    BY <1>5, SameNow
  <2>3. \A w : Linked(f, q.streams, w, w)
    BY <1>4 DEF Linked
  <2>4. Due(q, procs, MeaningOfCommand(t, Now(p)))
    BY <1>5, <2>2, DueIs
  <2> QED
    BY <2>1, <2>3, <2>4
<1>9. f.fun \in Inner
  BY <1>4 DEF Inner
<1>10. Keeps(f)
  BY <1>4, KeepsNone
<1> QED
  BY <1>3, <1>5, <1>7, <1>8, <1>9, <1>10, Enters

\* two frames on top, field by field
PushTwo(p, f, g, d) == [Push(Push(p, f), g) EXCEPT !.do = d]

LEMMA PushTwoIs ==
    ASSUME NEW p, DOMAIN p = Fields, IsSeq(p.stack), NEW f, NEW g, NEW d,
           NEW q, q = PushTwo(p, f, g, d)
    PROVE  /\ DOMAIN q = Fields /\ q.do = d
           /\ q.stack = Append(Append(p.stack, f), g) /\ Top(q) = g
           /\ q.streams = p.streams /\ q.running = p.running /\ q.status = p.status
           /\ q.aliases = p.aliases /\ q.ran = p.ran /\ q.input = p.input
<1> DEFINE r == Push(p, f)
<1>1. /\ DOMAIN r = Fields /\ r.stack = Append(p.stack, f)
      /\ r.streams = p.streams /\ r.running = p.running /\ r.status = p.status
      /\ r.aliases = p.aliases /\ r.ran = p.ran /\ r.input = p.input
  BY DEF Push, Fields
<1>2. IsSeq(r.stack)
  BY <1>1, AppendAny
<1> HIDE DEF r
<1>3. /\ DOMAIN q = Fields /\ q.do = d /\ q.stack = Append(r.stack, g)
      /\ q.streams = r.streams /\ q.running = r.running /\ q.status = r.status
      /\ q.aliases = r.aliases /\ q.ran = r.ran /\ q.input = r.input
  <2>1. q = [Push(r, g) EXCEPT !.do = d]
    BY DEF r, PushTwo
  <2> QED
    BY <1>1, <2>1, PushIs
<1>4. Top(q) = g
  BY <1>2, <1>3, TopOf
<1> QED
  BY <1>1, <1>3, <1>4

LEMMA ExecuteLeftMeant ==
    ASSUME Lawful, MInv, IInv', NEW i \in DOMAIN procs, ExecuteLeft(i)
    PROVE  MInv'
<1> DEFINE p == procs[i]
           t == p.do.tree
           f == [fun |-> "node"]
           g == [fun |-> t.op, right |-> t.right]
           q == [Push(Push(p, f), g) EXCEPT !.do = Exec(t.left)]
<1>1. /\ p.do.what = "exec" /\ p.running /\ t.op \in {"&&", "||", ";"}
      /\ procs' = [procs EXCEPT ![i] = q]
  BY DEF ExecuteLeft, Executes, Become, Running, Node
<1>2. /\ DOMAIN p = Fields /\ IsSeq(p.stack)
      /\ t \in Parses /\ Now(p).aliases \in Tables
  BY <1>1, OfMeant, OwnTable DEF Sound, Placed, Busy
<1>10. t.left \in Parses /\ t.right \in Parses
  <2> HIDE DEF t
  <2> QED
    BY <1>1, <1>2, PartsOf
<1>3. f.fun = "node" /\ g.fun = t.op /\ g.right = t.right
  OBVIOUS
<1> HIDE DEF f, g
<1>4. /\ q.do = Exec(t.left) /\ q.stack = Append(Append(p.stack, f), g) /\ Top(q) = g
      /\ q.streams = p.streams /\ q.running = p.running /\ q.status = p.status
      /\ q.aliases = p.aliases /\ q.ran = p.ran
  <2> DEFINE d == Exec(t.left)
  <2>1. q = PushTwo(p, f, g, d)
    BY DEF PushTwo
  <2> HIDE DEF p, q, d
  <2>2. /\ q.do = d /\ q.stack = Append(Append(p.stack, f), g) /\ Top(q) = g
        /\ q.streams = p.streams /\ q.running = p.running /\ q.status = p.status
        /\ q.aliases = p.aliases /\ q.ran = p.ran
    BY <1>2, <2>1, PushTwoIs
  <2> QED
    BY <2>2 DEF d
<1> HIDE DEF q
<1>5. Busy(q, i)
  BY <1>4, <1>10, BusyIs
<1> DEFINE v == Wanted(t.left, Now(p))
<1>6. \A w : Due(p, procs, w) => Linked(f, q.streams, w, w) /\ Linked(g, q.streams, v, w)
  <2>1. \A w : Due(p, procs, w) => w = MeaningOfRight(t.op, t.right, v)
    BY <1>1, <1>2, OfTree DEF Due
  <2>2. \A w : Linked(f, q.streams, w, w)
    BY <1>3 DEF Linked
  <2>3. Linked(g, q.streams, v, MeaningOfRight(t.op, t.right, v))
    BY <1>1, <1>3 DEF Linked
  <2> QED
    BY <2>1, <2>2, <2>3
<1>7. Due(q, procs, v)
  <2>1. Now(q) = Now(p)
    BY <1>4, SameNow
  <2>2. q.running /\ q.do = Exec(t.left)
    BY <1>1, <1>4
  <2>3. Due(q, procs, Wanted(t.left, Now(q)))
    BY <2>2, DueIs
  <2> QED
    BY <2>1, <2>3
<1> HIDE DEF v
<1>8. \A w : Due(p, procs, w) =>
          \E u, x : Linked(f, q.streams, u, w) /\ Linked(g, q.streams, x, u) /\ Due(q, procs, x)
  BY <1>6, <1>7
<1>9. f.fun \in Inner /\ g.fun \in Inner
  BY <1>1, <1>3 DEF Inner
<1> QED
  <2>1. Keeps(f)
    BY <1>3, KeepsNone
  <2>2. Keeps(g)
    BY <1>3, <1>10 DEF Keeps
  <2> QED
    BY <1>1, <1>4, <1>5, <1>8, <1>9, <2>1, <2>2, EntersTwo

LEMMA ExecuteRightMeant ==
    ASSUME Lawful, MInv, IInv', NEW i \in DOMAIN procs, ExecuteRight(i)
    PROVE  MInv'
<1> DEFINE p == procs[i]
           f == Top(p)
           runs == RunsRight(f.fun, p.do.code)
           d == IF runs THEN Exec(f.right) ELSE p.do
           q == [Pop(p) EXCEPT !.do = d]
<1>1. /\ p.do.what = "return" /\ f.fun \in {"&&", "||", ";"}
      /\ procs' = [procs EXCEPT ![i] = IF runs THEN [Pop(p) EXCEPT !.do = Exec(f.right)]
                                               ELSE Pop(p)]
  BY DEF ExecuteRight, Become, Running
<1>2. DOMAIN p = Fields /\ Placed(p, i) /\ p.running \in BOOLEAN
  BY OfMeant DEF Sound
<1>3. procs' = [procs EXCEPT ![i] = q]
  <2>1. [Pop(p) EXCEPT !.do = p.do] = Pop(p)
    BY <1>2 DEF Pop, Fields
  <2> QED
    BY <1>1, <2>1
<1>4. p.do.code = p.status
  BY <1>1, <1>2 DEF Placed, Busy
<1>12. f.right \in Parses
  <2>1. Len(p.stack) \in DOMAIN p.stack /\ f = p.stack[Len(p.stack)]
    BY OfMeant, Indices DEF Top
  <2> HIDE DEF f
  <2> QED
    BY <1>1, <1>2, <2>1 DEF Placed, Callers, Keeps
<1> HIDE DEF d, f
<1>5. /\ q.do = d /\ q.stack = SubSeq(p.stack, 1, Len(p.stack) - 1)
      /\ q.streams = p.streams /\ q.running = p.running /\ q.status = p.status
      /\ q.aliases = p.aliases /\ q.ran = p.ran
  <2> HIDE DEF p
  <2> QED
    BY <1>2, PopIs
<1> HIDE DEF q
<1>6. Now(q) = Now(p) /\ After(q, p.status) = Now(p)
  <2>1. Now(q) = Now(p)
    BY <1>5, SameNow
  <2>2. After(q, q.status) = Now(q)
    BY Stating
  <2> QED
    BY <1>5, <2>1, <2>2
<1>7. Busy(q, i)
  <2>1. CASE runs
    <3>1. q.do = Exec(f.right)
      BY <1>5, <2>1 DEF d
    <3> QED
      BY <1>12, <3>1, BusyIs
  <2>2. CASE ~runs
    <3>1. q.do = p.do
      BY <1>5, <2>2 DEF d
    <3> QED
      BY <1>1, <1>4, <1>5, <3>1 DEF Busy
  <2> QED
    BY <2>1, <2>2
<1>8. \A w, v : Due(p, procs, w) /\ Linked(f, q.streams, w, v) =>
          v = MeaningOfRight(f.fun, f.right, Now(p))
  <2>1. \A w : Due(p, procs, w) => w = Now(p)
    BY <1>1, <1>4, Stating DEF Due
  <2> QED
    BY <1>1, <2>1 DEF Linked
<1>9. Due(q, procs, MeaningOfRight(f.fun, f.right, Now(p)))
  <2>1. Now(p).running = p.running /\ Now(p).status = p.status
    BY BeingIs DEF Now
  <2>2. CASE runs
    <3>1. MeaningOfRight(f.fun, f.right, Now(p)) =
              IF p.running THEN Wanted(f.right, Now(p)) ELSE Now(p)
      BY <1>1, <1>4, <2>1, <2>2 DEF MeaningOfRight, RunsRight
    <3>2. q.do = Exec(f.right)
      BY <1>5, <2>2 DEF d
    <3> QED
      BY <1>5, <1>6, <3>1, <3>2 DEF Due, Exec
  <2>3. CASE ~runs
    <3>1. MeaningOfRight(f.fun, f.right, Now(p)) = Now(p)
      BY <1>1, <1>4, <2>1, <2>3 DEF MeaningOfRight, RunsRight
    <3>2. q.do = p.do
      BY <1>5, <2>3 DEF d
    <3> QED
      BY <1>1, <1>4, <1>6, <3>1, <3>2 DEF Due
  <2> QED
    BY <2>2, <2>3
<1>10. \A w, v : Due(p, procs, w) /\ Linked(f, q.streams, w, v) => Due(q, procs, v)
  BY <1>8, <1>9
<1>11. f.fun \notin {"main", "child"}
  BY <1>1
<1> QED
  BY <1>3, <1>5, <1>7, <1>10, <1>11, GoesBack DEF f

LEMMA ExecuteBlockMeant ==
    ASSUME Lawful, MInv, IInv', NEW i \in DOMAIN procs, ExecuteBlock(i)
    PROVE  MInv'
<1> DEFINE p == procs[i]
           t == p.do.tree
           f == [fun |-> "node"]
           g == [fun |-> "block"]
           q == PushTwo(p, f, g, Exec(t.child))
           r == [Push(p, f) EXCEPT !.do = Return(1)]
<1>1. /\ p.do.what = "exec" /\ p.running /\ t.op = "block"
      /\ procs' = [procs EXCEPT ![i] = IF CannotOpen(t.redirs) THEN r ELSE q]
  BY DEF ExecuteBlock, Executes, Become, Running, Node, PushTwo
<1>2. /\ DOMAIN p = Fields /\ IsSeq(p.stack)
      /\ t \in Parses /\ Now(p).aliases \in Tables
  BY <1>1, OfMeant, OwnTable DEF Sound, Placed, Busy
<1>8. t.child \in Parses
  <2> HIDE DEF t
  <2> QED
    BY <1>1, <1>2, PartsOf
<1>3. f.fun = "node" /\ g.fun = "block" /\ f.fun \in Inner /\ g.fun \in Inner
  BY DEF Inner
<1>4. \A w : Due(p, procs, w) => w = IF CannotOpen(t.redirs) THEN After(p, 1)
                                     ELSE Wanted(t.child, Now(p))
  <2>1. \A w : Due(p, procs, w) => w = Wanted(t, Now(p))
    BY <1>1 DEF Due
  <2>2. Wanted(t, Now(p)) = IF CannotOpen(t.redirs) THEN [Now(p) EXCEPT !.status = 1]
                            ELSE Wanted(t.child, Now(p))
    BY <1>1, <1>2, OfTree
  <2>3. [Now(p) EXCEPT !.status = 1] = After(p, 1)
    BY BeingWith DEF Now, After
  <2> QED
    BY <2>1, <2>2, <2>3
<1>9. Keeps(f) /\ Keeps(g)
  BY <1>3, KeepsNone
<1> HIDE DEF f, g
<1>5. \A w : Linked(f, p.streams, w, w) /\ Linked(g, p.streams, w, w)
  BY <1>3 DEF Linked
<1>6. CASE CannotOpen(t.redirs)
  <2>1. /\ r.do = Return(1) /\ r.stack = Append(p.stack, f)
        /\ r.streams = p.streams /\ r.running = p.running /\ r.status = p.status
        /\ r.aliases = p.aliases /\ r.ran = p.ran
    <3> HIDE DEF p
    <3> QED
      BY <1>2, PushIs
  <2>2. procs' = [procs EXCEPT ![i] = r]
    BY <1>1, <1>6
  <2> HIDE DEF r
  <2>3. Top(r) = f
    BY <1>2, <2>1, TopOf
  <2>4. Busy(r, i)
    BY <1>3, <2>1, <2>3, BusyIs
  <2>5. Due(r, procs, After(p, 1))
    <3>1. Due(r, procs, After(r, 1))
      BY <2>1, DueIs
    <3>2. After(r, 1) = After(p, 1)
      BY <2>1, SameNow
    <3> QED
      BY <3>1, <3>2
  <2>6. \A w : Due(p, procs, w) => Linked(f, r.streams, w, w) /\ Due(r, procs, w)
    BY <1>4, <1>5, <1>6, <2>1, <2>5
  <2> QED
    BY <1>3, <1>9, <2>1, <2>2, <2>4, <2>6, Enters
<1>7. CASE ~CannotOpen(t.redirs)
  <2>1. /\ q.do = Exec(t.child) /\ q.stack = Append(Append(p.stack, f), g) /\ Top(q) = g
        /\ q.streams = p.streams /\ q.running = p.running /\ q.status = p.status
        /\ q.aliases = p.aliases /\ q.ran = p.ran
    <3> DEFINE d == Exec(t.child)
    <3>1. q = PushTwo(p, f, g, d)
      OBVIOUS
    <3> HIDE DEF p, q, d
    <3>2. /\ q.do = d /\ q.stack = Append(Append(p.stack, f), g) /\ Top(q) = g
          /\ q.streams = p.streams /\ q.running = p.running /\ q.status = p.status
          /\ q.aliases = p.aliases /\ q.ran = p.ran
      BY <1>2, <3>1, PushTwoIs
    <3> QED
      BY <3>2 DEF d
  <2>2. procs' = [procs EXCEPT ![i] = q]
    BY <1>1, <1>7
  <2> HIDE DEF q
  <2>3. Busy(q, i)
    BY <1>8, <2>1, BusyIs
  <2>4. Due(q, procs, Wanted(t.child, Now(p)))
    <3>1. Due(q, procs, Wanted(t.child, Now(q)))
      BY <1>1, <2>1, DueIs
    <3>2. Now(q) = Now(p)
      BY <2>1, SameNow
    <3> QED
      BY <3>1, <3>2
  <2>5. \A w : Due(p, procs, w) =>
            \E u, x : /\ Linked(f, q.streams, u, w) /\ Linked(g, q.streams, x, u)
                      /\ Due(q, procs, x)
    BY <1>4, <1>5, <1>7, <2>1, <2>4
  <2> QED
    BY <1>3, <1>9, <2>1, <2>2, <2>3, <2>5, EntersTwo
<1> QED
  BY <1>6, <1>7

LEMMA BlockDoneMeant ==
    ASSUME Lawful, MInv, IInv', NEW i \in DOMAIN procs, BlockDone(i)
    PROVE  MInv'
<1> DEFINE p == procs[i]
           q == [Pop(p) EXCEPT !.do = p.do]
<1>1. /\ p.do.what = "return" /\ Top(p).fun = "block"
      /\ procs' = [procs EXCEPT ![i] = Pop(p)]
  BY DEF BlockDone, Become, Running
<1>2. DOMAIN p = Fields /\ Placed(p, i)
  BY OfMeant DEF Sound
<1>3. procs' = [procs EXCEPT ![i] = q]
  <2>1. q = Pop(p)
    BY <1>2 DEF Pop, Fields
  <2> QED
    BY <1>1, <2>1
<1>4. p.do.code = p.status
  BY <1>1, <1>2 DEF Placed, Busy
<1>5. /\ q.do = p.do /\ q.stack = SubSeq(p.stack, 1, Len(p.stack) - 1)
      /\ q.streams = p.streams /\ q.running = p.running /\ q.status = p.status
      /\ q.aliases = p.aliases /\ q.ran = p.ran
  <2> HIDE DEF p
  <2> QED
    BY <1>2, PopIs
<1> HIDE DEF q
<1>6. Busy(q, i)
  BY <1>1, <1>4, <1>5 DEF Busy
<1>7. \A w, v : Due(p, procs, w) /\ Linked(Top(p), q.streams, w, v) => Due(q, procs, v)
  <2>1. \A w : Due(p, procs, w) => w = After(p, p.do.code)
    BY <1>1 DEF Due
  <2>2. \A w, v : Linked(Top(p), q.streams, w, v) => v = w
    BY <1>1 DEF Linked
  <2>3. After(q, p.do.code) = After(p, p.do.code)
    BY <1>5, SameNow
  <2>4. Due(q, procs, After(p, p.do.code))
    BY <1>1, <1>5, <2>3 DEF Due
  <2> QED
    BY <2>1, <2>2, <2>4
<1>8. Top(p).fun \notin {"main", "child"}
  BY <1>1
<1> QED
  BY <1>3, <1>5, <1>6, <1>7, <1>8, GoesBack

LEMMA NodeDoneMeant ==
    ASSUME Lawful, MInv, IInv', NEW i \in DOMAIN procs, NodeDone(i)
    PROVE  MInv'
<1> DEFINE p == procs[i]
           q == [Pop(p) EXCEPT !.status = p.do.code]
<1>1. /\ p.do.what = "return" /\ Top(p).fun = "node"
      /\ procs' = [procs EXCEPT ![i] = q]
  BY DEF NodeDone, Become, Running
<1>2. DOMAIN p = Fields
  BY OfMeant DEF Sound
<1>3. /\ q.do = p.do /\ q.stack = SubSeq(p.stack, 1, Len(p.stack) - 1)
      /\ q.streams = p.streams /\ q.running = p.running /\ q.status = p.do.code
      /\ q.aliases = p.aliases /\ q.ran = p.ran
  BY <1>2 DEF Pop, Fields
<1> HIDE DEF q
<1>4. Busy(q, i)
  BY <1>1, <1>3 DEF Busy
<1>5. \A w, v : Due(p, procs, w) /\ Linked(Top(p), q.streams, w, v) => Due(q, procs, v)
  <2>1. \A w : Due(p, procs, w) => w = After(p, p.do.code)
    BY <1>1 DEF Due
  <2>2. \A w, v : Linked(Top(p), q.streams, w, v) => v = w
    BY <1>1 DEF Linked
  <2>3. After(q, p.do.code) = After(p, p.do.code)
    BY <1>3, SameNow
  <2>4. Due(q, procs, After(p, p.do.code))
    BY <1>1, <1>3, <2>3 DEF Due
  <2> QED
    BY <2>1, <2>2, <2>4
<1>6. Top(p).fun \notin {"main", "child"}
  BY <1>1
<1> QED
  BY <1>1, <1>3, <1>4, <1>5, <1>6, GoesBack

LEMMA CollectMeant ==
    ASSUME Lawful, MInv, IInv', NEW i \in DOMAIN procs, Collect(i)
    PROVE  MInv'
<1> DEFINE p == procs[i]
           last == p.do.last
           code == procs[last].do.code
           q == [p EXCEPT !.do = Return(code)]
<1>1. /\ p.do.what = "wait" /\ \A k \in p.do.first..last : procs[k].do.what = "over"
      /\ procs' = [procs EXCEPT ![i] = q]
  BY DEF Collect, Become, Running
<1>2. Sound(p, i, Len(procs)) /\ Placed(p, i)
  BY OfMeant
<1>3. last \in 1..Len(procs) /\ p.do.first \in 1..last
  BY <1>1, <1>2 DEF Sound, Doing
<1>4. Top(p).fun = "node" /\ last # Root
  BY <1>1, <1>2 DEF Placed, Busy
<1>5. last \in DOMAIN procs /\ procs[last].do.what = "over"
  <2>1. DOMAIN procs = 1..Len(procs)
    BY Indices DEF MInv, IInv
  <2> HIDE DEF last, p
  <2>2. last \in p.do.first..last
    BY <1>3
  <2> QED
    BY <1>1, <1>3, <2>1, <2>2
<1>6. code = Ordered(procs, last)
  <2>1. Busy(procs[last], last)
    BY <1>5, OfMeant DEF Placed
  <2> QED
    BY <1>4, <1>5, <2>1 DEF Busy, Ordered
<1> HIDE DEF code, last
<1>7. /\ q.do = Return(code) /\ q.stack = p.stack
      /\ q.streams = p.streams /\ q.running = p.running /\ q.status = p.status
      /\ q.aliases = p.aliases /\ q.ran = p.ran
  <2>1. DOMAIN p = Fields
    BY <1>2 DEF Sound
  <2> HIDE DEF p
  <2> QED
    BY <2>1, DoesIs
<1> HIDE DEF q
<1>8. Busy(q, i)
  <2>1. Top(q) = Top(p)
    BY <1>7 DEF Top
  <2> QED
    BY <1>4, <1>7, <2>1, BusyIs
<1>9. \A w : Due(p, procs, w) => Due(q, procs, w)
  <2>1. \A w : Due(p, procs, w) => w = After(p, code)
    BY <1>1, <1>6 DEF Due, last
  <2>2. Due(q, procs, After(q, code))
    BY <1>7, DueIs
  <2>3. After(q, code) = After(p, code)
    BY <1>7, SameNow
  <2> QED
    BY <2>1, <2>2, <2>3
<1> QED
  BY <1>1, <1>7, <1>8, <1>9, GoesOn

\* the innermost frame of a child that is its only one
LEMMA OnlyChild ==
    ASSUME MInv, NEW i \in DOMAIN procs, Top(procs[i]).fun \in {"main", "child"}
    PROVE  /\ Len(procs[i].stack) = 1 /\ procs[i].stack[1] = Top(procs[i])
           /\ Top(procs[i]).fun = IF i = Root THEN "main" ELSE "child"
<1> DEFINE p == procs[i]
<1>1. IsSeq(p.stack) /\ p.stack # << >> /\ Placed(p, i) /\ Stacked(p.stack, i)
  BY OfMeant DEF Sound
<1>2. Len(p.stack) \in DOMAIN p.stack
  BY <1>1, Indices
<1>3. Len(p.stack) = 1
  BY <1>1, <1>2 DEF Placed, Callers, Top
<1> QED
  BY <1>1, <1>3 DEF Stacked, Top

LEMMA ChildExitsMeant ==
    ASSUME Lawful, MInv, IInv', NEW i \in DOMAIN procs, ChildExits(i)
    PROVE  MInv'
<1> DEFINE p == procs[i]
           d == [what |-> "over", code |-> p.do.code % 256]
           q == [p EXCEPT !.do = d]
<1>1. /\ p.do.what = "return" /\ Top(p).fun = "child"
      /\ procs' = [procs EXCEPT ![i] = [p EXCEPT !.do = [what |-> "over", code |-> @.code % 256]]]
  BY DEF ChildExits, Become, Running
<1>2. DOMAIN p = Fields /\ Placed(p, i)
  BY OfMeant DEF Sound
<1>3. procs' = [procs EXCEPT ![i] = q]
  BY <1>1
<1>4. Len(p.stack) = 1 /\ p.stack[1] = Top(p)
  BY <1>1, OnlyChild
<1>5. p.do.code = p.stack[1].want.status
  <2>1. PICK w : Due(p, procs, w) /\ Chain(p.stack, p.streams, w)
    BY OfMeant
  <2>2. PICK ws : Links(ws, p.stack, p.streams, w)
    BY <2>1 DEF Chain
  <2>3. Linked(p.stack[1], p.streams, ws[1 + 1], ws[1]) /\ ws[1 + 1] = w
    BY <1>4, <2>2 DEF Links
  <2>4. p.stack[1].want = w
    BY <1>1, <1>4, <2>3 DEF Linked
  <2>5. w = After(p, p.do.code)
    BY <1>1, <2>1 DEF Due
  <2>6. w.status = p.do.code
    BY <2>5, BeingIs DEF After
  <2> QED
    BY <2>4, <2>6
<1>6. d.what = "over" /\ d.code = p.do.code % 256
  OBVIOUS
<1> HIDE DEF d
<1>7. /\ q.do = d /\ q.stack = p.stack
      /\ q.streams = p.streams /\ q.running = p.running /\ q.status = p.status
      /\ q.aliases = p.aliases /\ q.ran = p.ran
  <2> HIDE DEF p
  <2> QED
    BY <1>2, DoesIs
<1> HIDE DEF q
<1>8. Busy(q, i)
  BY <1>5, <1>6, <1>7 DEF Busy
<1>9. \A w : Due(p, procs, w) => Due(q, procs, w)
  BY <1>6, <1>7 DEF Due
<1> QED
  BY <1>3, <1>7, <1>8, <1>9, GoesOn

-------------------------------------------------------------------------------
(* Forks.                                                                  *)

LEMMA CopyIs ==
    ASSUME NEW p, DOMAIN p = Fields, NEW do, NEW tree, NEW c, c = Copy(p, do, tree)
    PROVE  /\ IsSeq(c.stack) /\ Len(c.stack) = 1 /\ DOMAIN c.stack = 1..1
           /\ Top(c) = c.stack[1]
           /\ c.stack[1].fun = "child" /\ c.stack[1].want = Wanted(tree, State(p))
           /\ c.streams = p.streams /\ c.do = do /\ c.running = p.running
           /\ c.aliases = p.aliases /\ Now(c) = State(p)
<1> DEFINE f == [fun |-> "child", want |-> Wanted(tree, State(p))]
<1>1. /\ c.stack = <<f>> /\ c.streams = p.streams /\ c.do = do /\ c.running = p.running
      /\ c.status = p.status /\ c.aliases = p.aliases /\ c.ran = << >>
  BY DEF Copy, Fields
<1>2. f.fun = "child" /\ f.want = Wanted(tree, State(p))
  OBVIOUS
<1> HIDE DEF f
<1>3. IsSeq(<<f>>) /\ Len(<<f>>) = 1 /\ <<f>>[1] = f
  BY OneAny
<1>4. DOMAIN <<f>> = 1..1
  BY <1>3, Indices
<1>5. Now(c) = State(p)
  <2>1. State(p) = Being(p.status, p.running, p.aliases, << >>)
    BY Stating
  <2> QED
    BY <1>1, <2>1 DEF Now
<1>6. Top(c) = c.stack[1]
  BY <1>1, <1>3 DEF Top
<1> QED
  BY <1>1, <1>2, <1>3, <1>4, <1>5, <1>6

\* a forked copy that is due what it was forked for
LEMMA CopyMeant ==
    ASSUME MInv, NEW i \in DOMAIN procs, NEW do, NEW tree, NEW c,
           c = Copy(procs[i], do, tree), NEW j, NEW ps,
           Busy(c, j), Due(c, ps, Wanted(tree, State(procs[i])))
    PROVE  Meant(c, j, ps)
<1> DEFINE p == procs[i]
           w == Wanted(tree, State(p))
<1>1. DOMAIN p = Fields /\ Placed(p, i)
  BY OfMeant DEF Sound
<1>2. /\ IsSeq(c.stack) /\ Len(c.stack) = 1 /\ DOMAIN c.stack = 1..1
      /\ c.stack[1].fun = "child" /\ c.stack[1].want = w /\ c.streams = p.streams
      /\ c.aliases = p.aliases
  BY <1>1, CopyIs
<1> HIDE DEF w
<1>3. Callers(c.stack, Len(c.streams))
  <2>1. Keeps(c.stack[1])
    BY <1>2, KeepsNone
  <2>2. \A k \in DOMAIN c.stack : k = 1
    BY <1>2
  <2> QED
    BY <1>2, <2>1, <2>2 DEF Callers
<1>4. Linked(c.stack[1], c.streams, w, w)
  BY <1>2 DEF Linked
<1>5. Chain(c.stack, c.streams, w)
  <2> DEFINE f == c.stack[1]
  <2>1. Chain(<<f>>, c.streams, w)
    BY <1>4, ChainOfOne
  <2>2. c.stack = <<f>>
    <3>1. IsSeq(<<f>>) /\ Len(<<f>>) = 1 /\ <<f>>[1] = f
      BY OneAny
    <3>2. DOMAIN <<f>> = 1..1
      BY <3>1, Indices
    <3>3. c.stack = [k \in DOMAIN c.stack |-> c.stack[k]]
      BY <1>2 DEF IsSeq
    <3>4. <<f>> = [k \in DOMAIN <<f>> |-> <<f>>[k]]
      BY <3>1 DEF IsSeq
    <3>5. \A k \in 1..1 : c.stack[k] = <<f>>[k]
      <4>1. \A k \in 1..1 : k = 1
        OBVIOUS
      <4> QED
        BY <3>1, <4>1
    <3> HIDE DEF f
    <3> QED
      BY <1>2, <3>2, <3>3, <3>4, <3>5
  <2> QED
    BY <2>1, <2>2
<1>6. Placed(c, j)
  BY <1>1, <1>2, <1>3 DEF Placed
<1> QED
  BY <1>5, <1>6 DEF Meant, w

\* what the executor has its children do
LEMMA ChildMeant ==
    ASSUME Lawful, MInv, NEW i \in DOMAIN procs, procs[i].running, NEW do,
           NEW tree \in Parses,
           \/ do = Exec(tree)
           \/ do = ChildDoes(tree)
           \/ do = Return(1) /\ tree.op = "sub" /\ CannotOpen(tree.redirs),
           NEW j, NEW ps
    PROVE  Meant(Copy(procs[i], do, tree), j, ps)
<1> DEFINE p == procs[i]
           c == Copy(p, do, tree)
<1>1. DOMAIN p = Fields /\ State(p).aliases \in Tables
  BY OfMeant, OwnTable DEF Sound, Placed
<1>3. c = Copy(p, do, tree)
  OBVIOUS
<1> HIDE DEF c
<1>2. /\ Top(c) = c.stack[1] /\ c.stack[1].fun = "child"
      /\ c.do = do /\ c.running = p.running /\ Now(c) = State(p)
  <2> HIDE DEF p
  <2> QED
    BY <1>1, <1>3, CopyIs
<1>4. \/ do = Exec(tree)
      \/ do = Run(tree) /\ tree.op = "cmd"
      \/ do = Return(1) /\ tree.op = "sub" /\ CannotOpen(tree.redirs)
  <2>1. ChildDoes(tree) = Exec(tree) \/ (ChildDoes(tree) = Run(tree) /\ tree.op = "cmd")
    BY DEF ChildDoes
  <2> QED
    BY <2>1
<1>5. Busy(c, j) /\ Due(c, ps, Wanted(tree, State(p)))
  <2>1. CASE do = Exec(tree)
    <3>1. Busy(c, j)
      BY <1>2, <2>1, BusyIs
    <3>2. Due(c, ps, Wanted(tree, Now(c)))
      BY <1>2, <2>1, DueIs
    <3> QED
      BY <1>2, <3>1, <3>2
  <2>2. CASE do = Run(tree) /\ tree.op = "cmd"
    <3>1. Busy(c, j)
      BY <1>2, <2>2, BusyIs
    <3>2. Due(c, ps, MeaningOfCommand(tree, Now(c)))
      BY <1>2, <2>2, DueIs
    <3>3. Wanted(tree, Now(c)) = MeaningOfCommand(tree, Now(c))
      BY <1>1, <1>2, <2>2, OfTree
    <3> QED
      BY <1>2, <3>1, <3>2, <3>3
  <2>3. CASE do = Return(1) /\ tree.op = "sub" /\ CannotOpen(tree.redirs)
    <3>1. Busy(c, j)
      BY <1>2, <2>3, BusyIs
    <3>2. Due(c, ps, After(c, 1))
      BY <1>2, <2>3, DueIs
    <3>3. Wanted(tree, Now(c)) = [Now(c) EXCEPT !.status = 1]
      BY <1>1, <1>2, <2>3, OfTree
    <3>4. [Now(c) EXCEPT !.status = 1] = After(c, 1)
      BY BeingWith DEF Now, After
    <3> QED
      BY <1>2, <3>1, <3>2, <3>3, <3>4
  <2> QED
    BY <1>4, <2>1, <2>2, <2>3
<1>6. Meant(c, j, ps)
  BY <1>3, <1>5, CopyMeant
<1> QED
  BY <1>6 DEF c

\* a step that forks, and goes on in a node of its own
LEMMA ForksMeant ==
    ASSUME MInv, IInv', NEW i \in DOMAIN procs, NEW d, NEW cs, IsSeq(cs),
           Forked(i, [Node(procs[i]) EXCEPT !.do = d], cs),
           Busy([Node(procs[i]) EXCEPT !.do = d], i),
           \A w : Due(procs[i], procs, w) =>
               Due([Node(procs[i]) EXCEPT !.do = d], procs', w),
           \A k \in 1..Len(cs) : Meant(cs[k], Len(procs) + k, procs')
    PROVE  MInv'
<1> DEFINE p == procs[i]
           f == [fun |-> "node"]
           q == [Push(p, f) EXCEPT !.do = d]
<1>1. DOMAIN p = Fields /\ IsSeq(p.stack) /\ p.stack # << >> /\ IsSeq(p.streams) /\ Placed(p, i)
  BY OfMeant DEF Sound
<1>2. PICK w : Due(p, procs, w) /\ Chain(p.stack, p.streams, w)
  BY OfMeant
<1>3. Forked(i, q, cs) /\ Busy(q, i) /\ Due(q, procs', w)
  <2>1. Node(p) = Push(p, f)
    BY DEF Node
  <2> QED
    BY <1>2, <2>1
<1>4. f.fun = "node" /\ f.fun \in Inner /\ Keeps(f)
  BY DEF Inner, Keeps
<1> HIDE DEF f
<1>5. q.stack = Append(p.stack, f) /\ q.streams = p.streams /\ q.aliases = p.aliases
  <2> HIDE DEF p
  <2> QED
    BY <1>1, PushIs
<1> HIDE DEF q
<1>6. Linked(f, p.streams, w, w)
  BY <1>4 DEF Linked
<1>7. Len(p.streams) \in Nat /\ Callers(p.stack, Len(p.streams))
  BY <1>1, Indices DEF Placed
<1>8. /\ Append(p.stack, f)[1] = p.stack[1]
      /\ Callers(Append(p.stack, f), Len(p.streams)) /\ Chain(Append(p.stack, f), p.streams, w)
  BY <1>1, <1>2, <1>4, <1>6, <1>7, Entered
<1>9. Meant(q, i, procs')
  BY <1>1, <1>3, <1>5, <1>8 DEF Meant, Placed
<1> QED
  BY <1>3, <1>5, <1>8, <1>9, Multiplies

LEMMA ForkedIs ==
    ASSUME MInv, NEW i \in DOMAIN procs, NEW q, NEW cs, IsSeq(cs), Forked(i, q, cs)
    PROVE  /\ Len(procs) \in Nat /\ Len(procs) >= 1 /\ Len(cs) \in Nat
           /\ \A k \in 1..Len(cs) : procs'[Len(procs) + k] = cs[k]
<1> DEFINE a == [procs EXCEPT ![i] = q]
           n == Len(procs)
           m == Len(cs)
<1>1. IsSeq(procs)
  BY DEF MInv, IInv
<1>2. IsSeq(a) /\ Len(a) = n
  BY <1>1, ReplacedAny
<1>3. n \in Nat /\ DOMAIN procs = 1..n /\ m \in Nat
  BY <1>1, Indices
<1>4. n >= 1
  BY <1>3
<1>5. procs' = a \o cs
  BY DEF Forked
<1> HIDE DEF a
<1>6. \A k \in 1..(Len(a) + m) : (a \o cs)[k] = IF k <= Len(a) THEN a[k] ELSE cs[k - Len(a)]
  BY <1>2, ConcatAny
<1> HIDE DEF n, m
<1>7. \A k \in 1..m : procs'[n + k] = cs[k]
  <2> SUFFICES ASSUME NEW k \in 1..m PROVE procs'[n + k] = cs[k]
    OBVIOUS
  <2>1. n + k \in 1..(Len(a) + m) /\ ~(n + k <= Len(a)) /\ (n + k) - Len(a) = k
    BY <1>2, <1>3
  <2> QED
    BY <1>5, <1>6, <2>1
<1> QED
  BY <1>3, <1>4, <1>7 DEF n, m

\* the process that forks, as the executor leaves it
InNode(p, d) == [Node(p) EXCEPT !.do = d]

LEMMA ForkerIs ==
    ASSUME NEW p, DOMAIN p = Fields, IsSeq(p.stack), NEW d, NEW q, q = InNode(p, d)
    PROVE  /\ q.do = d /\ Top(q).fun = "node"
           /\ \A n : After(q, n) = After(p, n)
<1> DEFINE f == [fun |-> "node"]
<1>1. q = [Push(p, f) EXCEPT !.do = d]
  BY DEF Node, InNode
<1>2. f.fun = "node"
  OBVIOUS
<1> HIDE DEF f
<1>3. /\ q.do = d /\ q.stack = Append(p.stack, f) /\ q.running = p.running
      /\ q.aliases = p.aliases /\ q.ran = p.ran
  <2> DEFINE r == [Push(p, f) EXCEPT !.do = d]
  <2>1. /\ r.do = d /\ r.stack = Append(p.stack, f) /\ r.running = p.running
        /\ r.aliases = p.aliases /\ r.ran = p.ran
    BY PushIs
  <2>2. q = r
    BY <1>1
  <2> HIDE DEF r
  <2> QED
    BY <2>1, <2>2
<1>4. Top(q) = f
  BY <1>3, TopOf
<1>5. \A n : After(q, n) = After(p, n)
  BY <1>3 DEF After
<1> QED
  BY <1>2, <1>3, <1>4, <1>5

\* only the status of a copy comes back
LEMMA InCopyIs ==
    ASSUME NEW p, NEW t
    PROVE  InCopy(t, Now(p)) = After(p, Wanted(t, State(p)).status % 256)
<1>1. [Now(p) EXCEPT !.ran = << >>] = State(p)
  BY Stating
<1>2. \A n : [Now(p) EXCEPT !.status = n] = After(p, n)
  BY BeingWith DEF Now, After
<1> QED
  BY <1>1, <1>2 DEF InCopy

\* the parent of a group waits for what its last member is to exit with
LEMMA AwaitsLast ==
    ASSUME MInv, IInv', NEW i \in DOMAIN procs, NEW cs, IsSeq(cs), NEW first, NEW do,
           NEW tree, Len(cs) >= 1, cs[Len(cs)] = Copy(procs[i], do, tree),
           Forked(i, [Node(procs[i]) EXCEPT
                         !.do = Waiting(first, Len(procs) + Len(cs))], cs),
           \A w : Due(procs[i], procs, w) =>
               w = After(procs[i], Wanted(tree, State(procs[i])).status % 256),
           \A k \in 1..Len(cs) : Meant(cs[k], Len(procs) + k, procs')
    PROVE  MInv'
<1> DEFINE p == procs[i]
           last == Len(procs) + Len(cs)
           d == Waiting(first, last)
           q == [Node(p) EXCEPT !.do = d]
           c == cs[Len(cs)]
<1>1. DOMAIN p = Fields /\ IsSeq(p.stack)
  BY OfMeant DEF Sound
<1>2. /\ Len(procs) \in Nat /\ Len(procs) >= 1 /\ Len(cs) \in Nat
      /\ \A k \in 1..Len(cs) : procs'[Len(procs) + k] = cs[k]
  BY ForkedIs
<1>3. q.do = d /\ Top(q).fun = "node" /\ \A n : After(q, n) = After(p, n)
  <2>1. q = InNode(p, d)
    BY DEF InNode
  <2> HIDE DEF p, q, d
  <2> QED
    BY <1>1, <2>1, ForkerIs
<1>4. Ordered(procs', last) = Wanted(tree, State(p)).status % 256
  <2>1. procs'[last] = c
    BY <1>2
  <2>2. c.stack[1].want = Wanted(tree, State(p))
    <3>1. c = Copy(p, do, tree)
      OBVIOUS
    <3> HIDE DEF c, p
    <3> QED
      BY <1>1, <3>1, CopyIs
  <2> QED
    BY <2>1, <2>2 DEF Ordered
<1>5. last # Root
  BY <1>2 DEF Root
<1>6. Forked(i, q, cs)
  OBVIOUS
<1> HIDE DEF q, last
<1>7. Busy(q, i)
  BY <1>3, <1>5, BusyIs
<1>8. \A w : Due(p, procs, w) => Due(q, procs', w)
  <2>1. Due(q, procs', After(q, Ordered(procs', last)))
    BY <1>3, DueIs
  <2> QED
    BY <1>3, <1>4, <2>1
<1> QED
  BY <1>6, <1>7, <1>8, ForksMeant DEF q

LEMMA ExecuteSubshellMeant ==
    ASSUME Lawful, MInv, IInv', NEW i \in DOMAIN procs, ExecuteSubshell(i)
    PROVE  MInv'
<1> DEFINE p == procs[i]
           t == p.do.tree
           do == IF CannotOpen(t.redirs) THEN Return(1) ELSE Exec(t.child)
           tree == IF CannotOpen(t.redirs) THEN t ELSE t.child
           c == Copy(p, do, tree)
           cs == <<c>>
<1>1. /\ p.do.what = "exec" /\ p.running /\ t.op = "sub"
      /\ Forked(i, [Node(p) EXCEPT !.do = Waiting(Len(procs) + 1, Len(procs) + 1)], cs)
  BY DEF ExecuteSubshell, Executes, Running
<1>2. \/ do = Exec(tree)
      \/ do = Return(1) /\ tree.op = "sub" /\ CannotOpen(tree.redirs)
  BY <1>1
<1>9. t \in Parses /\ Now(p).aliases \in Tables /\ State(p).aliases \in Tables
  BY <1>1, OfMeant, OwnTable DEF Placed, Busy
<1>10. tree \in Parses
  <2>1. t.child \in Parses
    <3> HIDE DEF t
    <3> QED
      BY <1>1, <1>9, PartsOf
  <2> QED
    BY <1>9, <2>1
<1>3. \A j : Meant(c, j, procs')
  <2> HIDE DEF do, tree
  <2> QED
    BY <1>1, <1>2, <1>10, ChildMeant
<1>4. \A w : Due(p, procs, w) => w = After(p, Wanted(tree, State(p)).status % 256)
  <2>1. \A w : Due(p, procs, w) => w = Wanted(t, Now(p))
    BY <1>1 DEF Due
  <2>2. Wanted(t, Now(p)) = IF CannotOpen(t.redirs) THEN [Now(p) EXCEPT !.status = 1]
                            ELSE InCopy(t.child, Now(p))
    BY <1>1, <1>9, OfTree
  <2>3. CASE CannotOpen(t.redirs)
    <3>1. [Now(p) EXCEPT !.status = 1] = After(p, 1)
      BY BeingWith DEF Now, After
    <3>2. Wanted(t, State(p)) = [State(p) EXCEPT !.status = 1]
      BY <1>1, <1>9, <2>3, OfTree
    <3>4. 1 % 256 = 1
      OBVIOUS
    <3>3. [State(p) EXCEPT !.status = 1].status = 1
      <4>1. State(p) = Being(p.status, p.running, p.aliases, << >>)
        BY Stating
      <4>2. [State(p) EXCEPT !.status = 1] = Being(1, p.running, p.aliases, << >>)
        BY <4>1, BeingWith
      <4> QED
        BY <4>2, BeingIs
    <3> QED
      BY <2>1, <2>2, <2>3, <3>1, <3>2, <3>3, <3>4
  <2>4. CASE ~CannotOpen(t.redirs)
    BY <2>1, <2>2, <2>4, InCopyIs
  <2> QED
    BY <2>3, <2>4
<1>5. c = Copy(p, do, tree)
  OBVIOUS
<1> HIDE DEF c, do, tree
<1>6. IsSeq(cs) /\ Len(cs) = 1 /\ cs[1] = c
  BY OneAny
<1>7. \A k \in 1..Len(cs) : Meant(cs[k], Len(procs) + k, procs')
  <2>1. \A k \in 1..1 : k = 1
    OBVIOUS
  <2> HIDE DEF cs
  <2> QED
    BY <1>3, <1>6, <2>1
<1> HIDE DEF cs
<1>8. /\ Len(cs) >= 1 /\ cs[Len(cs)] = Copy(p, do, tree)
      /\ Forked(i, [Node(p) EXCEPT
                       !.do = Waiting(Len(procs) + 1, Len(procs) + Len(cs))], cs)
  BY <1>1, <1>5, <1>6
<1> QED
  BY <1>4, <1>6, <1>7, <1>8, AwaitsLast

LEMMA ExecuteBackgroundMeant ==
    ASSUME Lawful, MInv, IInv', NEW i \in DOMAIN procs, ExecuteBackground(i)
    PROVE  MInv'
<1> DEFINE p == procs[i]
           t == p.do.tree
           c == Copy(p, ChildDoes(t.child), t.child)
           cs == <<c>>
           q == [Node(p) EXCEPT !.do = Return(0)]
<1>1. /\ p.do.what = "exec" /\ p.running /\ t.op = "&" /\ Forked(i, q, cs)
  BY DEF ExecuteBackground, Executes, Running
<1>9. t \in Parses /\ Now(p).aliases \in Tables
  BY <1>1, OfMeant, OwnTable DEF Placed, Busy
<1>10. t.child \in Parses
  <2> HIDE DEF t
  <2> QED
    BY <1>1, <1>9, PartsOf
<1>2. \A j : Meant(c, j, procs')
  BY <1>1, <1>10, ChildMeant
<1>3. \A w : Due(p, procs, w) => w = After(p, 0)
  <2>1. \A w : Due(p, procs, w) => w = Wanted(t, Now(p))
    BY <1>1 DEF Due
  <2>2. Wanted(t, Now(p)) = [Now(p) EXCEPT !.status = 0]
    BY <1>1, <1>9, OfTree
  <2>3. [Now(p) EXCEPT !.status = 0] = After(p, 0)
    BY BeingWith DEF Now, After
  <2> QED
    BY <2>1, <2>2, <2>3
<1> HIDE DEF c
<1>4. IsSeq(cs) /\ Len(cs) = 1 /\ cs[1] = c
  BY OneAny
<1>5. \A k \in 1..Len(cs) : Meant(cs[k], Len(procs) + k, procs')
  <2>1. \A k \in 1..1 : k = 1
    OBVIOUS
  <2> HIDE DEF cs
  <2> QED
    BY <1>2, <1>4, <2>1
<1> HIDE DEF cs
<1>6. q.do = Return(0) /\ Top(q).fun = "node" /\ \A n : After(q, n) = After(p, n)
  <2>1. DOMAIN p = Fields /\ IsSeq(p.stack)
    BY OfMeant DEF Sound
  <2>2. q = InNode(p, Return(0))
    BY DEF InNode
  <2> HIDE DEF p, q
  <2> QED
    BY <2>1, <2>2, ForkerIs
<1> HIDE DEF q
<1>7. Busy(q, i)
  BY <1>6, BusyIs
<1>8. \A w : Due(p, procs, w) => Due(q, procs', w)
  <2>1. Due(q, procs', After(q, 0))
    BY <1>6, DueIs
  <2> QED
    BY <1>3, <1>6, <2>1
<1> QED
  BY <1>1, <1>4, <1>5, <1>7, <1>8, ForksMeant DEF q

-------------------------------------------------------------------------------
(* The stages of a pipeline.  Lefts is a recursive function: it exists       *)
(* because its values up to each place do, and agree.                        *)

LEMMA LeastNat == ASSUME NEW S \in SUBSET Nat, S # {} PROVE \E m \in S : \A k \in S : m <= k
<1>1. PICK m \in S : \A k \in S : ~ <<k, m>> \in OpToRel(<, Nat)
  BY NatLessThanWellFounded, WFMin
<1>2. \A k \in S : ~ (k < m)
  BY <1>1 DEF OpToRel
<1>3. \A k \in S : m <= k
  BY <1>2
<1> QED
  BY <1>3

LEMMA AllNat ==
    ASSUME NEW S, 0 \in S, \A n \in Nat : n \in S => n + 1 \in S
    PROVE  \A n \in Nat : n \in S
<1> DEFINE T == {n \in Nat : n \notin S}
<1>1. SUFFICES ASSUME T # {} PROVE FALSE
  OBVIOUS
<1>2. PICK m \in T : \A k \in T : m <= k
  <2>1. T \in SUBSET Nat
    OBVIOUS
  <2> HIDE DEF T
  <2> QED
    BY <1>1, <2>1, LeastNat
<1>3. m \in Nat /\ m # 0 /\ m - 1 \in Nat /\ m - 1 < m
  BY <1>2
<1>4. m - 1 \notin T
  BY <1>2, <1>3
<1>5. (m - 1) + 1 \in S
  BY <1>3, <1>4
<1> QED
  BY <1>2, <1>3, <1>5

\* one stage to the left
Leftward(t) == IF t.op = "|" THEN t.left ELSE t

\* g goes left from t as far as n
GoesLeft(g, t, n) == g[0] = t /\ \A k \in 1..n : g[k] = Leftward(g[k - 1])

LEMMA LeftsReach == ASSUME NEW t PROVE \A n \in Nat : \E g : GoesLeft(g, t, n)
<1> DEFINE S == {n \in Nat : \E g : GoesLeft(g, t, n)}
<1>1. 0 \in S
  <2> DEFINE g == [k \in 0..0 |-> t]
  <2>1. GoesLeft(g, t, 0)
    BY DEF GoesLeft
  <2> HIDE DEF g
  <2> QED
    BY <2>1
<1>2. ASSUME NEW n \in Nat, n \in S PROVE n + 1 \in S
  <2>1. PICK g : GoesLeft(g, t, n)
    BY <1>2
  <2> DEFINE h == [k \in 0..(n + 1) |-> IF k <= n THEN g[k] ELSE Leftward(g[n])]
  <2>2. h[0] = t
    BY <1>2, <2>1 DEF GoesLeft
  <2>3. ASSUME NEW k \in 1..(n + 1) PROVE h[k] = Leftward(h[k - 1])
    <3>1. k - 1 \in 0..(n + 1) /\ k - 1 <= n /\ k \in 0..(n + 1)
      BY <1>2, <2>3
    <3>2. h[k - 1] = g[k - 1]
      BY <3>1
    <3>3. CASE k <= n
      <4>1. k \in 1..n /\ h[k] = g[k]
        BY <1>2, <2>3, <3>1, <3>3
      <4> QED
        BY <2>1, <3>2, <4>1 DEF GoesLeft
    <3>4. CASE ~(k <= n)
      <4>1. k - 1 = n /\ h[k] = Leftward(g[n])
        BY <1>2, <2>3, <3>1, <3>4
      <4> QED
        BY <3>2, <4>1
    <3> QED
      BY <3>3, <3>4
  <2> HIDE DEF h
  <2>4. GoesLeft(h, t, n + 1)
    BY <2>2, <2>3 DEF GoesLeft
  <2> QED
    BY <1>2, <2>4
<1> HIDE DEF S
<1>3. \A n \in Nat : n \in S
  BY <1>1, <1>2, AllNat
<1> QED
  BY <1>3 DEF S

LEMMA LeftsAgree ==
    ASSUME NEW t, NEW m \in Nat, NEW n \in Nat, m <= n, NEW g, NEW h,
           GoesLeft(g, t, m), GoesLeft(h, t, n)
    PROVE  g[m] = h[m]
<1> DEFINE S == {k \in Nat : k <= m => g[k] = h[k]}
<1>1. 0 \in S
  BY DEF GoesLeft
<1>2. ASSUME NEW k \in Nat, k \in S PROVE k + 1 \in S
  <2>1. CASE k + 1 <= m
    <3>1. k + 1 \in 1..m /\ k + 1 \in 1..n /\ (k + 1) - 1 = k /\ k <= m
      BY <1>2, <2>1
    <3>2. g[k] = h[k]
      BY <1>2, <3>1
    <3>3. g[k + 1] = Leftward(g[k])
      <4>1. \A j \in 1..m : g[j] = Leftward(g[j - 1])
        BY DEF GoesLeft
      <4>2. g[k + 1] = Leftward(g[(k + 1) - 1])
        BY <3>1, <4>1
      <4> QED
        BY <3>1, <4>2
    <3>4. h[k + 1] = Leftward(h[k])
      <4>1. \A j \in 1..n : h[j] = Leftward(h[j - 1])
        BY DEF GoesLeft
      <4>2. h[k + 1] = Leftward(h[(k + 1) - 1])
        BY <3>1, <4>1
      <4> QED
        BY <3>1, <4>2
    <3>5. g[k + 1] = h[k + 1]
      BY <3>2, <3>3, <3>4
    <3> QED
      BY <3>5
  <2> QED
    BY <1>2, <2>1
<1> HIDE DEF S
<1>3. \A k \in Nat : k \in S
  BY <1>1, <1>2, AllNat
<1> QED
  BY <1>3 DEF S

LEMMA LeftsIs ==
    ASSUME NEW t
    PROVE  Lefts(t)[0] = t /\ \A k \in Nat : Lefts(t)[k + 1] = Leftward(Lefts(t)[k])
<1> DEFINE pick(k) == CHOOSE g : GoesLeft(g, t, k)
           f == [k \in Nat |-> pick(k)[k]]
<1>1. \A k \in Nat : GoesLeft(pick(k), t, k)
  BY LeftsReach
<1> HIDE DEF pick
<1>2. f[0] = t
  BY <1>1 DEF GoesLeft
<1>3. ASSUME NEW k \in Nat, k # 0 PROVE f[k] = Leftward(f[k - 1])
  <2>1. k - 1 \in Nat /\ k - 1 <= k /\ k \in 1..k
    BY <1>3
  <2>2. pick(k)[k] = Leftward(pick(k)[k - 1])
    BY <1>1, <1>3, <2>1 DEF GoesLeft
  <2>3. pick(k - 1)[k - 1] = pick(k)[k - 1]
    <3> DEFINE g == pick(k - 1)
               h == pick(k)
               m == k - 1
    <3>1. m \in Nat /\ m <= k /\ GoesLeft(g, t, m) /\ GoesLeft(h, t, k)
      BY <1>1, <1>3, <2>1
    <3> HIDE DEF g, h, m
    <3>2. g[m] = h[m]
      BY <1>3, <3>1, LeftsAgree
    <3> QED
      BY <3>2 DEF g, h, m
  <2> QED
    BY <1>3, <2>1, <2>2, <2>3
<1>4. f = [k \in Nat |-> IF k = 0 THEN t
                         ELSE IF f[k - 1].op = "|" THEN f[k - 1].left ELSE f[k - 1]]
  <2>1. \A k \in Nat : f[k] = IF k = 0 THEN t
                              ELSE IF f[k - 1].op = "|" THEN f[k - 1].left ELSE f[k - 1]
    <3> HIDE DEF f
    <3> QED
      BY <1>2, <1>3 DEF Leftward
  <2>2. f = [k \in Nat |-> f[k]]
    OBVIOUS
  <2> HIDE DEF f
  <2> QED
    BY <2>1, <2>2
<1> HIDE DEF f
<1>5. Lefts(t) = [k \in Nat |-> IF k = 0 THEN t
                         ELSE IF Lefts(t)[k - 1].op = "|" THEN Lefts(t)[k - 1].left
                         ELSE Lefts(t)[k - 1]]
  BY <1>4 DEF Lefts
<1> DEFINE l == Lefts(t)
<1>6. l = [k \in Nat |-> IF k = 0 THEN t
                        ELSE IF l[k - 1].op = "|" THEN l[k - 1].left ELSE l[k - 1]]
  BY <1>5
<1> HIDE DEF l
<1>7. l[0] = t
  <2>1. 0 \in Nat
    OBVIOUS
  <2> QED
    BY <1>6, <2>1
<1>8. ASSUME NEW k \in Nat PROVE l[k + 1] = Leftward(l[k])
  <2>1. k + 1 \in Nat /\ k + 1 # 0 /\ (k + 1) - 1 = k
    BY <1>8
  <2> QED
    BY <1>6, <2>1 DEF Leftward
<1> QED
  BY <1>7, <1>8 DEF l

\* the last stage is the right side of the pipeline's outermost |
LEMMA LastStage ==
    ASSUME NEW t, NEW n \in Nat, n >= 2
    PROVE  Stages(t, n)[n] = t.right
<1>1. n \in 1..n /\ n # 1 /\ n - n = 0
  OBVIOUS
<1>2. Stages(t, n)[n] = Lefts(t)[0].right
  BY <1>1 DEF Stages
<1> QED
  BY <1>2, LeftsIs

\* a pipeline of n stages has a | above each of them but the first
LEMMA Pipes ==
    ASSUME NEW t, NEW n \in Nat, n >= 2, HasStages(t, n), NEW j \in Nat, j <= n - 2
    PROVE  Lefts(t)[j].op = "|"
<1> DEFINE l == Lefts(t)
           S == {d \in Nat : l[j].op # "|" => l[j + d].op # "|"}
           d == (n - 2) - j
<1>1. \A k \in Nat : l[k + 1] = Leftward(l[k])
  BY LeftsIs
<1>2. l[n - 2].op = "|"
  BY DEF HasStages
<1> HIDE DEF l
<1>3. 0 \in S
  <2>1. 0 \in Nat /\ j + 0 = j
    OBVIOUS
  <2> QED
    BY <2>1
<1>4. ASSUME NEW k \in Nat, k \in S PROVE k + 1 \in S
  <2>1. j + k \in Nat /\ j + (k + 1) = (j + k) + 1
    BY <1>4
  <2>2. l[j + (k + 1)] = Leftward(l[j + k])
    BY <1>1, <2>1
  <2>3. l[j].op # "|" => l[j + k].op # "|"
    BY <1>4
  <2>4. l[j].op # "|" => l[j + (k + 1)].op # "|"
    BY <2>2, <2>3 DEF Leftward
  <2> QED
    BY <1>4, <2>4
<1> HIDE DEF S
<1>5. \A k \in Nat : k \in S
  BY <1>3, <1>4, AllNat
<1>6. d \in Nat /\ j + d = n - 2
  OBVIOUS
<1> HIDE DEF d
<1>7. l[j].op # "|" => l[j + d].op # "|"
  BY <1>5, <1>6 DEF S
<1> QED
  BY <1>2, <1>6, <1>7 DEF l

\* a pipeline within the limit keeps all its stages
LEMMA KeptAll ==
    ASSUME Lawful, NEW t \in Parses, t.op = "|", NEW m \in Nat, m >= 2, HasStages(t, m)
    PROVE  Kept(m) = m
<1> DEFINE j == MaxPipeline - 1
<1>1. Lefts(t)[MaxPipeline - 1].op # "|"
  BY DEF Lawful, Grammar
<1>2. MaxPipeline \in Nat /\ MaxPipeline >= 2
  BY LanguageAssumption
<1>3. ASSUME ~(m <= MaxPipeline) PROVE FALSE
  <2>1. j \in Nat /\ j <= m - 2
    BY <1>2, <1>3
  <2> HIDE DEF j
  <2>2. Lefts(t)[j].op = "|"
    BY <2>1, Pipes
  <2> QED
    BY <1>1, <2>2 DEF j
<1> QED
  BY <1>3 DEF Kept

LEMMA StagesParse ==
    ASSUME Lawful, NEW t \in Parses, NEW n \in Nat, n >= 2, HasStages(t, n)
    PROVE  \A k \in 1..n : Stages(t, n)[k] \in Parses
<1> DEFINE l == Lefts(t)
<1>1. l[0] = t /\ \A k \in Nat : l[k + 1] = Leftward(l[k])
  BY LeftsIs
<1> HIDE DEF l
<1>3. \A k \in Nat : l[k] \in Parses
  <2> DEFINE S == {k \in Nat : l[k] \in Parses}
  <2>1. 0 \in S
    BY <1>1
  <2>2. ASSUME NEW k \in Nat, k \in S PROVE k + 1 \in S
    <3>1. l[k] \in Parses
      BY <2>2
    <3>2. Leftward(l[k]) \in Parses
      <4> DEFINE u == l[k]
      <4>1. u \in Parses
        BY <3>1
      <4> HIDE DEF u
      <4>2. u.op = "|" => u.left \in Parses
        BY <4>1, PartsOf
      <4>3. Leftward(u) \in Parses
        BY <4>1, <4>2 DEF Leftward
      <4> QED
        BY <4>3 DEF u
    <3> QED
      BY <1>1, <2>2, <3>2
  <2> HIDE DEF S
  <2>3. \A k \in Nat : k \in S
    BY <2>1, <2>2, AllNat
  <2> QED
    BY <2>3 DEF S
<1>4. \A j \in Nat : j <= n - 2 => l[j].op = "|"
  BY Pipes DEF l
<1>5. ASSUME NEW k \in 1..n PROVE Stages(t, n)[k] \in Parses
  <2>1. CASE k = 1
    <3>1. Stages(t, n)[k] = l[n - 1] /\ n - 1 \in Nat
      BY <2>1 DEF Stages, l
    <3> QED
      BY <1>3, <3>1
  <2>2. CASE k # 1
    <3> DEFINE u == l[n - k]
    <3>1. n - k \in Nat /\ n - k <= n - 2
      BY <1>5, <2>2
    <3>2. u \in Parses /\ u.op = "|"
      BY <1>3, <1>4, <3>1
    <3>3. Stages(t, n)[k] = u.right
      BY <2>2 DEF Stages, l
    <3> HIDE DEF u
    <3>4. u.right \in Parses
      BY <3>2, PartsOf
    <3> QED
      BY <3>3, <3>4
  <2> QED
    BY <2>1, <2>2
<1> QED
  BY <1>5

LEMMA ExecutePipelineMeant ==
    ASSUME Lawful, MInv, IInv', NEW i \in DOMAIN procs, ExecutePipeline(i)
    PROVE  MInv'
<1> DEFINE p == procs[i]
           t == p.do.tree
           s(m) == Stages(t, m)
           c(m, k) == Copy(p, ChildDoes(s(m)[k]), s(m)[k])
           cs(m) == [k \in 1..m |-> c(m, k)]
           kept(l, m) == [k \in 1..l |-> c(m, k)]
           n == Len(procs)
<1>1. p.do.what = "exec" /\ p.running /\ t.op = "|"
  BY DEF ExecutePipeline, Executes, Running
<1>15. PICK m \in 2..MaxProcs :
          /\ HasStages(t, m)
          /\ Forked(i, [Node(p) EXCEPT !.do = Waiting(n + 1, n + Kept(m))],
                    kept(Kept(m), m))
  BY DEF ExecutePipeline
<1>3. m \in Nat /\ m >= 2
  BY <1>15, ShellAssumption
<1>13. t \in Parses /\ Now(p).aliases \in Tables
  BY <1>1, OfMeant, OwnTable DEF Placed, Busy
<1>16. Kept(m) = m
  <2> HIDE DEF t
  <2> QED
    BY <1>1, <1>3, <1>13, <1>15, KeptAll
<1>2. /\ HasStages(t, m)
      /\ Forked(i, [Node(p) EXCEPT !.do = Waiting(n + 1, n + m)], cs(m))
  BY <1>15, <1>16
<1>14. \A k \in 1..m : s(m)[k] \in Parses
  <2> HIDE DEF t
  <2> QED
    BY <1>2, <1>3, <1>13, StagesParse
<1>4. \A k \in 1..m : \A j : Meant(c(m, k), j, procs')
  <2> HIDE DEF s
  <2> QED
    BY <1>1, <1>14, ChildMeant
<1>5. c(m, m) = Copy(p, ChildDoes(t.right), t.right)
  <2>1. s(m)[m] = t.right
    BY <1>3, LastStage
  <2> HIDE DEF s
  <2> QED
    BY <2>1
<1>6. \A w : Due(p, procs, w) => w = After(p, Wanted(t.right, State(p)).status % 256)
  <2>1. \A w : Due(p, procs, w) => w = Wanted(t, Now(p))
    BY <1>1 DEF Due
  <2>2. Wanted(t, Now(p)) = InCopy(t.right, Now(p))
    BY <1>1, <1>13, OfTree
  <2> QED
    BY <2>1, <2>2, InCopyIs
<1>7. /\ IsSeq(cs(m)) /\ Len(cs(m)) = m
      /\ \A k \in 1..m : cs(m)[k] = c(m, k)
  <2> DEFINE C == {c(m, k) : k \in 1..m}
  <2>1. \A k \in 1..m : c(m, k) \in C
    OBVIOUS
  <2> HIDE DEF c, C
  <2>2. cs(m) \in Seq(C) /\ Len(cs(m)) = m
    BY <1>3, <2>1
  <2>3. IsSeq(cs(m))
    BY <2>2, SeqIs
  <2>4. \A k \in 1..m : cs(m)[k] = c(m, k)
    OBVIOUS
  <2> QED
    BY <2>2, <2>3, <2>4
<1> HIDE DEF s, c
<1> DEFINE all == cs(m)
           do == ChildDoes(t.right)
           tree == t.right
<1> HIDE DEF cs
<1>8. Len(all) >= 1 /\ all[Len(all)] = Copy(p, do, tree)
  <2>1. m \in 1..m
    BY <1>3
  <2>2. cs(m)[m] = c(m, m)
    BY <1>7, <2>1
  <2> QED
    BY <1>3, <1>5, <1>7, <2>2
<1>9. \A k \in 1..Len(all) : Meant(all[k], n + k, procs')
  BY <1>4, <1>7
<1>10. Forked(i, [Node(p) EXCEPT !.do = Waiting(n + 1, Len(procs) + Len(all))], all)
  BY <1>2, <1>7
<1>11. IsSeq(all)
  BY <1>7
<1> HIDE DEF all, do, tree
<1>12. \A w : Due(p, procs, w) => w = After(p, Wanted(tree, State(p)).status % 256)
  BY <1>6 DEF tree
<1> QED
  BY <1>8, <1>9, <1>10, <1>11, <1>12, AwaitsLast

-------------------------------------------------------------------------------
(* Simple commands.                                                        *)

LEMMA CommandMeant ==
    ASSUME MInv, IInv', NEW i \in DOMAIN procs, NEW q, NEW code,
           procs[i].do.what = "command", procs' = [procs EXCEPT ![i] = q],
           q.stack = procs[i].stack, q.streams = procs[i].streams, q.do = Return(code),
           q.aliases = procs[i].aliases \/ q.aliases \in Tables,
           After(q, code) = MeaningOfCommand(procs[i].do.tree, Now(procs[i]))
    PROVE  MInv'
<1> DEFINE p == procs[i]
<1>1. Top(p).fun \in {"node", "child"}
  BY OfMeant DEF Placed, Busy
<1>2. Top(q) = Top(p)
  BY DEF Top
<1>3. Busy(q, i)
  BY <1>1, <1>2, BusyIs
<1>4. \A w : Due(p, procs, w) => Due(q, procs, w)
  <2>1. \A w : Due(p, procs, w) => w = MeaningOfCommand(p.do.tree, Now(p))
    BY DEF Due
  <2>2. Due(q, procs, After(q, code))
    BY DueIs
  <2> QED
    BY <2>1, <2>2
<1> QED
  BY <1>3, <1>4, GoesOn

LEMMA DoneIs ==
    ASSUME NEW p, DOMAIN p = Fields, NEW code, NEW q, q = Done(p, code)
    PROVE  /\ DOMAIN q = Fields /\ q.do = Return(code) /\ q.stack = p.stack
           /\ q.streams = p.streams /\ q.running = p.running /\ q.status = p.status
           /\ q.aliases = p.aliases /\ q.ran = p.ran
           /\ \A n : After(q, n) = After(p, n)
<1>1. /\ DOMAIN q = Fields /\ q.do = Return(code) /\ q.stack = p.stack
      /\ q.streams = p.streams /\ q.running = p.running /\ q.status = p.status
      /\ q.aliases = p.aliases /\ q.ran = p.ran
  BY DEF Done, Fields
<1>2. \A n : After(q, n) = After(p, n)
  BY <1>1 DEF After
<1> QED
  BY <1>1, <1>2

\* a command that fails before it runs, or has nothing to run
LEMMA CommandDone ==
    ASSUME MInv, IInv', NEW i \in DOMAIN procs, NEW code,
           procs[i].do.what = "command", Become(i, Done(procs[i], code)),
           MeaningOfCommand(procs[i].do.tree, Now(procs[i]))
               = [Now(procs[i]) EXCEPT !.status = code]
    PROVE  MInv'
<1> DEFINE p == procs[i]
           q == Done(p, code)
<1>1. DOMAIN p = Fields
  BY OfMeant DEF Sound
<1>2. procs' = [procs EXCEPT ![i] = q]
  BY DEF Become
<1>3. /\ q.do = Return(code) /\ q.stack = p.stack /\ q.streams = p.streams
      /\ q.aliases = p.aliases
      /\ \A n : After(q, n) = After(p, n)
  BY <1>1, DoneIs
<1>4. [Now(p) EXCEPT !.status = code] = After(p, code)
  BY BeingWith DEF Now, After
<1> HIDE DEF q
<1>5. After(q, code) = MeaningOfCommand(p.do.tree, Now(p))
  BY <1>3, <1>4
<1> QED
  BY <1>2, <1>3, <1>5, CommandMeant

LEMMA FailsOrAssignsMeant ==
    ASSUME Lawful, MInv, IInv', NEW i \in DOMAIN procs,
           RedirectionFails(i) \/ AssignmentOnly(i)
    PROVE  MInv'
<1> DEFINE p == procs[i]
           t == p.do.tree
<1>1. CASE RedirectionFails(i)
  <2>1. p.do.what = "command" /\ CannotOpen(t.redirs) /\ Become(i, Done(p, 1))
    BY <1>1 DEF RedirectionFails, Running
  <2>2. MeaningOfCommand(t, Now(p)) = [Now(p) EXCEPT !.status = 1]
    BY <2>1 DEF MeaningOfCommand
  <2> QED
    BY <2>1, <2>2, CommandDone
<1>2. CASE AssignmentOnly(i)
  <2>1. /\ p.do.what = "command" /\ ~CannotOpen(t.redirs) /\ t.argv = << >>
        /\ Become(i, Done(p, 0))
    BY <1>2 DEF AssignmentOnly, Running
  <2>2. MeaningOfCommand(t, Now(p)) = [Now(p) EXCEPT !.status = 0]
    BY <2>1 DEF MeaningOfCommand
  <2> QED
    BY <2>1, <2>2, CommandDone
<1> QED
  BY <1>1, <1>2

\* what a command that is called means
LEMMA CalledIs ==
    ASSUME NEW i, NEW name, Calls(i, name)
    PROVE  /\ procs[i].do.what = "command"
           /\ \A st : MeaningOfCommand(procs[i].do.tree, st) =
                          MeaningOfCall(name, Args(procs[i].do.tree), st)
BY DEF Calls, Running, MeaningOfCommand

LEMMA ExternalCommandMeant ==
    ASSUME Lawful, MInv, IInv', NEW i \in DOMAIN procs, ExternalCommand(i)
    PROVE  MInv'
<1> DEFINE p == procs[i]
           cmd == p.do.tree
           name == cmd.argv[1]
           code == IF name \in DOMAIN External THEN External[name] ELSE 127
           r == Launched(p)
           q == Done(r, code)
<1>1. /\ p.do.what = "command" /\ ~CannotOpen(cmd.redirs) /\ cmd.argv # << >>
      /\ name \notin {"exit", ".", "alias", "unalias"}
      /\ procs' = [procs EXCEPT ![i] = q]
  BY DEF ExternalCommand, RunsExternal, Running, Become
<1>2. MeaningOfCommand(cmd, Now(p)) = MeaningOfCall(name, Args(cmd), Now(p))
  BY <1>1 DEF MeaningOfCommand
<1>3. DOMAIN p = Fields
  BY OfMeant DEF Sound
<1>4. MeaningOfCall(name, Args(cmd), Now(p)) =
          Being(code, p.running, p.aliases, Append(p.ran, <<name, p.status>>))
  <2> HIDE DEF p, cmd, name
  <2> QED
    BY <1>1, OfExternal DEF Now
<1>5. /\ r.stack = p.stack /\ r.streams = p.streams
      /\ r.running = p.running /\ r.aliases = p.aliases
      /\ r.ran = Append(p.ran, <<name, p.status>>) /\ DOMAIN r = Fields
  BY <1>3 DEF Launched, Fields
<1> HIDE DEF code, name, r
<1>6. /\ q.do = Return(code) /\ q.stack = p.stack /\ q.streams = p.streams
      /\ q.running = p.running /\ q.aliases = p.aliases
      /\ q.ran = Append(p.ran, <<name, p.status>>)
  BY <1>5, DoneIs
<1> HIDE DEF q
<1>7. After(q, code) = MeaningOfCommand(cmd, Now(p))
  <2>1. After(q, code) =
            Being(code, p.running, p.aliases, Append(p.ran, <<name, p.status>>))
    BY <1>6 DEF After
  <2> QED
    BY <1>2, <1>4, <2>1
<1> QED
  BY <1>1, <1>6, <1>7, CommandMeant

\* a state in which the shell is to exit
Ended(status, aliases, ran) == Being(status, FALSE, aliases, ran)

Ending(st) == [st EXCEPT !.running = FALSE]

LEMMA EndedIs ==
    ASSUME NEW s, NEW r, NEW a, NEW x
    PROVE  /\ Ending(Being(s, r, a, x)) = Ended(s, a, x)
           /\ \A n : [Ended(s, a, x) EXCEPT !.status = n] = Ended(n, a, x)
<1>1. \A b : [Being(s, r, a, x) EXCEPT !.running = b] = Being(s, b, a, x)
  BY BeingWith
<1>2. [Being(s, r, a, x) EXCEPT !.running = FALSE] = Being(s, FALSE, a, x)
  BY <1>1, Zenon
<1>3. \A b, n : [Being(s, b, a, x) EXCEPT !.status = n] = Being(n, b, a, x)
  BY BeingWith
<1>4. \A n : [Being(s, FALSE, a, x) EXCEPT !.status = n] = Being(n, FALSE, a, x)
  BY <1>3, Zenon
<1> QED
  BY <1>2, <1>4 DEF Ended, Ending

\* exit, as one level of the language
LEMMA OfExit ==
    ASSUME NEW args, NEW s, NEW r, NEW a, NEW x
    PROVE  /\ args = << >> => MeaningOfExit(args, Being(s, r, a, x)) = Ended(s, a, x)
           /\ args # << >> /\ args[1] \notin DOMAIN Number =>
                  MeaningOfExit(args, Being(s, r, a, x)) = Ended(2, a, x)
           /\ args # << >> /\ args[1] \in DOMAIN Number /\ Len(args) > 1 =>
                  MeaningOfExit(args, Being(s, r, a, x)) = Being(1, r, a, x)
           /\ args # << >> /\ args[1] \in DOMAIN Number /\ ~(Len(args) > 1) =>
                  MeaningOfExit(args, Being(s, r, a, x)) =
                      Ended(ExitCode(Number[args[1]]), a, x)
<1> DEFINE st == Being(s, r, a, x)
           n == ExitCode(Number[args[1]])
<1>1. args = << >> => ~(Len(args) > 1)
  OBVIOUS
<1>2. Ending(st) = Ended(s, a, x)
  BY EndedIs
<1>3. \A m : [Ending(st) EXCEPT !.status = m] = Ended(m, a, x)
  BY <1>2, EndedIs
<1>4. \A m : [st EXCEPT !.status = m] = Being(m, r, a, x)
  BY BeingWith
<1> HIDE DEF st, n
<1>5. /\ args = << >> => MeaningOfExit(args, st) = Ending(st)
      /\ args # << >> /\ args[1] \notin DOMAIN Number =>
             MeaningOfExit(args, st) = [Ending(st) EXCEPT !.status = 2]
  BY <1>1 DEF MeaningOfExit, Ending
<1>6. args # << >> /\ args[1] \in DOMAIN Number /\ Len(args) > 1 =>
          MeaningOfExit(args, st) = [st EXCEPT !.status = 1]
  BY DEF MeaningOfExit
<1>7. args # << >> /\ args[1] \in DOMAIN Number /\ ~(Len(args) > 1) =>
          MeaningOfExit(args, st) = [Ending(st) EXCEPT !.status = n]
  BY DEF MeaningOfExit, Ending, n
<1> QED
  BY <1>2, <1>3, <1>4, <1>5, <1>6, <1>7 DEF st, n

LEMMA StoppedIs ==
    ASSUME NEW p, DOMAIN p = Fields, NEW code, NEW q, q = Stopped(p, code)
    PROVE  /\ q.do = Return(code) /\ q.stack = p.stack /\ q.streams = p.streams
           /\ q.aliases = p.aliases
           /\ \A n : After(q, n) = Ended(n, p.aliases, p.ran)
<1>1. /\ q.do = Return(code) /\ q.stack = p.stack /\ q.streams = p.streams
      /\ q.running = FALSE /\ q.aliases = p.aliases /\ q.ran = p.ran
  BY DEF Stopped, Done, Fields
<1> QED
  BY <1>1 DEF After, Ended

LEMMA BuiltinExitMeant ==
    ASSUME Lawful, MInv, IInv', NEW i \in DOMAIN procs, BuiltinExit(i)
    PROVE  MInv'
<1> DEFINE p == procs[i]
           args == Args(p.do.tree)
           stop(n) == Stopped(p, n)
           fail == [Done(p, 1) EXCEPT !.status = 1]
           n == ExitCode(Number[args[1]])
<1>1. Calls(i, "exit")
  BY DEF BuiltinExit
<1>2. \A st : MeaningOfCommand(p.do.tree, st) = MeaningOfExit(args, st)
  <2>1. \A st : MeaningOfCommand(p.do.tree, st) = MeaningOfCall("exit", args, st)
    BY <1>1, CalledIs
  <2>2. \A st : MeaningOfCall("exit", args, st) = MeaningOfExit(args, st)
    BY DEF MeaningOfCall
  <2> QED
    BY <2>1, <2>2
<1>3. p.do.what = "command" /\ DOMAIN p = Fields
  BY <1>1, CalledIs, OfMeant DEF Sound
<1>4. Now(p) = Being(p.status, p.running, p.aliases, p.ran)
  BY DEF Now
<1>5. \A c : /\ stop(c).do = Return(c) /\ stop(c).stack = p.stack
             /\ stop(c).streams = p.streams /\ stop(c).aliases = p.aliases
             /\ After(stop(c), c) = Ended(c, p.aliases, p.ran)
  <2> HIDE DEF p
  <2> QED
    BY <1>3, StoppedIs
<1>6. ASSUME NEW c, procs' = [procs EXCEPT ![i] = stop(c)],
             MeaningOfExit(args, Now(p)) = Ended(c, p.aliases, p.ran)
      PROVE  MInv'
  <2> DEFINE q == stop(c)
  <2>1. procs' = [procs EXCEPT ![i] = q]
    BY <1>6
  <2>2. /\ q.do = Return(c) /\ q.stack = p.stack /\ q.streams = p.streams
        /\ q.aliases = p.aliases
    BY <1>5
  <2>3. After(q, c) = MeaningOfCommand(p.do.tree, Now(p))
    BY <1>2, <1>5, <1>6
  <2> HIDE DEF q
  <2> QED
    BY <1>3, <2>1, <2>2, <2>3, CommandMeant
<1> HIDE DEF args
<1>7. CASE args = << >>
  <2>1. procs' = [procs EXCEPT ![i] = stop(p.status)]
    BY <1>7 DEF BuiltinExit, Become, args
  <2>2. MeaningOfExit(args, Now(p)) = Ended(p.status, p.aliases, p.ran)
    BY <1>4, <1>7, OfExit
  <2> QED
    BY <1>6, <2>1, <2>2
<1>8. CASE args # << >> /\ args[1] \notin DOMAIN Number
  <2>1. procs' = [procs EXCEPT ![i] = stop(2)]
    BY <1>8 DEF BuiltinExit, Become, args
  <2>2. MeaningOfExit(args, Now(p)) = Ended(2, p.aliases, p.ran)
    BY <1>4, <1>8, OfExit
  <2> QED
    BY <1>6, <2>1, <2>2
<1>9. CASE args # << >> /\ args[1] \in DOMAIN Number /\ ~(Len(args) > 1)
  <2>1. procs' = [procs EXCEPT ![i] = stop(n)]
    BY <1>9 DEF BuiltinExit, Become, args
  <2>2. MeaningOfExit(args, Now(p)) = Ended(n, p.aliases, p.ran)
    BY <1>4, <1>9, OfExit
  <2> QED
    BY <1>6, <2>1, <2>2
<1>10. CASE args # << >> /\ args[1] \in DOMAIN Number /\ Len(args) > 1
  <2>1. procs' = [procs EXCEPT ![i] = fail]
    BY <1>10 DEF BuiltinExit, Become, args
  <2>2. MeaningOfExit(args, Now(p)) = Being(1, p.running, p.aliases, p.ran)
    BY <1>4, <1>10, OfExit
  <2>3. /\ fail.do = Return(1) /\ fail.stack = p.stack /\ fail.streams = p.streams
        /\ fail.running = p.running /\ fail.aliases = p.aliases /\ fail.ran = p.ran
    BY <1>3 DEF Done, Fields
  <2> HIDE DEF fail
  <2>4. After(fail, 1) = MeaningOfCommand(p.do.tree, Now(p))
    BY <1>2, <2>2, <2>3 DEF After
  <2> QED
    BY <1>3, <2>1, <2>3, <2>4, CommandMeant
<1> QED
  BY <1>7, <1>8, <1>9, <1>10

\* alias and unalias leave a table and a status
LEMMA TableMeant ==
    ASSUME MInv, IInv', NEW i \in DOMAIN procs, NEW code, NEW table \in Tables,
           procs[i].do.what = "command",
           procs' = [procs EXCEPT ![i] = [Done(procs[i], code) EXCEPT !.aliases = table,
                                                                      !.status = code]],
           MeaningOfCommand(procs[i].do.tree, Now(procs[i]))
               = Being(code, procs[i].running, table, procs[i].ran)
    PROVE  MInv'
<1> DEFINE p == procs[i]
           r == Done(p, code)
           q == [r EXCEPT !.aliases = table, !.status = code]
<1>1. DOMAIN p = Fields
  BY OfMeant DEF Sound
<1>2. /\ r.do = Return(code) /\ r.stack = p.stack /\ r.streams = p.streams
      /\ r.running = p.running /\ r.ran = p.ran /\ DOMAIN r = Fields
  BY <1>1, DoneIs
<1>3. procs' = [procs EXCEPT ![i] = q]
  OBVIOUS
<1> HIDE DEF r
<1>4. /\ q.do = Return(code) /\ q.stack = p.stack /\ q.streams = p.streams
      /\ q.running = p.running /\ q.aliases = table /\ q.ran = p.ran
  BY <1>2 DEF Fields
<1> HIDE DEF q
<1>5. After(q, code) = MeaningOfCommand(p.do.tree, Now(p))
  BY <1>4 DEF After
<1> QED
  BY <1>3, <1>4, <1>5, CommandMeant

LEMMA MaxOf ==
    ASSUME NEW n \in Nat, NEW S \in SUBSET (1..n), S # {}
    PROVE  Max(S) \in S
<1> DEFINE T == {n - k : k \in S}
<1>1. T \in SUBSET Nat /\ T # {}
  <2>1. \A k \in S : k \in Nat /\ k <= n
    OBVIOUS
  <2>2. \A k \in S : n - k \in Nat
    BY <2>1
  <2> QED
    BY <2>2
<1>2. PICK m \in T : \A j \in T : m <= j
  BY <1>1, LeastNat
<1>3. PICK x \in S : m = n - x
  BY <1>2
<1>4. ASSUME NEW y \in S PROVE x >= y
  <2>1. n - y \in T
    OBVIOUS
  <2>2. n - x <= n - y
    BY <1>2, <1>3, <2>1
  <2>3. x \in 1..n /\ y \in 1..n
    OBVIOUS
  <2> HIDE DEF T
  <2> QED
    BY <2>2, <2>3
<1>5. \E z \in S : \A y \in S : z >= y
  BY <1>3, <1>4
<1> QED
  BY <1>5 DEF Max

\* alias and unalias make tables that definitions can make
LEMMA TablesMade ==
    ASSUME NEW table \in Tables, NEW ws, IsSeq(ws)
    PROVE  AliasAll(table, ws) \in Tables /\ Unaliased(table, ws).table \in Tables
<1> DEFINE V == {NoAlias} \cup {Definitions[w].value : w \in DOMAIN Definitions}
           of(n) == {i \in DOMAIN ws : ws[i] \in DOMAIN Definitions
                                          /\ Definitions[ws[i]].name = n}
<1>1. table \in [AliasNames -> V] /\ DOMAIN table = AliasNames
  BY DEF Tables
<1>2. DOMAIN ws = 1..Len(ws) /\ Len(ws) \in Nat
  BY Indices
<1>3. ASSUME NEW n, of(n) # {} PROVE Definitions[ws[Max(of(n))]].value \in V
  <2>1. of(n) \in SUBSET (1..Len(ws))
    BY <1>2
  <2>2. Max(of(n)) \in of(n)
    <3> HIDE DEF of
    <3> QED
      BY <1>2, <1>3, <2>1, MaxOf
  <2>3. ws[Max(of(n))] \in DOMAIN Definitions
    BY <2>2
  <2> QED
    BY <2>3
<1>4. AliasAll(table, ws) = [n \in DOMAIN table |->
          IF of(n) = {} THEN table[n] ELSE Definitions[ws[Max(of(n))]].value]
  BY DEF AliasAll
<1>5. AliasAll(table, ws) \in [AliasNames -> V]
  <2> HIDE DEF V, of
  <2> QED
    BY <1>1, <1>3, <1>4
<1>6. NoAlias \in V
  OBVIOUS
<1> HIDE DEF V
<1>7. NoAliases \in [AliasNames -> V]
  BY <1>6 DEF NoAliases
<1>8. [n \in DOMAIN table |-> IF \E i \in DOMAIN ws : ws[i] = n THEN NoAlias ELSE table[n]]
          \in [AliasNames -> V]
  BY <1>1, <1>6
<1>9. Unaliased(table, ws).table \in [AliasNames -> V]
  <2>1. CASE ws = << >>
    BY <1>1, <2>1 DEF Unaliased
  <2>2. CASE ws # << >> /\ ws[1] = "-a"
    BY <1>7, <2>2 DEF Unaliased
  <2>3. CASE ws # << >> /\ ws[1] # "-a"
    BY <1>8, <2>3 DEF Unaliased
  <2> QED
    BY <2>1, <2>2, <2>3
<1> QED
  BY <1>5, <1>9 DEF Tables, V

\* the arguments of a command that is called
LEMMA ArgsIs ==
    ASSUME Lawful, MInv, NEW i \in DOMAIN procs, NEW name, Calls(i, name)
    PROVE  IsSeq(Args(procs[i].do.tree)) /\ procs[i].aliases \in Tables
<1> DEFINE p == procs[i]
           argv == p.do.tree.argv
           R == Range(argv)
<1>1. p.do.what = "command" /\ argv # << >>
  BY DEF Calls, Running
<1>2. p.aliases \in Tables /\ p.do.tree \in Parses /\ p.do.tree.op = "cmd"
  BY <1>1, OfMeant DEF Placed, Busy
<1>3. argv \in Seq(R)
  BY <1>2, PartsOf
<1>4. Tail(argv) \in Seq(R)
  <2> HIDE DEF argv, R
  <2> QED
    BY <1>1, <1>3, HeadTailProperties
<1>5. IsSeq(Tail(argv))
  BY <1>4, SeqIs
<1> QED
  BY <1>2, <1>5 DEF Args

LEMMA BuiltinAliasMeant ==
    ASSUME Lawful, MInv, IInv', NEW i \in DOMAIN procs, BuiltinAlias(i)
    PROVE  MInv'
<1> DEFINE p == procs[i]
           args == Args(p.do.tree)
           code == IF AliasFails(p.aliases, args) THEN 1 ELSE 0
           table == AliasAll(p.aliases, args)
<1>1. p.do.what = "command" /\ DOMAIN p = Fields
  BY CalledIs, OfMeant DEF BuiltinAlias, Sound
<1>2. MeaningOfCommand(p.do.tree, Now(p)) = MeaningOfCall("alias", args, Now(p))
  BY CalledIs DEF BuiltinAlias
<1>3. MeaningOfCall("alias", args, Now(p)) = Being(code, p.running, table, p.ran)
  BY OfAlias DEF Now
<1>4. Done(p, code).aliases = p.aliases
  BY <1>1, DoneIs
<1>5. procs' = [procs EXCEPT ![i] = [Done(p, code) EXCEPT !.aliases = AliasAll(@, args),
                                                          !.status = code]]
  BY DEF BuiltinAlias, Become
<1> HIDE DEF args, code
<1>6. procs' = [procs EXCEPT ![i] = [Done(p, code) EXCEPT !.aliases = table,
                                                          !.status = code]]
  BY <1>4, <1>5
<1>7. table \in Tables
  <2>1. IsSeq(args) /\ p.aliases \in Tables
    BY ArgsIs DEF BuiltinAlias, args
  <2> QED
    BY <2>1, TablesMade
<1> HIDE DEF table
<1> QED
  BY <1>1, <1>2, <1>3, <1>6, <1>7, TableMeant

LEMMA BuiltinUnaliasMeant ==
    ASSUME Lawful, MInv, IInv', NEW i \in DOMAIN procs, BuiltinUnalias(i)
    PROVE  MInv'
<1> DEFINE p == procs[i]
           u == Unaliased(p.aliases, Args(p.do.tree))
           code == u.code
           table == u.table
<1>1. p.do.what = "command"
  BY CalledIs DEF BuiltinUnalias
<1>2. MeaningOfCommand(p.do.tree, Now(p)) = MeaningOfCall("unalias", Args(p.do.tree), Now(p))
  BY CalledIs DEF BuiltinUnalias
<1>3. MeaningOfCall("unalias", Args(p.do.tree), Now(p)) = Being(code, p.running, table, p.ran)
  BY OfAlias DEF Now
<1>4. procs' = [procs EXCEPT ![i] = [Done(p, code) EXCEPT !.aliases = table,
                                                          !.status = code]]
  BY DEF BuiltinUnalias, Become
<1>5. table \in Tables
  <2>1. IsSeq(Args(p.do.tree)) /\ p.aliases \in Tables
    BY ArgsIs DEF BuiltinUnalias
  <2> QED
    BY <2>1, TablesMade
<1> HIDE DEF code, table
<1> QED
  BY <1>1, <1>2, <1>3, <1>4, <1>5, TableMeant

-------------------------------------------------------------------------------
(* Streams that open.                                                      *)

\* lines the shell can read from the start
Legible(lines) == IsSeq(lines) /\ Familiar(lines)

LEMMA OpenIs ==
    ASSUME NEW lines, Legible(lines)
    PROVE  Readable(Open(lines)) /\ Rest(Open(lines)) = lines
<1> DEFINE n == Len(lines)
           R == {lines[k] : k \in DOMAIN lines}
<1>1. IsSeq(lines) /\ n \in Nat
  BY Indices DEF Legible
<1>2. Readable(Open(lines))
  <2>1. 1 \in 1..(n + 1)
    BY <1>1
  <2> QED
    BY <1>1, <2>1 DEF Readable, Open, Legible
<1>3. lines \in Seq(R)
  BY <1>1 DEF IsSeq
<1> HIDE DEF R
<1>4. lines = [k \in 1..n |-> lines[k]]
  BY <1>3
<1>5. SubSeq(lines, 1, n) = [k \in 1..n |-> lines[k]]
  <2>1. \A k \in 1..n : lines[k] \in R
    BY <1>3
  <2> HIDE DEF n
  <2> QED
    BY <1>1, <1>3, <2>1
<1>6. SubSeq(lines, 1, Len(lines)) = lines
  BY <1>4, <1>5
<1> QED
  BY <1>2, <1>6 DEF Rest, Open

LEMMA Opens ==
    ASSUME NEW stack, IsSeq(stack), stack # << >>, NEW streams, IsSeq(streams),
           Callers(stack, Len(streams)), \A k \in DOMAIN streams : Readable(streams[k]),
           NEW v, NEW lines, Legible(lines),
           Chain(stack, streams, WantedOfLines(lines, v)),
           NEW f, f.fun = "stream", f.saved = Len(streams)
    PROVE  LET a == Append(stack, f)
               t == Append(streams, Open(lines))
           IN  /\ a[1] = stack[1] /\ a[Len(a)] = f
               /\ Callers(a, Len(t)) /\ (\A k \in DOMAIN t : Readable(t[k]))
               /\ Chain(a, t, v)
<1> DEFINE a == Append(stack, f)
           t == Append(streams, Open(lines))
           n == Len(streams)
           w == WantedOfLines(lines, v)
<1>1. /\ IsSeq(t) /\ Len(t) = n + 1 /\ t[n + 1] = Open(lines)
      /\ \A k \in 1..n : t[k] = streams[k]
  BY AppendAny
<1>2. n \in Nat /\ DOMAIN streams = 1..n /\ DOMAIN t = 1..Len(t)
  BY <1>1, Indices
<1>3. /\ Len(a) = Len(stack) + 1 /\ a[Len(stack) + 1] = f
      /\ \A k \in 1..Len(stack) : a[k] = stack[k]
  BY AppendAny
<1>4. Len(stack) \in Nat /\ Len(stack) >= 1 /\ DOMAIN stack = 1..Len(stack)
  BY Indices
<1>5. f.fun = "stream" /\ f.saved = n /\ Callers(stack, n) /\ Chain(stack, streams, w)
  OBVIOUS
<1>6. Readable(Open(lines)) /\ Rest(Open(lines)) = lines
  BY OpenIs
<1> DEFINE m == n + 1
<1>7. Callers(a, m)
  <2>1. m \in Nat /\ n <= m /\ n < m
    BY <1>2
  <2>2. f.fun \notin {"main", "child"} /\ f.fun # "repl" /\ f.fun # "line" /\ Keeps(f)
    BY <1>5, KeepsNone
  <2> HIDE DEF m, n
  <2> QED
    BY <1>2, <1>5, <2>1, <2>2, CallersPushed
<1> HIDE DEF t, w, n
<1>8. \A k \in 1..Len(stack) : stack[k].fun = "stream" =>
          t[stack[k].saved + 1] = streams[stack[k].saved + 1]
  <2>1. \A k \in 1..Len(stack) : stack[k].fun = "stream" =>
            stack[k].saved \in Nat /\ stack[k].saved < n
    BY <1>4, <1>5 DEF Callers
  <2>2. \A j \in Nat : j < n => t[j + 1] = streams[j + 1]
    BY <1>1, <1>2
  <2> QED
    BY <2>1, <2>2
<1>9. Chain(stack, t, w)
  BY <1>5, <1>8, Rechained
<1>10. Linked(f, t, v, w)
  BY <1>1, <1>5, <1>6 DEF Linked, w
<1>11. Chain(a, t, v)
  BY <1>9, <1>10, Chained
<1>12. \A k \in DOMAIN t : Readable(t[k])
  <2>1. \A k \in DOMAIN t : k = n + 1 \/ k \in 1..n
    BY <1>1, <1>2
  <2> QED
    BY <1>1, <1>2, <1>6, <2>1
<1>13. a[1] = stack[1] /\ a[Len(a)] = f
  BY <1>3, <1>4
<1> QED
  BY <1>1, <1>7, <1>11, <1>12, <1>13 DEF t

LEMMA FilesLegible == ASSUME NEW f \in DOMAIN Files PROVE Legible(Files[f])
<1>1. Files[f] \in Seq(Range(Files[f]))
  BY LanguageAssumption
<1>2. IsSeq(Files[f])
  BY <1>1, SeqIs
<1>3. Familiar(Files[f])
  <2> DEFINE ls == Files[f]
  <2>1. ls \in Seq(Range(ls))
    BY <1>1
  <2>2. \A k \in DOMAIN ls : ls[k] \in Range(ls)
    BY DEF Range
  <2> DEFINE R == {Range(Files[g]) : g \in DOMAIN Files}
  <2>3. Range(ls) \in R
    OBVIOUS
  <2>4. UNION R \subseteq Known
    BY DEF Known, LinesOf
  <2> HIDE DEF R, ls
  <2>5. \A k \in DOMAIN ls : ls[k] \in Known
    BY <2>2, <2>3, <2>4
  <2> QED
    BY <2>5 DEF Familiar, ls
<1> QED
  BY <1>2, <1>3 DEF Legible

\* shell_run_stream is due to leave what its lines do
LEMMA RunsLines ==
    ASSUME NEW p, DOMAIN p = Fields, IsSeq(p.stack), p.stack # << >>, IsSeq(p.streams),
           p.input = Len(p.streams), p.aliases \in Tables, Callers(p.stack, Len(p.streams)),
           \A k \in DOMAIN p.streams : Readable(p.streams[k]),
           NEW lines, Legible(lines),
           Chain(p.stack, p.streams, WantedOfLines(lines, Now(p))),
           NEW i, NEW ps
    PROVE  Meant(RunStream(p, lines), i, ps) /\ RunStream(p, lines).stack[1] = p.stack[1]
<1> DEFINE f == [fun |-> "stream", saved |-> p.input]
           q == RunStream(p, lines)
           v == Now(p)
<1>1. /\ q.stack = Append(p.stack, f) /\ q.streams = Append(p.streams, Open(lines))
      /\ q.do = Reading /\ q.running = p.running /\ q.status = p.status
      /\ q.aliases = p.aliases /\ q.ran = p.ran
  BY DEF Fields, Push, RunStream
<1>2. f.fun = "stream" /\ f.saved = Len(p.streams)
  OBVIOUS
<1>3. Now(q) = v
  BY <1>1, SameNow
<1>4. Chain(p.stack, p.streams, WantedOfLines(lines, v))
  OBVIOUS
<1>9. q.aliases \in Tables
  BY <1>1
<1> HIDE DEF f, q, v
<1>5. /\ q.stack[1] = p.stack[1] /\ q.stack[Len(q.stack)] = f
      /\ Callers(q.stack, Len(q.streams))
      /\ \A k \in DOMAIN q.streams : Readable(q.streams[k])
      /\ Chain(q.stack, q.streams, v)
  <2> DEFINE a == Append(p.stack, f)
             t == Append(p.streams, Open(lines))
  <2>1. /\ a[1] = p.stack[1] /\ a[Len(a)] = f
        /\ Callers(a, Len(t)) /\ (\A k \in DOMAIN t : Readable(t[k]))
        /\ Chain(a, t, v)
    BY <1>2, <1>4, Opens
  <2> HIDE DEF a, t
  <2>2. q.stack = a /\ q.streams = t
    BY <1>1 DEF a, t
  <2> QED
    BY <2>1, <2>2
<1>6. Top(q).fun = "stream"
  BY <1>2, <1>5 DEF Top
<1>7. Busy(q, i)
  BY <1>1, <1>6, BusyIs
<1>8. Due(q, ps, v)
  BY <1>1, <1>3 DEF Due, Reading
<1> QED
  BY <1>5, <1>7, <1>8, <1>9 DEF Meant, Placed, q

LEMMA BuiltinSourceMeant ==
    ASSUME Lawful, MInv, IInv', NEW i \in DOMAIN procs, BuiltinSource(i)
    PROVE  MInv'
<1> DEFINE p == procs[i]
           args == Args(p.do.tree)
           lines == Files[args[1]]
<1>1. p.do.what = "command" /\ DOMAIN p = Fields
  BY CalledIs, OfMeant DEF BuiltinSource, Sound
<1>2. MeaningOfCommand(p.do.tree, Now(p)) = MeaningOfSource(args, Now(p))
  <2>1. MeaningOfCommand(p.do.tree, Now(p)) = MeaningOfCall(".", args, Now(p))
    BY CalledIs DEF BuiltinSource
  <2>2. MeaningOfCall(".", args, Now(p)) = MeaningOfSource(args, Now(p))
    BY DEF MeaningOfCall
  <2> QED
    BY <2>1, <2>2
<1>3. Become(i, CASE args = << >> -> Done(p, 2)
                  [] args # << >> /\ args[1] \notin DOMAIN Files -> Done(p, 1)
                  [] OTHER -> RunStream(p, lines))
  BY DEF BuiltinSource
<1>4. CASE args = << >>
  <2>1. Become(i, Done(p, 2))
    BY <1>3, <1>4
  <2>2. MeaningOfCommand(p.do.tree, Now(p)) = [Now(p) EXCEPT !.status = 2]
    BY <1>2, <1>4 DEF MeaningOfSource
  <2> QED
    BY <1>1, <2>1, <2>2, CommandDone
<1>5. CASE args # << >> /\ args[1] \notin DOMAIN Files
  <2>1. Become(i, Done(p, 1))
    BY <1>3, <1>5
  <2>2. MeaningOfCommand(p.do.tree, Now(p)) = [Now(p) EXCEPT !.status = 1]
    BY <1>2, <1>5 DEF MeaningOfSource
  <2> QED
    BY <1>1, <2>1, <2>2, CommandDone
<1>6. CASE args # << >> /\ args[1] \in DOMAIN Files
  <2>1. procs' = [procs EXCEPT ![i] = RunStream(p, lines)]
    BY <1>3, <1>6 DEF Become
  <2>2. MeaningOfCommand(p.do.tree, Now(p)) = WantedOfLines(lines, Now(p))
    BY <1>2, <1>6 DEF MeaningOfSource
  <2>3. Legible(lines)
    BY <1>6, FilesLegible
  <2> HIDE DEF lines
  <2>4. \E w : Due(p, procs, w) /\ Chain(p.stack, p.streams, w)
    BY OfMeant
  <2>5. Chain(p.stack, p.streams, WantedOfLines(lines, Now(p)))
    <3>1. \A w : Due(p, procs, w) => w = WantedOfLines(lines, Now(p))
      BY <1>1, <2>2 DEF Due
    <3> QED
      BY <2>4, <3>1
  <2>6. /\ IsSeq(p.stack) /\ p.stack # << >> /\ IsSeq(p.streams)
        /\ p.input = Len(p.streams) /\ p.aliases \in Tables /\ Callers(p.stack, Len(p.streams))
        /\ \A k \in DOMAIN p.streams : Readable(p.streams[k])
    BY OfMeant DEF Sound, Placed
  <2> DEFINE q == RunStream(p, lines)
  <2>7. Meant(q, i, procs) /\ q.stack[1] = p.stack[1]
    BY <1>1, <2>3, <2>5, <2>6, RunsLines
  <2>8. procs' = [procs EXCEPT ![i] = q]
    BY <2>1
  <2> HIDE DEF q
  <2> QED
    BY <2>7, <2>8, Proceeds
<1> QED
  BY <1>4, <1>5, <1>6

-------------------------------------------------------------------------------
(* A line that is read.                                                    *)

\* the stream s after its next line
Advanced(s) == [s EXCEPT !.at = @ + 1]

LEMMA NextLine ==
    ASSUME Lawful, NEW s, Readable(s), ~(s.at > Len(s.lines))
    PROVE  /\ Rest(s) # << >> /\ Head(Rest(s)) = s.lines[s.at]
           /\ Tail(Rest(s)) = Rest(Advanced(s)) /\ Readable(Advanced(s))
           /\ s.lines[s.at] \in Known
           /\ ParseTokens(s.lines[s.at].line) = s.lines[s.at].tree
<1> DEFINE ls == s.lines
           n == Len(ls)
           a == s.at
           e == Advanced(s)
           R == {ls[k] : k \in DOMAIN ls}
<1>1. /\ n \in Nat /\ DOMAIN ls = 1..n /\ a \in 1..(n + 1) /\ Familiar(ls)
      /\ DOMAIN s = {"lines", "at"} /\ IsSeq(ls)
  BY Indices DEF Readable
<1>2. a \in 1..n /\ a + 1 \in 1..(n + 1)
  BY <1>1
<1>3. e.lines = ls /\ e.at = a + 1 /\ DOMAIN e = {"lines", "at"}
  BY <1>1 DEF Advanced
<1>4. ls \in Seq(R) /\ \A k \in 1..n : ls[k] \in R
  BY <1>1 DEF IsSeq
<1>5. ls[a] \in Known /\ ParseTokens(ls[a].line) = ls[a].tree
  BY <1>1, <1>2 DEF Familiar, Lawful, Grammar
<1> HIDE DEF e
<1>6. Readable(e)
  BY <1>1, <1>2, <1>3 DEF Readable
<1>7. Rest(s) = SubSeq(ls, a, n) /\ Rest(e) = SubSeq(ls, a + 1, n)
  BY <1>3 DEF Rest
<1> HIDE DEF ls, n, a, R
<1> DEFINE m == n - a + 1
<1>8. m \in Nat /\ m >= 1
  BY <1>1, <1>2
<1>9. SubSeq(ls, a, n) = [k \in 1..m |-> ls[a + k - 1]]
  BY <1>1, <1>2, <1>4
<1>10. SubSeq(ls, a + 1, n) = [k \in 1..(m - 1) |-> ls[a + k]]
  BY <1>1, <1>2, <1>4
<1>11. \A k \in 1..m : a + k - 1 \in 1..n
  BY <1>1, <1>2
<1> DEFINE r == SubSeq(ls, a, n)
<1>12. r \in Seq(R) /\ Len(r) = m /\ \A k \in 1..m : r[k] = ls[a + k - 1]
  <2>1. r = [k \in 1..m |-> ls[a + k - 1]]
    BY <1>9
  <2> HIDE DEF r, m
  <2>2. \A k \in 1..m : r[k] = ls[a + k - 1] /\ r[k] \in R
    BY <1>4, <1>11, <2>1
  <2>3. r \in [1..m -> R]
    BY <2>1, <2>2
  <2> QED
    BY <1>8, <2>2, <2>3
<1> HIDE DEF r, m
<1>13. r # << >> /\ Head(r) = ls[a]
  <2>1. r # << >>
    BY <1>8, <1>12, EmptySeq
  <2>2. Head(r) = r[1]
    BY <1>12, <2>1
  <2>3. a + 1 - 1 = a /\ 1 \in 1..m
    BY <1>2, <1>8
  <2> QED
    BY <1>12, <2>1, <2>2, <2>3
<1>14. Tail(r) = [k \in 1..(m - 1) |-> ls[a + k]]
  <2>1. Tail(r) = [k \in 1..(m - 1) |-> r[k + 1]]
    <3>1. /\ Tail(r) \in Seq(R) /\ Len(Tail(r)) = Len(r) - 1
          /\ \A k \in 1..Len(Tail(r)) : Tail(r)[k] = r[k + 1]
      BY <1>12, <1>13, HeadTailProperties
    <3> DEFINE y == Tail(r)
    <3>2. y \in Seq(R) /\ Len(y) = m - 1 /\ \A k \in 1..Len(y) : y[k] = r[k + 1]
      BY <1>12, <3>1
    <3> HIDE DEF y
    <3>3. y = [k \in 1..(m - 1) |-> y[k]]
      BY <3>2
    <3> QED
      BY <3>2, <3>3 DEF y
  <2>2. \A k \in 1..(m - 1) : k + 1 \in 1..m /\ a + (k + 1) - 1 = a + k
    BY <1>2, <1>8
  <2>3. \A k \in 1..(m - 1) : r[k + 1] = ls[a + k]
    BY <1>12, <2>2
  <2> QED
    BY <2>1, <2>3
<1> QED
  BY <1>5, <1>6, <1>7, <1>10, <1>13, <1>14 DEF ls, a, e, r, n, m

\* a line means what its aliases and the parser make of it
LEMMA LineMeans ==
    ASSUME NEW l, ParseTokens(l.line) = l.tree, NEW st
    PROVE  MeaningOfLine(l, st) =
               MeaningOfTree(ParseTokens(ExpandAliases(l.line, st.aliases).line), st)
<1> DEFINE x == ExpandAliases(l.line, st.aliases).line
<1>1. Intended(l, x) = ParseTokens(x)
  <2> HIDE DEF x
  <2> QED
    BY DEF Intended
<1> QED
  BY <1>1 DEF MeaningOfLine

\* the frame on top is given another state, and its stream moves on
LEMMA Retopped ==
    ASSUME NEW stack, IsSeq(stack), stack # << >>, NEW streams, NEW others,
           NEW w, NEW u, Chain(stack, streams, w),
           \A k \in 1..(Len(stack) - 1) : stack[k].fun = "stream" =>
               others[stack[k].saved + 1] = streams[stack[k].saved + 1],
           \A v : Linked(stack[Len(stack)], streams, w, v) =>
               Linked(stack[Len(stack)], others, u, v)
    PROVE  Chain(stack, others, u)
<1> DEFINE s == SubSeq(stack, 1, Len(stack) - 1)
           f == stack[Len(stack)]
<1>1. PICK v : Linked(f, streams, w, v) /\ Chain(s, streams, v)
  BY Unchained
<1>2. Linked(f, others, u, v)
  BY <1>1
<1>3. IsSeq(s) /\ Len(s) = Len(stack) - 1 /\ \A k \in 1..Len(s) : s[k] = stack[k]
  BY FrontAny
<1>4. Append(s, f) = stack
  BY FrontAndLast
<1> HIDE DEF s, f
<1>5. \A k \in 1..Len(s) : s[k].fun = "stream" =>
          others[s[k].saved + 1] = streams[s[k].saved + 1]
  BY <1>3
<1>6. Chain(s, others, v)
  BY <1>1, <1>5, Rechained
<1>7. Chain(Append(s, f), others, u)
  BY <1>2, <1>3, <1>6, Chained
<1> QED
  BY <1>4, <1>7

\* the streams of a process that reads its next line
Onward(p) == [p.streams EXCEPT ![p.input] = Advanced(Stream(p))]

\* a stream is open when a process reads
LEMMA Reads ==
    ASSUME MInv, NEW i \in DOMAIN procs, procs[i].do.what = "read"
    PROVE  LET p == procs[i]
           IN  /\ Top(p).fun \in {"stream", "repl"}
               /\ p.input = Len(p.streams) /\ p.input \in DOMAIN p.streams
               /\ DOMAIN p.streams = 1..p.input /\ p.input \in Nat
               /\ Top(p).fun = "stream" => p.input = Top(p).saved + 1
               /\ Readable(Stream(p))
<1> DEFINE p == procs[i]
           n == Len(p.streams)
<1>1. /\ Sound(p, i, Len(procs)) /\ IsSeq(p.stack) /\ p.stack # << >> /\ IsSeq(p.streams)
      /\ Placed(p, i)
  BY OfMeant
<1>2. Top(p).fun \in {"stream", "repl"} /\ p.input = n /\ Callers(p.stack, n)
  BY <1>1 DEF Placed, Busy, Sound
<1>3. n \in Nat /\ DOMAIN p.streams = 1..n
  BY <1>1, Indices
<1>4. Top(p).fun = "stream" => n = Top(p).saved + 1 /\ Top(p).saved \in Nat
  <2> HIDE DEF p, n
  <2> QED
    BY <1>1, TopStream DEF n
<1>5. Top(p).fun = "repl" => n >= 1
  <2>1. Len(p.stack) \in DOMAIN p.stack
    BY <1>1, Indices
  <2> HIDE DEF p, n
  <2> QED
    BY <1>2, <2>1 DEF Callers, Spared, Top
<1> HIDE DEF n
<1>6. n >= 1
  BY <1>2, <1>3, <1>4, <1>5
<1>7. p.input \in DOMAIN p.streams
  BY <1>2, <1>3, <1>6
<1>8. Readable(Stream(p))
  BY <1>1, <1>7 DEF Placed, Stream
<1> QED
  BY <1>2, <1>3, <1>4, <1>7, <1>8 DEF n

LEMMA MovesOn ==
    ASSUME Lawful, MInv, NEW i \in DOMAIN procs, procs[i].do.what = "read",
           procs[i].running, ~AtEnd(procs[i])
    PROVE  LET p == procs[i]
               s == Stream(p)
               t == Onward(p)
           IN  /\ Callers(p.stack, Len(t)) /\ Len(t) = Len(p.streams)
               /\ \A k \in DOMAIN t : Readable(t[k])
               /\ Chain(p.stack, t, MeaningOfLine(s.lines[s.at], Now(p)))
<1> DEFINE p == procs[i]
           s == Stream(p)
           t == Onward(p)
           n == p.input
           f == Top(p)
           u == MeaningOfLine(s.lines[s.at], Now(p))
<1>1. /\ IsSeq(p.stack) /\ p.stack # << >> /\ IsSeq(p.streams) /\ Placed(p, i)
      /\ \E w : Due(p, procs, w) /\ Chain(p.stack, p.streams, w)
  BY OfMeant
<1>2. /\ f.fun \in {"stream", "repl"} /\ n = Len(p.streams) /\ n \in DOMAIN p.streams
      /\ DOMAIN p.streams = 1..n /\ n \in Nat
      /\ f.fun = "stream" => n = f.saved + 1
      /\ Readable(s)
  BY Reads
<1>3. /\ Rest(s) # << >> /\ Head(Rest(s)) = s.lines[s.at]
      /\ Tail(Rest(s)) = Rest(Advanced(s)) /\ Readable(Advanced(s))
  <2>1. ~(s.at > Len(s.lines))
    BY DEF AtEnd
  <2> HIDE DEF s
  <2> QED
    BY <1>2, <2>1, NextLine
<1>4. /\ DOMAIN t = DOMAIN p.streams /\ Len(t) = n
      /\ \A k \in DOMAIN t : t[k] = IF k = n THEN Advanced(s) ELSE p.streams[k]
  <2>1. Len(t) = Len(p.streams)
    BY <1>1, ReplacedAny DEF Onward
  <2>2. DOMAIN t = DOMAIN p.streams
    BY DEF Onward
  <2>3. \A k \in DOMAIN t : t[k] = IF k = n THEN Advanced(s) ELSE p.streams[k]
    BY DEF Onward
  <2> QED
    BY <1>2, <2>1, <2>2, <2>3
<1>15. Rest(s) \in Seq(Known) /\ Now(p).aliases \in Tables
  BY <1>1, <1>2, OwnTable, RestKnown DEF Placed
<1>5. Now(p).running
  <2>1. Now(p).running = p.running
    BY DEF Now, Being
  <2> QED
    BY <2>1
<1>6. s = p.streams[n] /\ p.do.what = "read" /\ f = p.stack[Len(p.stack)]
  BY DEF Stream, Top
<1> HIDE DEF t, u, s, f, n
<1>7. PICK w : Due(p, procs, w) /\ Chain(p.stack, p.streams, w)
  BY <1>1
<1>8. f.fun = "stream" => w = Now(p)
  BY <1>6, <1>7 DEF Due, f
<1>9. \A v : Linked(f, p.streams, w, v) => Linked(f, t, u, v)
  <2>1. CASE f.fun = "repl"
    BY <2>1 DEF Linked
  <2>2. CASE f.fun = "stream"
    <3>1. WantedOfLines(Rest(s), Now(p)) = WantedOfLines(Rest(Advanced(s)), u)
      <4>1. WantedOfLines(Rest(s), Now(p))
                = WantedOfLines(Tail(Rest(s)), MeaningOfLine(Head(Rest(s)), Now(p)))
        BY <1>3, <1>5, <1>15, OfLines
      <4> QED
        BY <1>3, <4>1 DEF u
    <3>2. p.streams[f.saved + 1] = s /\ t[f.saved + 1] = Advanced(s)
      BY <1>2, <1>4, <1>6, <2>2
    <3> QED
      BY <1>8, <2>2, <3>1, <3>2 DEF Linked
  <2> QED
    BY <1>2, <2>1, <2>2
<1>10. Callers(p.stack, n)
  BY <1>1, <1>2 DEF Placed
<1>11. Len(p.stack) \in Nat /\ Len(p.stack) >= 1 /\ DOMAIN p.stack = 1..Len(p.stack)
  BY <1>1, Indices
<1>12. \A k \in 1..(Len(p.stack) - 1) : p.stack[k].fun = "stream" =>
           t[p.stack[k].saved + 1] = p.streams[p.stack[k].saved + 1]
  <2> DEFINE m == Len(p.stack)
  <2> SUFFICES ASSUME NEW k \in 1..(m - 1), p.stack[k].fun = "stream"
               PROVE  t[p.stack[k].saved + 1] = p.streams[p.stack[k].saved + 1]
    OBVIOUS
  <2>1. k \in DOMAIN p.stack /\ m \in DOMAIN p.stack /\ f = p.stack[m]
    BY <1>6, <1>11
  <2> HIDE DEF m
  <2>2. f.fun = "stream"
    <3>1. f.fun = "repl" => m = 2
      BY <1>10, <2>1 DEF Callers
    <3>2. f.fun = "repl" => k = 1 /\ p.stack[1].fun = "main"
      BY <1>10, <2>1, <3>1 DEF Callers, Spared
    <3>3. "main" # "stream"
      OBVIOUS
    <3> QED
      BY <1>2, <3>2, <3>3
  <2>3. p.stack[k].saved \in Nat /\ p.stack[k].saved < f.saved
    BY <1>10, <2>1, <2>2 DEF Callers
  <2>4. f.saved \in Nat /\ n = f.saved + 1
    BY <1>2, <1>10, <2>1, <2>2 DEF Callers
  <2>5. p.stack[k].saved + 1 \in 1..n /\ p.stack[k].saved + 1 # n
    BY <2>3, <2>4
  <2> QED
    BY <1>2, <1>4, <2>5
<1>13. Chain(p.stack, t, u)
  <2> HIDE DEF p
  <2> QED
    BY <1>1, <1>6, <1>7, <1>9, <1>12, Retopped
<1>14. \A k \in DOMAIN t : Readable(t[k])
  BY <1>1, <1>3, <1>4 DEF Placed
<1> QED
  BY <1>2, <1>4, <1>10, <1>13, <1>14 DEF s, t, u

LEMMA ReadLineMeant ==
    ASSUME Lawful, MInv, IInv', NEW i \in DOMAIN procs, ReadLine(i)
    PROVE  MInv'
<1> DEFINE p == procs[i]
           s == Stream(p)
           l == s.lines[s.at]
           x == ExpandAliases(l.line, p.aliases)
           d == [what |-> "scan", scan |-> x]
           f == [fun |-> "line", want |-> MeaningOfLine(l, [State(p) EXCEPT !.ran = p.ran])]
           g == [fun |-> "line", want |-> MeaningOfLine(l, Now(p))]
           t == Onward(p)
           q == [Push(p, f) EXCEPT !.streams[p.input].at = @ + 1, !.do = d]
           u == MeaningOfLine(l, Now(p))
<1>1. /\ p.do.what = "read" /\ p.running /\ ~AtEnd(p)
      /\ procs' = [procs EXCEPT ![i] = q]
  BY DEF ReadLine, Running, Become
<1>2. /\ IsSeq(p.stack) /\ p.stack # << >> /\ IsSeq(p.streams) /\ DOMAIN p = Fields
      /\ p.aliases \in Tables
  BY OfMeant DEF Sound, Placed
<1>3. /\ Top(p).fun \in {"stream", "repl"} /\ p.input \in DOMAIN p.streams /\ Readable(s)
  BY <1>1, Reads
<1>4. /\ Callers(p.stack, Len(t)) /\ \A k \in DOMAIN t : Readable(t[k])
      /\ Chain(p.stack, t, u)
  BY <1>1, MovesOn
<1>5. ParseTokens(l.line) = l.tree /\ l \in Known
  <2>1. ~(s.at > Len(s.lines))
    BY <1>1 DEF AtEnd
  <2> HIDE DEF s
  <2> QED
    BY <1>3, <2>1, NextLine
<1>6. u = MeaningOfTree(ParseTokens(x.line), Now(p))
  <2>1. Now(p).aliases = p.aliases
    BY BeingIs DEF Now
  <2> HIDE DEF l, p
  <2> QED
    BY <1>5, <2>1, LineMeans
<1>14. ParseTokens(x.line) \in Parses \cup {NoTree}
  <2> HIDE DEF l, p
  <2> QED
    BY <1>2, <1>5 DEF Lawful, Grammar
<1>7. f = g
  BY Stating
<1>8. /\ q.stack = Append(p.stack, g) /\ q.streams = t /\ q.do = d
      /\ q.running = p.running /\ q.status = p.status /\ q.aliases = p.aliases
      /\ q.ran = p.ran
  <2> DEFINE r == Push(p, f)
  <2>1. /\ DOMAIN r = Fields /\ r.streams = p.streams /\ r.stack = Append(p.stack, f)
        /\ r.running = p.running /\ r.status = p.status /\ r.aliases = p.aliases
        /\ r.ran = p.ran
    BY <1>2 DEF Push, Fields
  <2> DEFINE e == [Stream(p) EXCEPT !.at = @ + 1]
  <2> HIDE DEF f, d
  <2>2. q = [[r EXCEPT !.streams = [p.streams EXCEPT ![p.input] = e]] EXCEPT !.do = d]
    <3>1. DOMAIN r = Fields /\ r.streams = p.streams
      BY <2>1
    <3> QED
      BY <3>1 DEF Stream
  <2>3. [p.streams EXCEPT ![p.input] = e] = t
    BY DEF Onward, Advanced
  <2> HIDE DEF r
  <2>4. q = [[r EXCEPT !.streams = t] EXCEPT !.do = d]
    BY <2>2, <2>3
  <2> HIDE DEF q, t
  <2> QED
    BY <1>7, <2>1, <2>4 DEF Fields
<1>9. /\ g.fun = "line" /\ g.want = u /\ d.what = "scan" /\ d.scan.line = x.line
  OBVIOUS
<1> DEFINE a == Append(p.stack, g)
<1>10. Callers(a, Len(t)) /\ Chain(a, t, u) /\ a[1] = p.stack[1]
  <2>1. Len(t) \in Nat
    <3>1. IsSeq(t)
      BY <1>2, ReplacedAny DEF Onward
    <3> QED
      BY <3>1, Indices
  <2>2. p.stack[Len(p.stack)].fun \in {"stream", "repl"}
    BY <1>3 DEF Top
  <2>6. g.fun \notin {"main", "child"} /\ g.fun # "repl" /\ g.fun # "stream" /\ Keeps(g)
    BY <1>9, KeepsNone
  <2> HIDE DEF t, g, u
  <2>3. Linked(g, t, u, u)
    BY <1>9 DEF Linked
  <2>4. Chain(a, t, u)
    BY <1>2, <1>4, <2>3, Chained
  <2> DEFINE m == Len(t)
  <2>5. m \in Nat /\ m <= m /\ Callers(p.stack, m)
    BY <1>4, <2>1
  <2> HIDE DEF m
  <2>7. Callers(a, m)
    BY <1>2, <2>2, <2>5, <2>6, CallersPushed
  <2>8. 1 \in 1..Len(p.stack)
    BY <1>2, Indices
  <2>9. a[1] = p.stack[1]
    BY <1>2, <2>8, AppendAny
  <2> QED
    BY <2>4, <2>7, <2>9 DEF m
<1> HIDE DEF q, d, g, t, u, a
<1>11. Busy(q, i)
  BY <1>1, <1>8, <1>9, <1>14 DEF Busy
<1>12. Due(q, procs, u)
  <2>1. Now(q) = Now(p)
    BY <1>8, SameNow
  <2> QED
    BY <1>6, <1>8, <1>9, <2>1 DEF Due
<1>13. Meant(q, i, procs) /\ q.stack[1] = p.stack[1]
  BY <1>2, <1>4, <1>8, <1>10, <1>11, <1>12 DEF Meant, Placed, a
<1> QED
  BY <1>1, <1>13, Proceeds

-------------------------------------------------------------------------------
(* main and repl_loop, which promise their callers no state.               *)

LEMMA RcDoneMeant ==
    ASSUME Lawful, MInv, IInv', NEW i \in DOMAIN procs, RcDone(i)
    PROVE  MInv'
<1> DEFINE p == procs[i]
           d == [what |-> "prompt"]
           q == [p EXCEPT !.do = d]
<1>1. Top(p).fun = "repl" /\ procs' = [procs EXCEPT ![i] = q] /\ DOMAIN p = Fields
  BY OfMeant DEF RcDone, Become, Sound
<1>2. d.what = "prompt"
  OBVIOUS
<1> HIDE DEF d
<1>3. q.do = d /\ q.stack = p.stack /\ q.streams = p.streams /\ q.aliases = p.aliases
  BY <1>1, DoesIs
<1>4. Top(q) = Top(p)
  BY <1>3 DEF Top
<1> HIDE DEF q
<1>5. Busy(q, i)
  BY <1>1, <1>2, <1>3, <1>4 DEF Busy
<1>6. \A w : Due(q, procs, w)
  BY <1>2, <1>3 DEF Due
<1> QED
  BY <1>1, <1>3, <1>5, <1>6, GoesOn

LEMMA SignalsReadMeant ==
    ASSUME Lawful, MInv, IInv', NEW i \in DOMAIN procs, SignalsRead(i)
    PROVE  MInv'
<1> DEFINE p == procs[i]
           d == [what |-> "signals", sig |-> pending]
           q == [p EXCEPT !.do = d]
<1>1. /\ p.do.what = "prompt" /\ procs' = [procs EXCEPT ![i] = q]
      /\ DOMAIN p = Fields /\ Placed(p, i)
  BY OfMeant DEF SignalsRead, Running, Become, Sound
<1>2. d.what = "signals"
  OBVIOUS
<1> HIDE DEF d
<1>3. q.do = d /\ q.stack = p.stack /\ q.streams = p.streams /\ q.aliases = p.aliases
  BY <1>1, DoesIs
<1>4. Top(q).fun = "repl"
  BY <1>1, <1>3 DEF Top, Placed, Busy
<1> HIDE DEF q
<1>5. Busy(q, i)
  BY <1>2, <1>3, <1>4 DEF Busy
<1>6. \A w : Due(q, procs, w)
  BY <1>2, <1>3 DEF Due
<1> QED
  BY <1>1, <1>3, <1>5, <1>6, GoesOn

LEMMA SignalsClearMeant ==
    ASSUME Lawful, MInv, IInv', NEW i \in DOMAIN procs, SignalsClear(i)
    PROVE  MInv'
<1> DEFINE p == procs[i]
           code == IF p.do.sig THEN 130 ELSE p.status
           q == [p EXCEPT !.status = code, !.do = Reading]
<1>1. /\ p.do.what = "signals" /\ procs' = [procs EXCEPT ![i] = q]
      /\ DOMAIN p = Fields /\ Placed(p, i)
  BY OfMeant DEF SignalsClear, Running, Sound
<1> HIDE DEF code
<1>2. q.do = Reading /\ q.stack = p.stack /\ q.streams = p.streams /\ q.aliases = p.aliases
  BY <1>1 DEF Fields
<1>3. Top(q).fun = "repl"
  BY <1>1, <1>2 DEF Top, Placed, Busy
<1> HIDE DEF q
<1>4. Busy(q, i)
  BY <1>2, <1>3, BusyIs
<1>5. \A w : Due(q, procs, w)
  BY <1>2, <1>3 DEF Due, Reading
<1> QED
  BY <1>1, <1>2, <1>4, <1>5, GoesOn

LEMMA MainReturnsMeant ==
    ASSUME Lawful, MInv, IInv', NEW i \in DOMAIN procs, MainReturns(i)
    PROVE  MInv'
<1> DEFINE p == procs[i]
           d == [what |-> "over", code |-> p.status % 256]
           q == [p EXCEPT !.do = d]
<1>1. /\ Top(p).fun = "main" /\ procs' = [procs EXCEPT ![i] = q] /\ DOMAIN p = Fields
  BY OfMeant DEF MainReturns, Become, Sound
<1>2. i = Root
  BY <1>1, OnlyChild
<1>3. d.what = "over"
  OBVIOUS
<1> HIDE DEF d
<1>4. q.do = d /\ q.stack = p.stack /\ q.streams = p.streams /\ q.aliases = p.aliases
  BY <1>1, DoesIs
<1> HIDE DEF q
<1>5. Busy(q, i)
  BY <1>2, <1>3, <1>4 DEF Busy
<1>6. \A w : Due(q, procs, w)
  BY <1>3, <1>4 DEF Due
<1> QED
  BY <1>1, <1>4, <1>5, <1>6, GoesOn

\* main has called nothing: whatever is due, it promises no one anything
LEMMA MainAlone ==
    ASSUME NEW stack, IsSeq(stack), Len(stack) = 1, stack[1].fun = "main", NEW n
    PROVE  Callers(stack, n) /\ \A streams, w : Chain(stack, streams, w)
<1>1. DOMAIN stack = 1..1
  BY Indices
<1>2. Callers(stack, n)
  <2>1. Keeps(stack[1])
    BY KeepsNone
  <2>2. \A k \in DOMAIN stack : k = 1
    BY <1>1
  <2> QED
    BY <2>1, <2>2 DEF Callers
<1>3. ASSUME NEW streams, NEW w PROVE Chain(stack, streams, w)
  <2> DEFINE f == stack[1]
  <2>1. stack = <<f>>
    <3>1. stack = [k \in DOMAIN stack |-> stack[k]]
      BY DEF IsSeq
    <3>2. \A k \in 1..1 : stack[k] = f
      OBVIOUS
    <3>3. IsSeq(<<f>>) /\ Len(<<f>>) = 1 /\ <<f>>[1] = f
      BY OneAny
    <3>4. <<f>> = [k \in DOMAIN <<f>> |-> <<f>>[k]] /\ DOMAIN <<f>> = 1..1
      BY <3>3, Indices
    <3> QED
      BY <1>1, <3>1, <3>2, <3>3, <3>4
  <2>2. f.fun = "main"
    OBVIOUS
  <2> HIDE DEF f
  <2>3. Linked(f, streams, w, w)
    BY <2>2 DEF Linked
  <2> QED
    BY <2>1, <2>3, ChainOfOne
<1> QED
  BY <1>2, <1>3

LEMMA ReplEndsMeant ==
    ASSUME Lawful, MInv, IInv', NEW i \in DOMAIN procs, ReplEnds(i)
    PROVE  MInv'
<1> DEFINE p == procs[i]
           d == Return(p.status)
           q == [Pop(p) EXCEPT !.do = d]
           s == SubSeq(p.stack, 1, Len(p.stack) - 1)
<1>1. Top(p).fun = "repl" /\ procs' = [procs EXCEPT ![i] = q]
  BY DEF ReplEnds, Become
<1>2. /\ DOMAIN p = Fields /\ IsSeq(p.stack) /\ p.stack # << >> /\ Placed(p, i)
  BY OfMeant DEF Sound
<1> HIDE DEF d
<1>3. /\ q.do = d /\ q.stack = s /\ q.streams = p.streams /\ q.status = p.status
      /\ q.aliases = p.aliases
  BY <1>2, PopIs
<1>4. Len(p.stack) = 2 /\ p.stack[1].fun = "main"
  <2> DEFINE m == Len(p.stack)
  <2>1. m \in DOMAIN p.stack /\ p.stack[m].fun = "repl"
    BY <1>1, <1>2, Indices DEF Top
  <2> HIDE DEF m
  <2>2. m = 2 /\ Spared(p.stack, Len(p.streams))
    BY <1>2, <2>1 DEF Placed, Callers
  <2> QED
    BY <2>2 DEF m, Spared
<1>5. IsSeq(s) /\ Len(s) = 1 /\ s[1] = p.stack[1]
  <2>1. IsSeq(s) /\ Len(s) = Len(p.stack) - 1 /\ \A k \in 1..Len(s) : s[k] = p.stack[k]
    BY <1>2, FrontAny
  <2> HIDE DEF s
  <2> QED
    BY <1>4, <2>1
<1> HIDE DEF q, s
<1>6. Callers(s, Len(p.streams)) /\ \A streams, w : Chain(s, streams, w)
  BY <1>4, <1>5, MainAlone
<1>7. Busy(q, i) /\ Due(q, procs, After(q, p.status))
  BY <1>3, BusyIs, DueIs DEF d
<1>8. Meant(q, i, procs)
  BY <1>2, <1>3, <1>6, <1>7 DEF Meant, Placed
<1> QED
  BY <1>1, <1>3, <1>5, <1>8, Proceeds

LEMMA Untouched ==
    ASSUME MInv, NEW i \in DOMAIN procs, procs[i].do.what = "start"
    PROVE  LET p == procs[i]
           IN  /\ DOMAIN p = Fields /\ IsSeq(p.stack) /\ p.stack # << >> /\ Len(p.stack) = 1
               /\ p.stack[1].fun = "main" /\ IsSeq(p.streams) /\ Len(p.streams) = 1
               /\ DOMAIN p.streams = 1..1 /\ p.input = Len(p.streams) /\ p.aliases \in Tables
               /\ \A k \in DOMAIN p.streams : Readable(p.streams[k])
               /\ \A n : Callers(p.stack, n)
               /\ \A streams, w : Chain(p.stack, streams, w)
<1> DEFINE p == procs[i]
           m == [fun |-> "main"]
<1>1. /\ Sound(p, i, Len(procs)) /\ IsSeq(p.stack) /\ p.stack # << >> /\ IsSeq(p.streams)
      /\ Placed(p, i) /\ p.stack = <<m>> /\ Len(p.streams) = 1
  BY OfMeant DEF Fresh
<1>2. m.fun = "main"
  OBVIOUS
<1> HIDE DEF m
<1>3. Len(p.stack) = 1 /\ p.stack[1].fun = "main"
  BY <1>1, <1>2, OneAny
<1>4. DOMAIN p.streams = 1..1
  BY <1>1, Indices
<1>5. \A n : Callers(p.stack, n)
  BY <1>1, <1>3, MainAlone
<1>6. \A streams, w : Chain(p.stack, streams, w)
  BY <1>1, <1>3, MainAlone
<1>7. DOMAIN p = Fields /\ p.input = Len(p.streams)
  BY <1>1 DEF Sound
<1>8. p.aliases \in Tables /\ \A k \in DOMAIN p.streams : Readable(p.streams[k])
  BY <1>1 DEF Placed
<1> QED
  BY <1>1, <1>3, <1>4, <1>5, <1>6, <1>7, <1>8

LEMMA SecondAny ==
    ASSUME NEW s, IsSeq(s), Len(s) = 1, NEW e
    PROVE  /\ IsSeq(Append(s, e)) /\ Append(s, e) # << >> /\ Len(Append(s, e)) = 2
           /\ Append(s, e)[2] = e /\ Append(s, e)[1] = s[1]
<1> DEFINE a == Append(s, e)
<1>1. /\ IsSeq(a) /\ Len(a) = Len(s) + 1
      /\ \A k \in 1..Len(s) : a[k] = s[k]
      /\ a[Len(s) + 1] = e /\ a # << >>
  BY AppendAny, Zenon
<1> HIDE DEF a
<1>2. Len(s) + 1 = 2 /\ 1 \in 1..Len(s)
  OBVIOUS
<1>3. IsSeq(a) /\ a # << >> /\ Len(a) = 2 /\ a[2] = e /\ a[1] = s[1]
  BY <1>1, <1>2
<1> QED
  BY <1>3 DEF a

LEMMA StartMissing ==
    ASSUME MInv, IInv', NEW i \in DOMAIN procs, procs[i].do.what = "start",
           Become(i, [procs[i] EXCEPT !.status = 127, !.do = Return(127)])
    PROVE  MInv'
<1> DEFINE p == procs[i]
           d == Return(127)
           n == 127
           q == [p EXCEPT !.status = n, !.do = d]
<1>1. procs' = [procs EXCEPT ![i] = q]
  BY DEF Become
<1>2. /\ DOMAIN p = Fields /\ p.aliases \in Tables /\ \A k \in DOMAIN p.streams : Readable(p.streams[k])
      /\ Callers(p.stack, Len(p.streams)) /\ \A w : Chain(p.stack, p.streams, w)
  BY Untouched
<1>3. d = Return(n)
  OBVIOUS
<1> HIDE DEF d, n
<1>4. q.stack = p.stack /\ q.streams = p.streams /\ q.do = d /\ q.status = n
      /\ q.aliases = p.aliases
  BY <1>2 DEF Fields
<1> HIDE DEF q
<1>5. Busy(q, i) /\ Due(q, procs, After(q, n))
  BY <1>3, <1>4, BusyIs, DueIs
<1>6. Meant(q, i, procs)
  BY <1>2, <1>4, <1>5 DEF Meant, Placed
<1> QED
  BY <1>1, <1>4, <1>6, Proceeds

\* a script reads the stream main opened
LEMMA StartScript ==
    ASSUME MInv, IInv', NEW i \in DOMAIN procs, procs[i].do.what = "start",
           Become(i, [Push(procs[i], [fun |-> "stream", saved |-> 0]) EXCEPT !.do = Reading])
    PROVE  MInv'
<1> DEFINE p == procs[i]
           f == [fun |-> "stream", saved |-> 0]
           d == Reading
           q == [Push(p, f) EXCEPT !.do = d]
           a == Append(p.stack, f)
           v == Now(p)
           w == WantedOfLines(Rest(p.streams[1]), v)
<1>1. procs' = [procs EXCEPT ![i] = q]
  BY DEF Become
<1>2. /\ DOMAIN p = Fields /\ IsSeq(p.stack) /\ p.stack # << >> /\ Len(p.stack) = 1
      /\ p.aliases \in Tables
      /\ \A k \in DOMAIN p.streams : Readable(p.streams[k])
      /\ Callers(p.stack, 0) /\ Len(p.streams) = 1 /\ Chain(p.stack, p.streams, w)
  BY Untouched
<1>3. f.fun = "stream" /\ f.saved = 0
  OBVIOUS
<1> HIDE DEF f, d
<1>4. /\ q.do = d /\ q.stack = a /\ q.streams = p.streams /\ q.running = p.running
      /\ q.status = p.status /\ q.aliases = p.aliases /\ q.ran = p.ran
  BY <1>2, PushIs
<1> HIDE DEF q, w
<1>5. Linked(f, p.streams, v, w)
  BY <1>3 DEF Linked, w
<1>6. Chain(a, p.streams, v)
  BY <1>2, <1>5, Chained
<1>7. Callers(a, 1)
  <2>1. 0 \in Nat /\ 1 \in Nat /\ 0 <= 1 /\ 0 < 1
    OBVIOUS
  <2>2. f.fun \notin {"main", "child"} /\ f.fun # "repl" /\ f.fun # "line" /\ Keeps(f)
    BY <1>3, KeepsNone
  <2> QED
    BY <1>2, <1>3, <2>1, <2>2, CallersPushed
<1>8. Len(a) = 2 /\ a[2] = f /\ a[1] = p.stack[1]
  BY <1>2, SecondAny
<1> HIDE DEF a, v
<1>9. Top(q).fun = "stream"
  BY <1>3, <1>4, <1>8 DEF Top
<1>10. Busy(q, i)
  BY <1>4, <1>9, BusyIs DEF d
<1>11. Due(q, procs, v)
  <2>1. Now(q) = v
    BY <1>4, SameNow DEF v
  <2> QED
    BY <1>4, <2>1 DEF Due, d, Reading
<1>12. Meant(q, i, procs)
  BY <1>2, <1>4, <1>6, <1>7, <1>10, <1>11 DEF Meant, Placed
<1> QED
  BY <1>1, <1>4, <1>8, <1>12, Proceeds

\* repl_loop, called by main
LEMMA ReplCalled ==
    ASSUME NEW stack, IsSeq(stack), Len(stack) = 1, stack # << >>, stack[1].fun = "main",
           NEW f, f.fun = "repl"
    PROVE  LET a == Append(stack, f)
           IN  /\ IsSeq(a) /\ a # << >> /\ Len(a) = 2 /\ a[2] = f /\ a[1] = stack[1]
               /\ Callers(a, 1) /\ \A streams, w : Chain(a, streams, w)
<1> DEFINE a == Append(stack, f)
<1>1. IsSeq(a) /\ a # << >> /\ Len(a) = 2 /\ a[2] = f /\ a[1] = stack[1]
  BY SecondAny
<1>2. Callers(stack, 1) /\ \A streams, w : Chain(stack, streams, w)
  BY MainAlone
<1>3. \A streams, w : Linked(f, streams, w, w)
  BY DEF Linked
<1>4. \A streams, w : Chain(a, streams, w)
  BY <1>2, <1>3, Chained
<1>5. Callers(a, 1)
  <2>1. 1 \in Nat /\ 1 <= 1 /\ 1 >= 1
    OBVIOUS
  <2>2. f.fun \notin {"main", "child"} /\ f.fun # "stream" /\ f.fun # "line" /\ Keeps(f)
    BY KeepsNone
  <2> QED
    BY <1>2, <2>1, <2>2, CallersPushed
<1> QED
  BY <1>1, <1>4, <1>5

LEMMA StartRepl ==
    ASSUME MInv, IInv', NEW i \in DOMAIN procs, procs[i].do.what = "start",
           NEW f, f.fun = "repl",
           Become(i, [Push(procs[i], f) EXCEPT !.do = [what |-> "prompt"]])
    PROVE  MInv'
<1> DEFINE p == procs[i]
           d == [what |-> "prompt"]
           q == [Push(p, f) EXCEPT !.do = d]
           a == Append(p.stack, f)
<1>1. procs' = [procs EXCEPT ![i] = q] /\ d.what = "prompt"
  BY DEF Become
<1>2. /\ DOMAIN p = Fields /\ IsSeq(p.stack) /\ p.stack # << >> /\ Len(p.stack) = 1
      /\ p.aliases \in Tables
      /\ p.stack[1].fun = "main" /\ Len(p.streams) = 1
      /\ \A k \in DOMAIN p.streams : Readable(p.streams[k])
  BY Untouched
<1> HIDE DEF d
<1>3. q.do = d /\ q.stack = a /\ q.streams = p.streams /\ q.aliases = p.aliases
  BY <1>2, PushIs
<1>4. /\ Len(a) = 2 /\ a[2] = f /\ a[1] = p.stack[1] /\ Callers(a, 1)
      /\ \A streams, w : Chain(a, streams, w)
  BY <1>2, ReplCalled
<1> HIDE DEF q, a
<1>5. Top(q).fun = "repl"
  BY <1>3, <1>4 DEF Top
<1>6. Busy(q, i)
  BY <1>1, <1>3, <1>5 DEF Busy
<1>7. \A w : Due(q, procs, w)
  BY <1>1, <1>3 DEF Due
<1>8. Meant(q, i, procs)
  BY <1>2, <1>3, <1>4, <1>6, <1>7 DEF Meant, Placed
<1> QED
  BY <1>1, <1>3, <1>4, <1>8, Proceeds

LEMMA StartInteractive ==
    ASSUME MInv, IInv', NEW i \in DOMAIN procs, procs[i].do.what = "start",
           NEW f, f.fun = "repl", NEW lines, Legible(lines),
           Become(i, RunStream(Push(procs[i], f), lines))
    PROVE  MInv'
<1> DEFINE p == procs[i]
           r == Push(p, f)
           q == RunStream(r, lines)
           a == Append(p.stack, f)
<1>1. procs' = [procs EXCEPT ![i] = q]
  BY DEF Become
<1>2. /\ DOMAIN p = Fields /\ IsSeq(p.stack) /\ p.stack # << >> /\ Len(p.stack) = 1
      /\ p.aliases \in Tables
      /\ p.stack[1].fun = "main" /\ Len(p.streams) = 1 /\ IsSeq(p.streams)
      /\ p.input = Len(p.streams)
      /\ \A k \in DOMAIN p.streams : Readable(p.streams[k])
  BY Untouched
<1>3. /\ DOMAIN r = Fields /\ r.stack = a /\ r.streams = p.streams /\ r.input = p.input
      /\ r.aliases = p.aliases
  BY <1>2 DEF Push, Fields
<1>4. /\ IsSeq(a) /\ a # << >> /\ a[1] = p.stack[1] /\ Callers(a, 1)
      /\ \A streams, w : Chain(a, streams, w)
  BY <1>2, ReplCalled
<1> HIDE DEF q, a, r
<1>5. Chain(r.stack, r.streams, WantedOfLines(lines, Now(r)))
  BY <1>3, <1>4
<1>6. /\ DOMAIN r = Fields /\ IsSeq(r.stack) /\ r.stack # << >> /\ IsSeq(r.streams)
      /\ r.input = Len(r.streams) /\ r.aliases \in Tables /\ Callers(r.stack, Len(r.streams))
      /\ \A k \in DOMAIN r.streams : Readable(r.streams[k])
  BY <1>2, <1>3, <1>4
<1>7. Meant(q, i, procs) /\ q.stack[1] = r.stack[1]
  BY <1>5, <1>6, RunsLines DEF q
<1> QED
  BY <1>1, <1>3, <1>4, <1>7, Proceeds

LEMMA StartMeant ==
    ASSUME Lawful, MInv, IInv', NEW i \in DOMAIN procs, Start(i)
    PROVE  MInv'
<1> DEFINE p == procs[i]
           f == [fun |-> "stream", saved |-> 0]
           g(b) == [fun |-> "repl", interactive |-> b]
           rc == IF "rc" \in DOMAIN Files THEN Files["rc"] ELSE << >>
<1>1. Sound(p, i, Len(procs)) /\ p.do.what = "start"
  BY OfMeant DEF Start, Running
<1>2. \/ Become(i, [p EXCEPT !.status = 127, !.do = Return(127)])
      \/ Become(i, [Push(p, f) EXCEPT !.do = Reading])
      \/ Become(i, [Push(p, g(FALSE)) EXCEPT !.do = [what |-> "prompt"]])
      \/ Become(i, RunStream(Push(p, g(TRUE)), rc))
  <2>1. p.do.mode \in {"missing", "script", "repl", "interactive"}
    BY <1>1 DEF Sound, Doing
  <2> QED
    BY <2>1 DEF Start
<1>3. CASE Become(i, [p EXCEPT !.status = 127, !.do = Return(127)])
  BY <1>1, <1>3, StartMissing
<1>4. CASE Become(i, [Push(p, f) EXCEPT !.do = Reading])
  BY <1>1, <1>4, StartScript
<1>5. CASE Become(i, [Push(p, g(FALSE)) EXCEPT !.do = [what |-> "prompt"]])
  <2> DEFINE h == g(FALSE)
  <2>1. h.fun = "repl"
    OBVIOUS
  <2>2. Become(i, [Push(p, h) EXCEPT !.do = [what |-> "prompt"]])
    BY <1>5
  <2> HIDE DEF h
  <2> QED
    BY <1>1, <2>1, <2>2, StartRepl
<1>6. CASE Become(i, RunStream(Push(p, g(TRUE)), rc))
  <2> DEFINE h == g(TRUE)
  <2>1. h.fun = "repl"
    OBVIOUS
  <2>2. Become(i, RunStream(Push(p, h), rc))
    BY <1>6
  <2>3. Legible(rc)
    <3>1. CASE "rc" \in DOMAIN Files
      BY <3>1, FilesLegible
    <3>2. CASE "rc" \notin DOMAIN Files
      <4>1. << >> \in Seq({}) /\ DOMAIN << >> = {}
        OBVIOUS
      <4>2. Legible(<< >>)
        BY <4>1, SeqIs DEF Legible, Familiar
      <4> QED
        BY <3>2, <4>2
    <3> QED
      BY <3>1, <3>2
  <2> HIDE DEF h, rc
  <2> QED
    BY <1>1, <2>1, <2>2, <2>3, StartInteractive
<1> QED
  BY <1>2, <1>3, <1>4, <1>5, <1>6

-------------------------------------------------------------------------------
(* The invariant, from the first step to the last.                         *)

LEMMA MStarting == ASSUME Init PROVE MInv
<1>1. PICK program \in Programs : procs = <<Process(program)>>
  BY DEF Init
<1> DEFINE p == Process(program)
<1>2. IInv
  BY Starting
<1>3. IsSeq(procs) /\ Len(procs) = 1 /\ procs[1] = p
  BY <1>1, OneAny
<1>4. DOMAIN procs = 1..1
  BY <1>3, Indices
<1>5. Legible(program.lines)
  <2>1. program.lines \in Seq(Range(program.lines))
    BY ShellAssumption
  <2>2. IsSeq(program.lines)
    BY <2>1, SeqIs
  <2>3. Familiar(program.lines)
    <3> DEFINE ls == program.lines
    <3>1. \A k \in DOMAIN ls : ls[k] \in Range(ls)
      BY DEF Range
    <3>2. Range(ls) \in {Range(o.lines) : o \in Programs}
      OBVIOUS
    <3> QED
      BY <3>1, <3>2 DEF Familiar, Known, LinesOf
  <2> QED
    BY <2>2, <2>3 DEF Legible
<1> DEFINE m == [fun |-> "main"]
           s == Open(program.lines)
<1>6. /\ p.stack = <<m>> /\ p.streams = <<s>> /\ p.do.what = "start"
      /\ p.aliases = NoAliases
  BY DEF Process
<1>7. m.fun = "main"
  OBVIOUS
<1>8. Readable(s)
  BY <1>5, OpenIs
<1> HIDE DEF p, m, s
<1>9. IsSeq(p.stack) /\ Len(p.stack) = 1 /\ p.stack[1].fun = "main"
  BY <1>6, <1>7, OneAny
<1>10. Callers(p.stack, Len(p.streams)) /\ \A w : Chain(p.stack, p.streams, w)
  BY <1>9, MainAlone
<1>11. \A k \in DOMAIN p.streams : Readable(p.streams[k])
  <2>1. IsSeq(p.streams) /\ Len(p.streams) = 1 /\ p.streams[1] = s
    BY <1>6, OneAny
  <2>2. DOMAIN p.streams = 1..1
    BY <2>1, Indices
  <2> QED
    BY <1>8, <2>1, <2>2
<1>12. \A i : Busy(p, i)
  BY <1>6 DEF Busy
<1>13. \A w : Due(p, procs, w)
  BY <1>6 DEF Due
<1>15. p.aliases \in Tables
  BY <1>6 DEF Tables, NoAliases
<1>14. \A i : Meant(p, i, procs)
  BY <1>15, <1>10, <1>11, <1>12, <1>13 DEF Meant, Placed
<1> QED
  BY <1>2, <1>3, <1>4, <1>14 DEF MInv

-------------------------------------------------------------------------------
(* Waits that a signal ends.                                               *)

\* frames that promise nothing of the state they are given
Promiseless(stack) ==
    \A k \in 1..Len(stack) :
        /\ stack[k].fun # "child"
        /\ stack[k].fun = "line" => stack[k].want = Anything

LEMMA LinkedToAny ==
    ASSUME NEW f, f.fun # "child", f.fun = "line" => f.want = Anything,
           NEW streams, NEW v
    PROVE  \E w : Linked(f, streams, v, w)
<1>1. CASE f.fun \in {"&&", "||", ";"}
  <2> DEFINE w == MeaningOfRight(f.fun, f.right, v)
  <2>1. w = MeaningOfRight(f.fun, f.right, v)
    OBVIOUS
  <2> HIDE DEF w
  <2>2. Linked(f, streams, v, w)
    BY <1>1, <2>1 DEF Linked
  <2> QED
    BY <2>2
<1>2. CASE f.fun = "stream"
  <2> DEFINE w == WantedOfLines(Rest(streams[f.saved + 1]), v)
  <2>1. w = WantedOfLines(Rest(streams[f.saved + 1]), v)
    OBVIOUS
  <2> HIDE DEF w
  <2>2. Linked(f, streams, v, w)
    BY <1>2, <2>1 DEF Linked
  <2> QED
    BY <2>2
<1>3. CASE f.fun \notin {"&&", "||", ";", "stream"}
  <2>1. Linked(f, streams, v, v)
    BY <1>3 DEF Linked
  <2> QED
    BY <2>1
<1> QED
  BY <1>1, <1>2, <1>3

LEMMA ChainToAny ==
    ASSUME NEW stack, IsSeq(stack), Promiseless(stack), NEW streams, NEW w
    PROVE  Chain(stack, streams, w)
<1> DEFINE S == {n \in Nat : \A s, v : IsSeq(s) /\ Len(s) = n /\ Promiseless(s) =>
                                      Chain(s, streams, v)}
<1>1. 0 \in S
  <2> SUFFICES ASSUME NEW s, NEW v, IsSeq(s), Len(s) = 0 PROVE Chain(s, streams, v)
    OBVIOUS
  <2>1. IsSeq(<<v>>) /\ Len(<<v>>) = 1 /\ <<v>>[1] = v
    BY OneAny
  <2> DEFINE vs == <<v>>
  <2> HIDE DEF vs
  <2>2. Links(vs, s, streams, v)
    BY <2>1 DEF Links, vs
  <2> QED
    BY <2>2 DEF Chain
<1>2. ASSUME NEW n \in Nat, n \in S PROVE n + 1 \in S
  <2> SUFFICES ASSUME NEW s, NEW v, IsSeq(s), Len(s) = n + 1, Promiseless(s)
               PROVE  Chain(s, streams, v)
    BY <1>2
  <2> DEFINE t == SubSeq(s, 1, Len(s) - 1)
             f == s[Len(s)]
  <2>1. s # << >>
    BY <1>2, EmptySeq
  <2>2. IsSeq(t) /\ Len(t) = Len(s) - 1 /\ \A k \in 1..Len(t) : t[k] = s[k]
    BY <2>1, FrontAny
  <2>3. Append(t, f) = s
    BY <2>1, FrontAndLast
  <2> HIDE DEF t
  <2>4. Len(t) = n /\ Promiseless(t)
    BY <1>2, <2>2 DEF Promiseless
  <2>5. n + 1 \in 1..Len(s)
    BY <1>2
  <2>6. f.fun # "child" /\ (f.fun = "line" => f.want = Anything)
    BY <2>5 DEF Promiseless
  <2> HIDE DEF f
  <2>7. PICK u : Linked(f, streams, v, u)
    BY <2>6, LinkedToAny
  <2>8. Chain(t, streams, u)
    BY <1>2, <2>2, <2>4
  <2>9. Chain(Append(t, f), streams, v)
    BY <2>2, <2>7, <2>8, Chained
  <2> QED
    BY <2>3, <2>9
<1> HIDE DEF S
<1>3. \A n \in Nat : n \in S
  BY <1>1, <1>2, AllNat
<1>4. Len(stack) \in S
  BY <1>3, Indices
<1> QED
  BY <1>4 DEF S

LEMMA CallersReleased ==
    ASSUME NEW stack, IsSeq(stack), stack # << >>, NEW n, Callers(stack, n)
    PROVE  Callers(Released(stack), n)
<1> DEFINE e == Released(stack)
<1>1. /\ IsSeq(e) /\ Len(e) = Len(stack) /\ DOMAIN e = DOMAIN stack
      /\ \A k \in DOMAIN stack :
             IF stack[k].fun = "line"
             THEN e[k] = [fun |-> "line", want |-> Anything] ELSE e[k] = stack[k]
  BY ReleasedStack
<1>2. Len(stack) \in Nat /\ Len(stack) >= 1 /\ DOMAIN stack = 1..Len(stack)
  BY Indices
<1> HIDE DEF e
<1>3. \A k \in DOMAIN e :
          /\ e[k].fun = stack[k].fun
          /\ e[k].fun # "line" => e[k] = stack[k]
  BY <1>1
<1>4. ASSUME NEW k \in DOMAIN e
      PROVE  /\ e[k].fun \in {"main", "child"} => k = 1
             /\ Keeps(e[k])
             /\ e[k].fun = "repl" => k = 2 /\ Spared(e, n)
             /\ e[k].fun = "line" => k > 1 /\ e[k - 1].fun \in {"stream", "repl"}
             /\ e[k].fun = "stream" =>
                    /\ e[k].saved \in Nat /\ e[k].saved < n
                    /\ \A j \in 1..(k - 1) :
                           e[j].fun = "stream" => e[j].saved < e[k].saved
  <2>1. e[k].fun = stack[k].fun /\ k \in DOMAIN stack
    BY <1>1, <1>3
  <2>2. e[k].fun \in {"main", "child"} => k = 1
    BY <2>1 DEF Callers
  <2>3. Keeps(e[k])
    <3>1. CASE e[k].fun = "line"
      BY <3>1, KeepsNone
    <3>2. CASE e[k].fun # "line"
      BY <1>3, <2>1, <3>2 DEF Callers
    <3> QED
      BY <3>1, <3>2
  <2>4. e[k].fun = "repl" => k = 2 /\ Spared(e, n)
    <3>1. e[k].fun = "repl" => k = 2 /\ Spared(stack, n)
      BY <2>1 DEF Callers
    <3>2. Spared(stack, n) => Spared(e, n)
      <4>1. 1 \in DOMAIN e /\ e[1].fun = stack[1].fun
        BY <1>1, <1>2, <1>3
      <4> QED
        BY <1>1, <1>3, <4>1 DEF Spared
    <3> QED
      BY <3>1, <3>2
  <2>5. e[k].fun = "line" => k > 1 /\ e[k - 1].fun \in {"stream", "repl"}
    <3>1. e[k].fun = "line" => k > 1 /\ stack[k - 1].fun \in {"stream", "repl"}
      BY <2>1 DEF Callers
    <3>2. k > 1 => k - 1 \in DOMAIN e
      BY <1>1, <1>2, <2>1
    <3>3. \A j \in DOMAIN e : e[j].fun = stack[j].fun
      BY <1>3
    <3> QED
      BY <3>1, <3>2, <3>3
  <2>6. e[k].fun = "stream" =>
            /\ e[k].saved \in Nat /\ e[k].saved < n
            /\ \A j \in 1..(k - 1) : e[j].fun = "stream" => e[j].saved < e[k].saved
    <3>1. \A j \in 1..(k - 1) : j \in DOMAIN e
      BY <1>1, <1>2, <2>1
    <3>4. \A j \in DOMAIN e : e[j].fun = "stream" => e[j] = stack[j]
      BY <1>3, Zenon
    <3>2. e[k].fun = "stream" => e[k] = stack[k]
      BY <1>1, <2>1, <3>4
    <3>3. \A j \in 1..(k - 1) : e[j].fun = "stream" => e[j] = stack[j]
      BY <3>1, <3>4
    <3> QED
      BY <2>1, <3>2, <3>3 DEF Callers
  <2> QED
    BY <2>2, <2>3, <2>4, <2>5, <2>6
<1> QED
  BY <1>4 DEF Callers, e

\* the shell goes on with -1, and its lines are held to nothing
LEMMA GivesUpMeant ==
    ASSUME MInv, IInv', Root \in DOMAIN procs, NEW p, DOMAIN p = Fields,
           p.stack = procs[Root].stack, p.streams = procs[Root].streams,
           p.aliases = procs[Root].aliases, Top(procs[Root]).fun \in {"node", "child"},
           procs' = [procs EXCEPT ![Root] = GivesUp(p)]
    PROVE  MInv'
<1> DEFINE q == GivesUp(p)
           stack == procs[Root].stack
           e == Released(stack)
<1>1. /\ Placed(procs[Root], Root) /\ IsSeq(stack) /\ stack # << >>
      /\ stack[1].fun = "main"
  BY OfMeant DEF Sound, Stacked
<1>2. /\ q.do = Return(-1) /\ q.stack = e /\ q.streams = procs[Root].streams
      /\ q.aliases = procs[Root].aliases
  BY DEF GivesUp, Fields
<1>3. Callers(stack, Len(procs[Root].streams)) /\ Top(procs[Root]) = stack[Len(stack)]
  BY <1>1 DEF Placed, Top
<1>4. /\ IsSeq(e) /\ Len(e) = Len(stack) /\ DOMAIN e = DOMAIN stack
      /\ \A k \in DOMAIN stack :
             IF stack[k].fun = "line"
             THEN e[k] = [fun |-> "line", want |-> Anything] ELSE e[k] = stack[k]
  BY <1>1, ReleasedStack
<1>5. Callers(e, Len(procs[Root].streams))
  <2> DEFINE n == Len(procs[Root].streams)
  <2> HIDE DEF n, stack
  <2>1. Callers(stack, n)
    BY <1>3 DEF n
  <2>2. Callers(Released(stack), n)
    BY <1>1, <2>1, CallersReleased
  <2> QED
    BY <2>2 DEF n
<1>6. Len(stack) \in Nat /\ Len(stack) >= 1 /\ DOMAIN stack = 1..Len(stack)
  BY <1>1, Indices
<1>7. Top(procs[Root]).fun \in {"node", "child"}
  OBVIOUS
<1>8. procs' = [procs EXCEPT ![Root] = q]
  OBVIOUS
<1> HIDE DEF q, e, stack
<1>9. Promiseless(e)
  <2>1. ASSUME NEW k \in DOMAIN stack PROVE stack[k].fun # "child"
    BY <1>1, <1>3, <2>1 DEF Callers
  <2> QED
    BY <1>4, <1>6, <2>1 DEF Promiseless
<1>10. Chain(e, q.streams, After(q, -1))
  <2> DEFINE w == After(q, -1)
             streams == q.streams
  <2> HIDE DEF w, streams
  <2>1. Chain(e, streams, w)
    BY <1>4, <1>9, ChainToAny
  <2> QED
    BY <2>1 DEF w, streams
<1>11. Due(q, procs, After(q, -1))
  BY <1>2, DueIs
<1>12. Busy(q, Root)
  <2>1. Len(e) \in DOMAIN stack
    BY <1>4, <1>6
  <2>2. Top(q) = e[Len(e)]
    BY <1>2 DEF Top
  <2>3. Top(q).fun \in {"node", "child"}
    BY <1>3, <1>4, <1>7, <2>1, <2>2
  <2> QED
    BY <1>2, <2>3, BusyIs
<1>13. Placed(q, Root)
  BY <1>1, <1>2, <1>5, <1>12 DEF Placed
<1>14. Meant(q, Root, procs)
  BY <1>2, <1>10, <1>11, <1>13 DEF Meant
<1>15. q.stack[1] = procs[Root].stack[1]
  <2>1. 1 \in DOMAIN stack
    BY <1>6
  <2> QED
    BY <1>1, <1>2, <1>4, <2>1 DEF stack
<1> QED
  BY <1>8, <1>14, <1>15, Proceeds

LEMMA WaitInterruptedMeant == ASSUME MInv, IInv', WaitInterrupted PROVE MInv'
<1> DEFINE p == procs[Root]
<1>1. /\ Root \in DOMAIN procs /\ p.do.what = "wait"
      /\ procs' = [procs EXCEPT ![Root] = GivesUp(p)]
  BY DEF WaitInterrupted, Running
<1>2. DOMAIN p = Fields /\ Top(p).fun \in {"node", "child"}
  BY <1>1, OfMeant DEF Sound, Placed, Busy
<1> QED
  BY <1>1, <1>2, GivesUpMeant

LEMMA CommandInterruptedMeant == ASSUME MInv, IInv', CommandInterrupted PROVE MInv'
<1> DEFINE p == procs[Root]
           q == Launched(p)
<1>1. /\ Root \in DOMAIN procs /\ p.do.what = "command"
      /\ procs' = [procs EXCEPT ![Root] = GivesUp(q)]
  BY DEF CommandInterrupted, RunsExternal, Running
<1>2. DOMAIN p = Fields /\ Top(p).fun \in {"node", "child"}
  BY <1>1, OfMeant DEF Sound, Placed, Busy
<1>3. /\ DOMAIN q = Fields /\ q.stack = p.stack /\ q.streams = p.streams
      /\ q.aliases = p.aliases
  BY <1>2 DEF Launched, Fields
<1> HIDE DEF q
<1> QED
  BY <1>1, <1>2, <1>3, GivesUpMeant

LEMMA Unmoved == ASSUME MInv, IInv', procs' = procs PROVE MInv'
BY DEF MInv

LEMMA MKeeping ==
    ASSUME Lawful, MInv, [Next]_vars
    PROVE  MInv'
<1>1. IInv'
  BY Keeping DEF MInv
<1>2. CASE UNCHANGED vars
  BY <1>1, <1>2, Unmoved DEF vars
<1>3. CASE Terminated
  BY <1>1, <1>3, Unmoved DEF vars, Terminated
<1>4. CASE Interrupt
  BY <1>1, <1>4, Unmoved DEF Interrupt
<1>5. ASSUME NEW i \in DOMAIN procs, Lines(i) PROVE MInv'
  BY <1>1, <1>5, EndStreamMeant, ReadLineMeant, ParseLineMeant, LineDoneMeant DEF Lines
<1>6. ASSUME NEW i \in DOMAIN procs, Executor(i) PROVE MInv'
  <2>1. ASSUME \/ Skip(i) \/ ExecuteSimple(i) \/ ExecuteLeft(i) \/ ExecuteRight(i)
               \/ ExecuteBlock(i) \/ BlockDone(i) \/ NodeDone(i)
        PROVE  MInv'
    BY <1>1, <2>1, SkipMeant, ExecuteSimpleMeant, ExecuteLeftMeant, ExecuteRightMeant,
       ExecuteBlockMeant, BlockDoneMeant, NodeDoneMeant
  <2>2. ASSUME \/ ExecuteSubshell(i) \/ ExecutePipeline(i) \/ ExecuteBackground(i)
               \/ Collect(i) \/ ChildExits(i)
        PROVE  MInv'
    BY <1>1, <2>2, ExecuteSubshellMeant, ExecutePipelineMeant, ExecuteBackgroundMeant,
       CollectMeant, ChildExitsMeant
  <2> QED
    BY <1>6, <2>1, <2>2 DEF Executor
<1>7. ASSUME NEW i \in DOMAIN procs, Commands(i) PROVE MInv'
  BY <1>1, <1>7, FailsOrAssignsMeant, ExternalCommandMeant, BuiltinExitMeant,
     BuiltinSourceMeant, BuiltinAliasMeant, BuiltinUnaliasMeant DEF Commands
<1>8. ASSUME NEW i \in DOMAIN procs, Main(i) PROVE MInv'
  BY <1>1, <1>8, StartMeant, RcDoneMeant, SignalsReadMeant, SignalsClearMeant,
     ReplEndsMeant, MainReturnsMeant DEF Main
<1>9. CASE WaitInterrupted \/ CommandInterrupted
  BY <1>1, <1>9, WaitInterruptedMeant, CommandInterruptedMeant
<1> QED
  BY <1>2, <1>3, <1>4, <1>5, <1>6, <1>7, <1>8, <1>9 DEF Next

\* what is due of a process that returns is what its caller was promised
LEMMA Promised == ASSUME MInv PROVE RunsAsWritten
<1> SUFFICES ASSUME NEW i \in DOMAIN procs, procs[i].do.what = "return"
             PROVE  /\ Top(procs[i]).fun = "line" =>
                           Top(procs[i]).want \in
                               {Anything, [State(procs[i]) EXCEPT !.ran = procs[i].ran]}
                    /\ Top(procs[i]).fun = "child" =>
                           Top(procs[i]).want = [State(procs[i]) EXCEPT
                               !.ran = procs[i].ran, !.status = procs[i].do.code]
  BY DEF RunsAsWritten
<1> DEFINE p == procs[i]
           f == Top(p)
<1>1. PICK w : Due(p, procs, w) /\ Chain(p.stack, p.streams, w)
  BY OfMeant
<1>2. w = After(p, p.do.code)
  BY <1>1 DEF Due
<1>3. IsSeq(p.stack) /\ p.stack # << >> /\ Placed(p, i) /\ f = p.stack[Len(p.stack)]
  BY OfMeant DEF Top
<1>4. \E v : Linked(f, p.streams, w, v)
  BY <1>1, <1>3, Unchained
<1>5. (f.fun = "line" => f.want \in {Anything, w}) /\ (f.fun = "child" => f.want = w)
  BY <1>4 DEF Linked
<1>6. f.fun = "child" => f.want = [State(p) EXCEPT !.ran = p.ran, !.status = p.do.code]
  BY <1>2, <1>5, Stating
<1>7. f.fun = "line" => f.want \in {Anything, [State(p) EXCEPT !.ran = p.ran]}
  <2>1. f.fun = "line" => p.do.code = p.status
    BY <1>3 DEF Placed, Busy
  <2>2. After(p, p.status) = Now(p) /\ Now(p) = [State(p) EXCEPT !.ran = p.ran]
    BY Stating
  <2> QED
    BY <1>2, <1>5, <2>1, <2>2
<1> QED
  BY <1>6, <1>7

\* Whatever the programs and files, the aliases, the external commands and the
\* interleaving of the shell with its children, when process_line returns the
\* shell has run the commands the line calls for, each with the $? it should
\* see, and has the status, the aliases and the will to go on that the line
\* should leave (exec_logical.c, exec_subshell.c, exec_pipeline.c, script.c); a
\* child of a group, a pipeline or & ends with the status of its part.  It is
\* said of the lines none of whose waits a signal ended, and of a shell whose
\* parser finds the trees its lines were written from, with no pipeline longer
\* than the shell runs, in a language in which what it finds has a meaning.
THEOREM RunsAsWrittenCorrect ==
    (\E trees : Grammar(trees, Known) /\ Means(trees, Known)) => (Spec => []RunsAsWritten)
<1> SUFFICES ASSUME Lawful PROVE Spec => []RunsAsWritten
  BY DEF Lawful, Parses
<1>1. Init => MInv
  BY MStarting
<1>2. MInv /\ [Next]_vars => MInv'
  BY MKeeping
<1>3. MInv => RunsAsWritten
  BY Promised
<1> QED
  BY <1>1, <1>2, <1>3, PTL DEF Spec
===============================================================================
