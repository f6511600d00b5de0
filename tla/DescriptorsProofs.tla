--------------------------- MODULE DescriptorsProofs ---------------------------
(***************************************************************************)
(* Proofs about Descriptors, for every number of descriptors and stages,   *)
(* any redirection lists and any depth of nesting.                         *)
(*                                                                         *)
(* Base is the shell's table without the pipes it holds for a pipeline it  *)
(* is starting.  No step of a pipeline changes Base, so what the invariant *)
(* says of the running scopes it says of Base.                             *)
(***************************************************************************)
EXTENDS Descriptors, SequenceTheorems, WellFoundedInduction, TLAPS

Tables == [Fds -> Objects]

Base == ClosePipes(sh.tab)

\* An object that is neither end of a pipe.
NoEnd(o) == \A k \in Nat : o # ReadOf(k) /\ o # WriteOf(k)

-------------------------------------------------------------------------------
(* Objects and tables.                                                       *)

\* The open file descriptions, and which of them differ.
LEMMA ObjectFacts ==
    /\ Closed \in Objects /\ DevNull \in Objects /\ Body \in Objects
    /\ \A k \in Nat : /\ ReadOf(k) \in Objects /\ WriteOf(k) \in Objects
                      /\ File(k) \in Objects /\ Std(k) \in Objects
                      /\ ReadOf(k) # Closed /\ WriteOf(k) # Closed
                      /\ NoEnd(File(k)) /\ NoEnd(Std(k))
    /\ NoEnd(Closed) /\ NoEnd(DevNull) /\ NoEnd(Body)
    /\ \A k, m \in Nat : /\ ReadOf(k) # WriteOf(m)
                         /\ ReadOf(k) = ReadOf(m) => k = m
                         /\ WriteOf(k) = WriteOf(m) => k = m
BY DEF Objects, Closed, DevNull, Body, ReadOf, WriteOf, File, Std, NoEnd

\* 0 to 2 are descriptors, and -1 is none.
LEMMA FdFacts ==
    /\ Fds \subseteq Nat /\ 0 \in Fds /\ 1 \in Fds /\ 2 \in Fds /\ NoFd \notin Fds
    /\ 3..MaxFd \subseteq Fds /\ NoFd \in Nat /\ NoFd \notin 0..2
BY DescriptorsAssumption DEF Fds, NoFd

\* A nonempty set of numbers has a least one.
LEMMA LeastOf ==
    ASSUME NEW T \in SUBSET Nat, T # {}
    PROVE  \E x \in T : \A y \in T : x <= y
<1> DEFINE R == OpToRel(<, Nat)
<1>1. \E x \in T : \A y \in T : ~ (<<y, x>> \in R)
    BY NatLessThanWellFounded, WFMin
<1>2. R = {p \in Nat \X Nat : p[1] < p[2]}
    BY DEF OpToRel
<1> HIDE DEF R
<1>3. \A x, y \in Nat : y < x => <<y, x>> \in R
    BY <1>2
<1>4. PICK x \in T : \A y \in T : ~ (<<y, x>> \in R)
    BY <1>1
<1>5. ASSUME NEW y \in T PROVE x <= y
    <2>1. x \in Nat /\ y \in Nat
        OBVIOUS
    <2>2. ~ (y < x)
        BY <1>3, <1>4, <2>1
    <2> QED BY <2>1, <2>2
<1> QED BY <1>5

\* The lowest free descriptor is free, unless there is none.
LEMMA LowestFacts ==
    ASSUME NEW t \in Tables
    PROVE  /\ Lowest(t) \in Fds \cup {NoFd}
           /\ Lowest(t) # NoFd => Lowest(t) \in Fds /\ t[Lowest(t)] = Closed
<1>1. CASE \A fd \in Fds : t[fd] # Closed
    BY <1>1 DEF Lowest
<1>2. CASE ~ \A fd \in Fds : t[fd] # Closed
    <2> DEFINE T == {fd \in Fds : t[fd] = Closed}
    <2>1. T \in SUBSET Nat /\ T # {}
        BY <1>2, FdFacts
    <2>2. PICK x \in T : \A y \in T : x <= y
        BY <2>1, LeastOf
    <2>3. \A g \in 0..(x - 1) : g \in Fds /\ ~ (x <= g)
        BY <2>2, DescriptorsAssumption DEF Fds
    <2>4. \A g \in 0..(x - 1) : t[g] # Closed
        BY <2>2, <2>3
    <2>5. \E fd \in Fds : t[fd] = Closed /\ \A g \in 0..(fd - 1) : t[g] # Closed
        BY <2>2, <2>4
    <2>6. Lowest(t) = CHOOSE fd \in Fds : t[fd] = Closed /\ \A g \in 0..(fd - 1) : t[g] # Closed
        BY <1>2 DEF Lowest
    <2> QED BY <2>5, <2>6
<1> QED BY <1>1, <1>2

\* The calls keep a table a table, and change one descriptor of it.
LEMMA PutFacts ==
    ASSUME NEW t \in Tables, NEW fd \in Fds \cup {NoFd}, NEW o \in Objects
    PROVE  /\ Put(t, fd, o) \in Tables
           /\ \A g \in Fds : Put(t, fd, o)[g] = IF g = fd THEN o ELSE t[g]
BY FdFacts DEF Put, Tables

\* close frees its descriptor and leaves the rest.
LEMMA CloseFacts ==
    ASSUME NEW t \in Tables, NEW fd \in Fds \cup {NoFd}
    PROVE  /\ CloseFd(t, fd) \in Tables
           /\ \A g \in Fds : CloseFd(t, fd)[g] = IF g = fd THEN Closed ELSE t[g]
<1>1. Closed \in Objects
    BY ObjectFacts
<1> QED BY <1>1, PutFacts DEF CloseFd

\* dup2 of an open descriptor copies it, of a closed one does nothing.
LEMMA Dup2Facts ==
    ASSUME NEW t \in Tables, NEW from \in Fds \cup {NoFd}, NEW fd \in Fds
    PROVE  /\ Dup2(t, from, fd) \in Tables
           /\ \A g \in Fds : g # fd => Dup2(t, from, fd)[g] = t[g]
           /\ IsOpen(t, from) => Dup2(t, from, fd)[fd] = t[from]
           /\ ~IsOpen(t, from) => Dup2(t, from, fd) = t
<1>1. CASE IsOpen(t, from)
    <2>1. from \in Fds
        BY <1>1 DEF IsOpen
    <2> QED BY <1>1, <2>1 DEF Dup2, Tables
<1>2. CASE ~IsOpen(t, from)
    BY <1>2 DEF Dup2
<1> QED BY <1>1, <1>2

\* dup copies to a descriptor that was free and leaves the rest.
LEMMA DupFacts ==
    ASSUME NEW t \in Tables, NEW fd \in Fds
    PROVE  /\ Dup(t, fd) \in Tables /\ DupTo(t, fd) \in Fds \cup {NoFd}
           /\ \A g \in Fds : g # DupTo(t, fd) => Dup(t, fd)[g] = t[g]
           /\ DupTo(t, fd) # NoFd => /\ t[DupTo(t, fd)] = Closed /\ t[fd] # Closed
                                     /\ Dup(t, fd)[DupTo(t, fd)] = t[fd]
<1>1. t[fd] \in Objects
    BY DEF Tables
<1>2. CASE IsOpen(t, fd)
    <2>1. Dup(t, fd) = Put(t, Lowest(t), t[fd]) /\ DupTo(t, fd) = Lowest(t)
        BY <1>2 DEF Dup, DupTo
    <2>2. t[fd] # Closed
        BY <1>2 DEF IsOpen
    <2> DEFINE l == Lowest(t)
    <2>3. l \in Fds \cup {NoFd} /\ (l # NoFd => l \in Fds /\ t[l] = Closed)
        BY LowestFacts
    <2> HIDE DEF l
    <2>4. /\ Put(t, l, t[fd]) \in Tables
          /\ \A g \in Fds : Put(t, l, t[fd])[g] = IF g = l THEN t[fd] ELSE t[g]
        BY <1>1, <2>3, PutFacts
    <2>5. Dup(t, fd) = Put(t, l, t[fd]) /\ DupTo(t, fd) = l
        BY <2>1 DEF l
    <2> QED BY <2>2, <2>3, <2>4, <2>5
<1>3. CASE ~IsOpen(t, fd)
    BY <1>3 DEF Dup, DupTo
<1> QED BY <1>2, <1>3

-------------------------------------------------------------------------------
(* Saving and restoring.                                                     *)

\* The copies lie where nothing was open, and nothing else changes; a copy
\* above 2 is what the descriptor was.
LEMMA SavedFacts ==
    ASSUME NEW t \in Tables
    PROVE  /\ Saved(t).tab \in Tables
           /\ Saved(t).fds \in [1..3 -> Fds \cup {NoFd}]
           /\ \A i \in 1..3 : Saved(t).fds[i] # NoFd => t[Saved(t).fds[i]] = Closed
           /\ \A g \in Fds : (\A i \in 1..3 : Saved(t).fds[i] # g) => Saved(t).tab[g] = t[g]
           /\ (\A i \in 1..3 : Saved(t).fds[i] \in 3..MaxFd) =>
                 \A i \in 1..3 : /\ Saved(t).tab[Saved(t).fds[i]] = t[i - 1]
                                 /\ t[i - 1] # Closed
<1> DEFINE a == DupTo(t, 0)
           t0 == Dup(t, 0)
           b == DupTo(t0, 1)
           t1 == Dup(t0, 1)
           c == DupTo(t1, 2)
           t2 == Dup(t1, 2)
<1>1. Saved(t).fds = <<a, b, c>> /\ Saved(t).tab = t2
    BY DEF Saved
<1>2. 0 \in Fds /\ 1 \in Fds /\ 2 \in Fds
    BY FdFacts
<1>3. /\ t0 \in Tables /\ a \in Fds \cup {NoFd}
      /\ \A g \in Fds : g # a => t0[g] = t[g]
      /\ a # NoFd => t[a] = Closed /\ t[0] # Closed /\ t0[a] = t[0]
    BY <1>2, DupFacts
<1> HIDE DEF t0, a
<1>4. /\ t1 \in Tables /\ b \in Fds \cup {NoFd}
      /\ \A g \in Fds : g # b => t1[g] = t0[g]
      /\ b # NoFd => t0[b] = Closed /\ t0[1] # Closed /\ t1[b] = t0[1]
    BY <1>2, <1>3, DupFacts
<1> HIDE DEF t1, b
<1>5. /\ t2 \in Tables /\ c \in Fds \cup {NoFd}
      /\ \A g \in Fds : g # c => t2[g] = t1[g]
      /\ c # NoFd => t1[c] = Closed /\ t1[2] # Closed /\ t2[c] = t1[2]
    BY <1>2, <1>4, DupFacts
<1> HIDE DEF t2, c
<1>6. b # NoFd => b # a /\ t[b] = Closed
    BY <1>3, <1>4
<1>7. c # NoFd => c # b /\ c # a /\ t[c] = Closed
    BY <1>3, <1>4, <1>5, <1>6
<1>8. ASSUME a \in 3..MaxFd, b \in 3..MaxFd, c \in 3..MaxFd
      PROVE  /\ t2[a] = t[0] /\ t2[b] = t[1] /\ t2[c] = t[2]
             /\ t[0] # Closed /\ t[1] # Closed /\ t[2] # Closed
    <2>1. a \in Fds /\ b \in Fds /\ c \in Fds /\ a # NoFd /\ b # NoFd /\ c # NoFd
        BY <1>8, FdFacts
    <2>2. a # 1 /\ a # 2 /\ b # 2
        BY <1>8
    <2>3. t0[1] = t[1] /\ t0[2] = t[2] /\ t1[2] = t[2]
        BY <2>1, <2>2, <1>2, <1>3, <1>4
    <2>4. a # b /\ a # c /\ b # c
        BY <2>1, <1>6, <1>7
    <2> QED BY <2>1, <2>3, <2>4, <1>3, <1>4, <1>5
<1> DEFINE s == <<a, b, c>>
<1>9. s[1] = a /\ s[2] = b /\ s[3] = c /\ s \in [1..3 -> Fds \cup {NoFd}]
    BY <1>3, <1>4, <1>5
<1>10. \A i \in 1..3 : i = 1 \/ i = 2 \/ i = 3
    OBVIOUS
<1>11. 1 \in 1..3 /\ 2 \in 1..3 /\ 3 \in 1..3 /\ 1 - 1 = 0 /\ 2 - 1 = 1 /\ 3 - 1 = 2
    OBVIOUS
<1>12. \A i \in 1..3 : s[i] # NoFd => t[s[i]] = Closed
    BY <1>3, <1>6, <1>7, <1>9, <1>10
<1>13. \A g \in Fds : (\A i \in 1..3 : s[i] # g) => t2[g] = t[g]
    BY <1>3, <1>4, <1>5, <1>9, <1>11
<1>14. (\A i \in 1..3 : s[i] \in 3..MaxFd) =>
           \A i \in 1..3 : t2[s[i]] = t[i - 1] /\ t[i - 1] # Closed
    BY <1>8, <1>9, <1>10, <1>11
<1> HIDE DEF s
<1>15. Saved(t).fds = s /\ Saved(t).tab = t2
    BY <1>1 DEF s
<1> QED BY <1>5, <1>9, <1>12, <1>13, <1>14, <1>15

\* What a table holds after a step: what it held, or no end of a pipe.
NothingNew(t, u) == \A g \in Fds : NoEnd(u[g]) \/ \E h \in Fds : u[g] = t[h]

\* What two steps do not bring, both together do not.
LEMMA NothingNewFacts ==
    ASSUME NEW t, NEW u, NEW v, NothingNew(t, u), NothingNew(u, v)
    PROVE  NothingNew(t, v)
BY DEF NothingNew

\* dup brings nothing new.
LEMMA DupNothingNew ==
    ASSUME NEW t \in Tables, NEW fd \in Fds
    PROVE  NothingNew(t, Dup(t, fd))
<1> DEFINE d == DupTo(t, fd)
           u == Dup(t, fd)
<1>1. /\ \A g \in Fds : g # d => u[g] = t[g]
      /\ d # NoFd => u[d] = t[fd]
    BY DupFacts
<1>2. \A g \in Fds : g # NoFd
    BY FdFacts
<1> HIDE DEF d, u
<1>3. \A g \in Fds : \E h \in Fds : u[g] = t[h]
    BY <1>1, <1>2
<1> QED BY <1>3 DEF NothingNew, u

\* Nor does saving 0, 1 and 2, which is three dups.
LEMMA SavedNothingNew ==
    ASSUME NEW t \in Tables
    PROVE  NothingNew(t, Saved(t).tab)
<1> DEFINE t0 == Dup(t, 0)
           t1 == Dup(t0, 1)
           t2 == Dup(t1, 2)
<1>1. 0 \in Fds /\ 1 \in Fds /\ 2 \in Fds
    BY FdFacts
<1>2. t0 \in Tables /\ NothingNew(t, t0)
    BY <1>1, DupFacts, DupNothingNew
<1> HIDE DEF t0
<1>3. t1 \in Tables /\ NothingNew(t0, t1)
    BY <1>1, <1>2, DupFacts, DupNothingNew
<1> HIDE DEF t1
<1>4. NothingNew(t1, t2)
    BY <1>1, <1>3, DupNothingNew
<1> HIDE DEF t2
<1>5. NothingNew(t, t2)
    BY <1>2, <1>3, <1>4, NothingNewFacts
<1>6. Saved(t).tab = t2
    BY DEF Saved, t0, t1, t2
<1> QED BY <1>5, <1>6

\* Restoring changes 0 to 2 and closes the copies; it brings nothing new, and
\* gives 0 to 2 what the copies hold when they lie above 2 and are open.
LEMMA RestoredFacts ==
    ASSUME NEW t \in Tables, NEW s \in [1..3 -> Fds \cup {NoFd}]
    PROVE  /\ Restored(t, s) \in Tables
           /\ \A g \in Fds : g > 2 => Restored(t, s)[g] =
                  IF \E i \in 1..3 : s[i] = g THEN Closed ELSE t[g]
           /\ \A g \in Fds : \/ Restored(t, s)[g] = Closed
                             \/ \E h \in Fds : Restored(t, s)[g] = t[h]
           /\ (\A i \in 1..3 : s[i] \in 3..MaxFd /\ t[s[i]] # Closed) =>
                 \A i \in 1..3 : Restored(t, s)[i - 1] = t[s[i]]
<1> DEFINE x == s[1]
           y == s[2]
           z == s[3]
<1> DEFINE b0 == Dup2(t, x, 0)
           b1 == Dup2(b0, y, 1)
           b2 == Dup2(b1, z, 2)
           c0 == CloseFd(b2, x)
           c1 == CloseFd(c0, y)
           c2 == CloseFd(c1, z)
<1>1. Restored(t, s) = c2
    BY DEF Restored
<1>2. 0 \in Fds /\ 1 \in Fds /\ 2 \in Fds /\ Fds \subseteq Nat
    BY FdFacts
<1>3. x \in Fds \cup {NoFd} /\ y \in Fds \cup {NoFd} /\ z \in Fds \cup {NoFd}
    OBVIOUS
<1>0. s[1] = x /\ s[2] = y /\ s[3] = z
    OBVIOUS
<1> HIDE DEF x, y, z
<1>4. /\ b0 \in Tables /\ \A g \in Fds : g # 0 => b0[g] = t[g]
      /\ IsOpen(t, x) => b0[0] = t[x]
      /\ ~IsOpen(t, x) => b0 = t
    <2>1. 0 \in Fds /\ x \in Fds \cup {NoFd}
        BY <1>2, <1>3
    <2> QED BY <2>1, Dup2Facts
<1> HIDE DEF b0
<1>5. /\ b1 \in Tables /\ \A g \in Fds : g # 1 => b1[g] = b0[g]
      /\ IsOpen(b0, y) => b1[1] = b0[y]
      /\ ~IsOpen(b0, y) => b1 = b0
    <2>1. b0 \in Tables /\ 1 \in Fds /\ y \in Fds \cup {NoFd}
        BY <1>2, <1>3, <1>4
    <2> QED BY <2>1, Dup2Facts, ZenonT(30)
<1> HIDE DEF b1
<1>6. /\ b2 \in Tables /\ \A g \in Fds : g # 2 => b2[g] = b1[g]
      /\ IsOpen(b1, z) => b2[2] = b1[z]
      /\ ~IsOpen(b1, z) => b2 = b1
    <2>1. b1 \in Tables /\ 2 \in Fds /\ z \in Fds \cup {NoFd}
        BY <1>2, <1>3, <1>5
    <2> QED BY <2>1, Dup2Facts, ZenonT(30)
<1> HIDE DEF b2
<1>7. c0 \in Tables /\ \A g \in Fds : c0[g] = IF g = x THEN Closed ELSE b2[g]
    BY <1>3, <1>6, CloseFacts
<1> HIDE DEF c0
<1>8. c1 \in Tables /\ \A g \in Fds : c1[g] = IF g = y THEN Closed ELSE c0[g]
    BY <1>3, <1>7, CloseFacts
<1> HIDE DEF c1
<1>9. c2 \in Tables /\ \A g \in Fds : c2[g] = IF g = z THEN Closed ELSE c1[g]
    BY <1>3, <1>8, CloseFacts
<1> HIDE DEF c2
<1>10. \A g \in Fds : c2[g] = IF g = x \/ g = y \/ g = z THEN Closed ELSE b2[g]
    BY <1>7, <1>8, <1>9
<1>11. \A g \in Fds : g > 2 => b2[g] = t[g]
    BY <1>2, <1>4, <1>5, <1>6
<1>12. \A i \in 1..3 : i = 1 \/ i = 2 \/ i = 3
    OBVIOUS
<1>13. 1 \in 1..3 /\ 2 \in 1..3 /\ 3 \in 1..3
    OBVIOUS
<1>14. \A g \in Fds : g > 2 => c2[g] = IF \E i \in 1..3 : s[i] = g THEN Closed ELSE t[g]
    BY <1>0, <1>10, <1>11, <1>12, <1>13
<1>15. \A g \in Fds : \E h \in Fds : b0[g] = t[h]
    <2>1. \A g \in Fds : g # 0 => \E h \in Fds : b0[g] = t[h]
        BY <1>4
    <2>2. \E h \in Fds : b0[0] = t[h]
        BY <1>2, <1>3, <1>4 DEF IsOpen
    <2> QED BY <2>1, <2>2
<1>16. \A g \in Fds : \E h \in Fds : b1[g] = b0[h]
    <2>1. \A g \in Fds : g # 1 => \E h \in Fds : b1[g] = b0[h]
        BY <1>5
    <2>2. \E h \in Fds : b1[1] = b0[h]
        BY <1>2, <1>3, <1>5 DEF IsOpen
    <2> QED BY <2>1, <2>2
<1>17. \A g \in Fds : \E h \in Fds : b2[g] = b1[h]
    <2>1. \A g \in Fds : g # 2 => \E h \in Fds : b2[g] = b1[h]
        BY <1>6
    <2>2. \E h \in Fds : b2[2] = b1[h]
        BY <1>2, <1>3, <1>6 DEF IsOpen
    <2> QED BY <2>1, <2>2
<1>18. \A g \in Fds : \E h \in Fds : b2[g] = t[h]
    BY <1>15, <1>16, <1>17
<1>19. \A g \in Fds : c2[g] = Closed \/ \E h \in Fds : c2[g] = t[h]
    BY <1>10, <1>18
<1>20. ASSUME \A i \in 1..3 : s[i] \in 3..MaxFd /\ t[s[i]] # Closed
       PROVE  \A i \in 1..3 : c2[i - 1] = t[s[i]]
    <2>1. /\ x \in 3..MaxFd /\ y \in 3..MaxFd /\ z \in 3..MaxFd
          /\ t[x] # Closed /\ t[y] # Closed /\ t[z] # Closed
        BY <1>0, <1>13, <1>20
    <2>2. x \in Fds /\ y \in Fds /\ z \in Fds /\ x # NoFd /\ y # NoFd /\ z # NoFd
        BY <2>1, FdFacts
    <2>3. b0[0] = t[x] /\ b0[y] = t[y] /\ b0[z] = t[z]
        BY <2>1, <2>2, <1>4 DEF IsOpen
    <2>4. b1[1] = t[y] /\ b1[0] = b0[0] /\ b1[z] = t[z]
        BY <2>1, <2>2, <2>3, <1>2, <1>5 DEF IsOpen
    <2>5. b2[2] = t[z] /\ b2[0] = b1[0] /\ b2[1] = b1[1]
        BY <2>1, <2>2, <2>4, <1>2, <1>6 DEF IsOpen
    <2>6. \A g \in 0..2 : g \in Fds /\ ~ (g = x \/ g = y \/ g = z)
        BY <2>1, <1>2
    <2>7. c2[0] = b2[0] /\ c2[1] = b2[1] /\ c2[2] = b2[2]
        BY <2>6, <1>10
    <2>8. 1 - 1 = 0 /\ 2 - 1 = 1 /\ 3 - 1 = 2
        OBVIOUS
    <2> QED BY <2>3, <2>4, <2>5, <2>7, <2>8, <1>0, <1>12
<1> QED BY <1>1, <1>9, <1>14, <1>19, <1>20

-------------------------------------------------------------------------------
(* One redirection.                                                          *)

\* Opening /dev/null on 0 leaves the rest.
LEMMA WithStdinFacts ==
    ASSUME NEW t \in Tables
    PROVE  /\ WithStdin(t) \in Tables
           /\ \A g \in Fds : g # 0 => WithStdin(t)[g] = t[g]
           /\ WithStdin(t)[0] = t[0] \/ WithStdin(t)[0] = DevNull
<1>1. DevNull \in Objects /\ 0 \in Fds
    BY ObjectFacts, FdFacts
<1> QED BY <1>1 DEF WithStdin, Tables

\* An open for a descriptor changes that descriptor only: where the file was
\* opened first is free again.
LEMMA OpenAsFacts ==
    ASSUME NEW t \in Tables, NEW fd \in Fds, NEW o \in Objects, o # Closed,
           Lowest(t) # NoFd
    PROVE  /\ OpenAs(t, fd, o) \in Tables
           /\ \A g \in Fds : g # fd => OpenAs(t, fd, o)[g] = t[g]
           /\ OpenAs(t, fd, o)[fd] = o \/ OpenAs(t, fd, o)[fd] = Closed
<1> DEFINE new == Lowest(t)
           a == Put(t, new, o)
           b == Dup2(a, new, fd)
           c == CloseFd(b, new)
<1>1. OpenAs(t, fd, o) = c
    BY DEF OpenAs
<1>2. new \in Fds /\ t[new] = Closed /\ new # NoFd
    BY LowestFacts
<1> HIDE DEF new
<1>3. a \in Tables /\ \A g \in Fds : a[g] = IF g = new THEN o ELSE t[g]
    <2>1. new \in Fds \cup {NoFd}
        BY <1>2
    <2> QED BY <2>1, PutFacts
<1> HIDE DEF a
<1>4. IsOpen(a, new)
    BY <1>2, <1>3 DEF IsOpen
<1>5. b \in Tables /\ b[fd] = o /\ \A g \in Fds : g # fd => b[g] = a[g]
    <2>1. a \in Tables /\ new \in Fds \cup {NoFd} /\ a[new] = o
        BY <1>2, <1>3
    <2> QED BY <2>1, <1>4, Dup2Facts
<1> HIDE DEF b
<1>6. c \in Tables /\ \A g \in Fds : c[g] = IF g = new THEN Closed ELSE b[g]
    <2>1. b \in Tables /\ new \in Fds \cup {NoFd}
        BY <1>2, <1>5
    <2> QED BY <2>1, CloseFacts
<1> HIDE DEF c
<1> QED BY <1>1, <1>2, <1>3, <1>5, <1>6

\* What a redirection may change above 2: the descriptor it names and, when it
\* takes the body of a heredoc, the one the body waited on.
Changes(p, r, q) ==
    \A g \in Fds : g > 2 /\ g # r.fd /\ (q.held = p.held \/ g # p.held)
                     => q.tab[g] = p.tab[g]

\* One redirection keeps the process a process, changes no more than that, and
\* nothing above 2 when it fails; it brings no end of a pipe.
LEMMA RedirFacts ==
    ASSUME NEW p \in Process, NEW r \in Redirs, NEW out \in ApplyOneRedir(p, r)
    PROVE  /\ out.p \in Process
           /\ Changes(p, r, out.p)
           /\ ~out.ok => \A g \in Fds : g > 2 => out.p.tab[g] = p.tab[g]
           /\ NothingNew(p.tab, out.p.tab)
<1> DEFINE t == p.tab
<1>1. t \in Tables /\ p.held \in Fds \cup {NoFd} /\ p = [tab |-> t, held |-> p.held]
    BY DEF Process, Tables
<1>2. \A u \in Tables : \A h \in Fds \cup {NoFd} : [tab |-> u, held |-> h] \in Process
    BY DEF Process, Tables
<1>3. \A u : [p EXCEPT !.tab = u] = [tab |-> u, held |-> p.held]
    BY <1>1
<1>4. r.fd \in Fds /\ 0 \in Fds /\ Fds \subseteq Nat
    BY FdFacts DEF Redirs
<1>5. NoEnd(Closed) /\ NoEnd(DevNull) /\ \A f \in Nat : NoEnd(File(f)) /\ File(f) # Closed
    BY ObjectFacts DEF File, Closed
<1> DEFINE w == WithStdin(t)
<1>6. w \in Tables /\ (\A g \in Fds : g # 0 => w[g] = t[g]) /\ NothingNew(t, w)
    BY <1>1, <1>4, <1>5, WithStdinFacts DEF NothingNew
<1> HIDE DEF w
<1>7. CASE r.kind = "file"
    <2>1. out \in RedirFile(p, r)
        BY <1>7 DEF ApplyOneRedir
    <2>2. CASE out = [p |-> [p EXCEPT !.tab = w], ok |-> FALSE]
        <3>1. out.p = [tab |-> w, held |-> p.held] /\ ~out.ok
            BY <2>2, <1>3
        <3> QED BY <3>1, <1>1, <1>2, <1>4, <1>6 DEF Changes
    <2>3. CASE Lowest(w) # NoFd /\ out = [p |-> [p EXCEPT !.tab = OpenAs(w, r.fd, File(r.to))], ok |-> TRUE]
        <3> DEFINE u == OpenAs(w, r.fd, File(r.to))
        <3>1. out.p = [tab |-> u, held |-> p.held] /\ out.ok
            BY <2>3, <1>3
        <3>2. r.to \in Nat
            BY <1>7 DEF Redirs
        <3>3. File(r.to) \in Objects /\ File(r.to) # Closed /\ NoEnd(File(r.to))
            BY <3>2, <1>5, ObjectFacts
        <3>4. /\ u \in Tables /\ \A g \in Fds : g # r.fd => u[g] = w[g]
              /\ u[r.fd] = File(r.to) \/ u[r.fd] = Closed
            BY <3>3, <2>3, <1>4, <1>6, OpenAsFacts
        <3> HIDE DEF u
        <3>5. NothingNew(w, u)
            BY <3>3, <3>4, <1>5 DEF NothingNew
        <3>6. NothingNew(t, u)
            BY <3>5, <1>6, NothingNewFacts
        <3> QED BY <3>1, <3>4, <3>6, <1>1, <1>2, <1>4, <1>6 DEF Changes
    <2> QED BY <2>1, <2>2, <2>3 DEF RedirFile, w
<1>8. CASE r.kind = "dup"
    <2> DEFINE u == Dup2(t, r.to, r.fd)
    <2>1. r.to \in Fds
        BY <1>8 DEF Redirs
    <2>2. out = [p |-> [p EXCEPT !.tab = u], ok |-> IsOpen(t, r.to)]
        BY <1>8 DEF ApplyOneRedir, RedirDup
    <2>3. /\ u \in Tables /\ \A g \in Fds : g # r.fd => u[g] = t[g]
          /\ IsOpen(t, r.to) => u[r.fd] = t[r.to]
          /\ ~IsOpen(t, r.to) => u = t
        <3> DEFINE h == r.to
                   f == r.fd
        <3>1. t \in Tables /\ h \in Fds \cup {NoFd} /\ f \in Fds
            BY <2>1, <1>1, <1>4
        <3> HIDE DEF t, h, f
        <3>2. /\ Dup2(t, h, f) \in Tables
              /\ \A g \in Fds : g # f => Dup2(t, h, f)[g] = t[g]
              /\ IsOpen(t, h) => Dup2(t, h, f)[f] = t[h]
              /\ ~IsOpen(t, h) => Dup2(t, h, f) = t
            BY <3>1, Dup2Facts
        <3> QED BY <3>2 DEF h, f
    <2> HIDE DEF u
    <2>4. out.p = [tab |-> u, held |-> p.held] /\ out.ok = IsOpen(t, r.to)
        BY <2>2, <1>3
    <2>5. NothingNew(t, u)
        BY <2>1, <2>3, <1>4 DEF NothingNew
    <2> QED BY <2>3, <2>4, <2>5, <1>1, <1>2 DEF Changes
<1>9. CASE r.kind = "close"
    <2> DEFINE u == CloseFd(t, r.fd)
    <2>1. out = [p |-> [p EXCEPT !.tab = u], ok |-> TRUE]
        BY <1>9 DEF ApplyOneRedir, RedirClose
    <2>2. u \in Tables /\ \A g \in Fds : u[g] = IF g = r.fd THEN Closed ELSE t[g]
        <3>1. r.fd \in Fds \cup {NoFd}
            BY <1>4
        <3> QED BY <3>1, <1>1, CloseFacts
    <2> HIDE DEF u
    <2>3. out.p = [tab |-> u, held |-> p.held] /\ out.ok
        BY <2>1, <1>3
    <2>4. NothingNew(t, u)
        BY <2>2, <1>5 DEF NothingNew
    <2> QED BY <2>2, <2>3, <2>4, <1>1, <1>2 DEF Changes
<1>10. CASE r.kind = "heredoc" /\ p.held = NoFd
    <2>1. out = [p |-> [p EXCEPT !.tab = w], ok |-> FALSE]
        BY <1>10 DEF ApplyOneRedir, RedirHeredoc, w
    <2>2. out.p = [tab |-> w, held |-> p.held] /\ ~out.ok
        BY <2>1, <1>3
    <2> QED BY <2>2, <1>1, <1>2, <1>4, <1>6 DEF Changes
<1>11. CASE r.kind = "heredoc" /\ p.held # NoFd
    <2> DEFINE d == Dup2(t, p.held, r.fd)
               u == CloseFd(d, p.held)
    <2>1. out = [p |-> [tab |-> u, held |-> NoFd], ok |-> IsOpen(t, p.held)]
        BY <1>11 DEF ApplyOneRedir, RedirHeredoc
    <2>2. p.held \in Fds
        BY <1>1, <1>11
    <2>3. /\ d \in Tables /\ \A g \in Fds : g # r.fd => d[g] = t[g]
          /\ IsOpen(t, p.held) => d[r.fd] = t[p.held]
          /\ ~IsOpen(t, p.held) => d = t
        <3> DEFINE h == p.held
                   f == r.fd
        <3>1. t \in Tables /\ h \in Fds \cup {NoFd} /\ f \in Fds
            BY <1>1, <1>4
        <3> HIDE DEF t, h, f
        <3>2. /\ Dup2(t, h, f) \in Tables
              /\ \A g \in Fds : g # f => Dup2(t, h, f)[g] = t[g]
              /\ IsOpen(t, h) => Dup2(t, h, f)[f] = t[h]
              /\ ~IsOpen(t, h) => Dup2(t, h, f) = t
            BY <3>1, Dup2Facts
        <3> QED BY <3>2 DEF h, f
    <2> HIDE DEF d
    <2>4. u \in Tables /\ \A g \in Fds : u[g] = IF g = p.held THEN Closed ELSE d[g]
        BY <2>3, <1>1, CloseFacts
    <2> HIDE DEF u
    <2>5. out.p.tab = u /\ out.p.held = NoFd /\ out.ok = IsOpen(t, p.held) /\ out.p \in Process
        BY <2>1, <2>4, <1>2
    <2>6. NothingNew(t, u)
        <3>1. \A g \in Fds : \E h \in Fds : d[g] = t[h]
            BY <2>2, <2>3
        <3> QED BY <3>1, <2>4, <1>5 DEF NothingNew
    <2>7. Changes(p, r, out.p)
        BY <2>3, <2>4, <2>5, <1>11 DEF Changes
    <2>8. ~IsOpen(t, p.held) => \A g \in Fds : u[g] = t[g]
        <3>1. ASSUME ~IsOpen(t, p.held) PROVE t[p.held] = Closed
            BY <3>1, <1>11 DEF IsOpen
        <3> QED BY <3>1, <2>3, <2>4
    <2> QED BY <2>5, <2>6, <2>7, <2>8
<1>12. r.kind \in {"file", "dup", "close", "heredoc"}
    BY DEF Redirs
<1> QED BY <1>7, <1>8, <1>9, <1>10, <1>11, <1>12

-------------------------------------------------------------------------------
(* Sequences of frames, stages and pipes.                                    *)

\* A function on 1..n is a sequence.
LEMMA FunctionIsSeq ==
    ASSUME NEW S, NEW n \in Nat, NEW f \in [1..n -> S]
    PROVE  f \in Seq(S) /\ Len(f) = n
OBVIOUS

\* A sequence with one more at its end.
LEMMA PushFacts ==
    ASSUME NEW S, NEW s \in Seq(S), NEW x \in S
    PROVE  /\ Append(s, x) \in Seq(S) /\ Len(Append(s, x)) = Len(s) + 1
           /\ DOMAIN Append(s, x) = 1..(Len(s) + 1)
           /\ \A i \in 1..Len(s) : Append(s, x)[i] = s[i]
           /\ Append(s, x)[Len(s) + 1] = x
OBVIOUS

\* A sequence without its last, and that last.
LEMMA PopFacts ==
    ASSUME NEW S, NEW s \in Seq(S), s # <<>>
    PROVE  LET q == SubSeq(s, 1, Len(s) - 1)
           IN  /\ q \in Seq(S) /\ Len(q) = Len(s) - 1 /\ DOMAIN q = 1..(Len(s) - 1)
               /\ \A i \in 1..(Len(s) - 1) : q[i] = s[i]
               /\ Len(s) \in Nat \ {0} /\ s[Len(s)] \in S /\ DOMAIN s = 1..Len(s)
<1> DEFINE q == SubSeq(s, 1, Len(s) - 1)
           n == Len(s) - 1
<1>1. Len(s) \in Nat \ {0} /\ s[Len(s)] \in S /\ DOMAIN s = 1..Len(s)
    OBVIOUS
<1>2. n \in Nat /\ \A i \in 1..n : s[i] \in S
    BY <1>1
<1>3. /\ q \in Seq(S) /\ Len(q) = IF 1 <= n THEN n - 1 + 1 ELSE 0
      /\ \A i \in 1..(n - 1 + 1) : q[i] = s[1 + i - 1]
    <2>1. 1 \in Int /\ n \in Int
        BY <1>2
    <2> QED BY <1>2, <2>1, SubSeqProperties
<1> HIDE DEF q
<1> HIDE DEF n
<1>4. Len(q) = n /\ \A i \in 1..n : q[i] = s[i]
    <2>1. n - 1 + 1 = n /\ (~(1 <= n) => n = 0) /\ \A i \in 1..n : 1 + i - 1 = i
        BY <1>2
    <2> QED BY <1>3, <2>1
<1>5. DOMAIN q = 1..Len(q)
    BY <1>3
<1> QED BY <1>1, <1>3, <1>4, <1>5 DEF q, n

\* Both ends of a new pipe lie where nothing was open.
LEMMA PipeFacts ==
    ASSUME NEW t \in Tables, NEW k \in Nat,
           NoFd \notin {PipeEnds(t)[1], PipeEnds(t)[2]}
    PROVE  /\ PipeEnds(t) \in Fds \X Fds
           /\ PipeEnds(t)[1] # PipeEnds(t)[2]
           /\ t[PipeEnds(t)[1]] = Closed /\ t[PipeEnds(t)[2]] = Closed
           /\ OpenPipe(t, k) \in Tables
           /\ OpenPipe(t, k)[PipeEnds(t)[1]] = ReadOf(k)
           /\ OpenPipe(t, k)[PipeEnds(t)[2]] = WriteOf(k)
           /\ \A g \in Fds : g \notin {PipeEnds(t)[1], PipeEnds(t)[2]}
                                  => OpenPipe(t, k)[g] = t[g]
<1> DEFINE r == Lowest(t)
           d == Put(t, r, DevNull)
           e == Lowest(d)
           a == Put(t, r, ReadOf(k))
           b == Put(a, e, WriteOf(k))
<1>1. PipeEnds(t)[1] = r /\ PipeEnds(t)[2] = e /\ PipeEnds(t) = <<r, e>>
    BY DEF PipeEnds
<1>2. OpenPipe(t, k) = b
    BY <1>1 DEF OpenPipe
<1>3. DevNull \in Objects /\ DevNull # Closed /\ ReadOf(k) \in Objects /\ WriteOf(k) \in Objects
    BY ObjectFacts DEF DevNull, Closed
<1>4. r \in Fds /\ t[r] = Closed /\ r # NoFd
    BY <1>1, LowestFacts
<1> HIDE DEF r
<1>5. d \in Tables /\ \A g \in Fds : d[g] = IF g = r THEN DevNull ELSE t[g]
    <2>1. r \in Fds \cup {NoFd}
        BY <1>4
    <2> QED BY <2>1, <1>3, PutFacts
<1> HIDE DEF d
<1>6. e \in Fds /\ d[e] = Closed /\ e # NoFd
    BY <1>1, <1>5, LowestFacts
<1> HIDE DEF e
<1>7. e # r /\ t[e] = Closed
    BY <1>3, <1>5, <1>6
<1>8. a \in Tables /\ \A g \in Fds : a[g] = IF g = r THEN ReadOf(k) ELSE t[g]
    <2>1. r \in Fds \cup {NoFd}
        BY <1>4
    <2> QED BY <2>1, <1>3, PutFacts
<1> HIDE DEF a
<1>9. b \in Tables /\ \A g \in Fds : b[g] = IF g = e THEN WriteOf(k) ELSE a[g]
    <2>1. a \in Tables /\ e \in Fds \cup {NoFd} /\ WriteOf(k) \in Objects
        BY <1>3, <1>6, <1>8
    <2> QED BY <2>1, PutFacts
<1> HIDE DEF b
<1>10. b[r] = ReadOf(k) /\ b[e] = WriteOf(k) /\ \A g \in Fds : g \notin {r, e} => b[g] = t[g]
    BY <1>4, <1>6, <1>7, <1>8, <1>9
<1> QED BY <1>1, <1>2, <1>4, <1>6, <1>7, <1>9, <1>10

\* Closing the pipes of the shell keeps a table a table.
LEMMA ClosePipesFacts ==
    ASSUME NEW t \in Tables
    PROVE  /\ ClosePipes(t) \in Tables
           /\ pipes = <<>> => ClosePipes(t) = t
<1>1. Closed \in Objects
    BY ObjectFacts
<1>2. ClosePipes(t) \in Tables
    BY <1>1 DEF ClosePipes, Tables
<1>3. ASSUME pipes = <<>> PROVE ClosePipes(t) = t
    <2>1. DOMAIN pipes = {}
        BY <1>3
    <2> QED BY <2>1 DEF ClosePipes, Tables
<1> QED BY <1>2, <1>3

\* A redirection is entered in every frame; nothing else of a frame changes.
LEMMA TouchFacts ==
    ASSUME frames \in Seq(Frame), NEW fd \in Fds, NEW closing \in Fds \cup {NoFd}
    PROVE  /\ Touch(fd, closing) \in Seq(Frame)
           /\ DOMAIN Touch(fd, closing) = DOMAIN frames
           /\ Len(Touch(fd, closing)) = Len(frames)
           /\ \A i \in DOMAIN frames :
                 /\ Touch(fd, closing)[i].saved = frames[i].saved
                 /\ Touch(fd, closing)[i].before = frames[i].before
                 /\ Touch(fd, closing)[i].touched =
                       frames[i].touched \cup ({fd, closing} \ (0..2 \cup {NoFd}))
<1> DEFINE more == {fd, closing} \ (0..2 \cup {NoFd})
           f(i) == [frames[i] EXCEPT !.touched = @ \cup more]
<1>1. more \subseteq Fds
    OBVIOUS
<1>2. Len(frames) \in Nat /\ DOMAIN frames = 1..Len(frames)
      /\ \A i \in DOMAIN frames : frames[i] \in Frame
    OBVIOUS
<1>3. \A i \in DOMAIN frames : /\ f(i) \in Frame /\ f(i).saved = frames[i].saved
                               /\ f(i).before = frames[i].before
                               /\ f(i).touched = frames[i].touched \cup more
    BY <1>1, <1>2 DEF Frame
<1>4. Touch(fd, closing) = [i \in DOMAIN frames |-> f(i)]
    BY DEF Touch
<1> HIDE DEF f
<1>5. Touch(fd, closing) \in [1..Len(frames) -> Frame]
    BY <1>2, <1>3, <1>4
<1>6. Touch(fd, closing) \in Seq(Frame) /\ Len(Touch(fd, closing)) = Len(frames)
    BY <1>2, <1>5, FunctionIsSeq
<1> QED BY <1>2, <1>3, <1>4, <1>6 DEF f

-------------------------------------------------------------------------------
(* The inductive invariant.                                                  *)

\* Redirections are applied inside a scope, while no pipeline runs.
ScopeOpen == todo # <<>> => frames # <<>> /\ ~Busy

\* The shell holds the pipes it counts, and no other end of a pipe.
PipesOpen == \A k \in DOMAIN pipes : /\ sh.tab[pipes[k][1]] = ReadOf(k)
                                     /\ sh.tab[pipes[k][2]] = WriteOf(k)

OnlyPipes == \A fd \in Fds : \A k \in Nat :
    /\ sh.tab[fd] = ReadOf(k) => k \in DOMAIN pipes /\ fd = pipes[k][1]
    /\ sh.tab[fd] = WriteOf(k) => k \in DOMAIN pipes /\ fd = pipes[k][2]

\* A stage is forked with the shell's table, once every pipe is open.
Forked == \A i \in DOMAIN stages : stages[i].state = "forked" =>
    /\ stages[i].p.tab = sh.tab /\ stages[i].todo = stages[i].list
    /\ Len(pipes) = Len(stages) - 1

\* A stage that closed the pipes has no end but its own two.
Owns(s, i) == \A fd \in Fds : \A k \in Nat : /\ s.p.tab[fd] = WriteOf(k) => i = k
                                             /\ s.p.tab[fd] = ReadOf(k) => i = k + 1

OwnEnds == \A i \in DOMAIN stages : stages[i].state = "wired" => Owns(stages[i], i)

\* StagesConnected, of Base, from when a stage took its ends.
Reads(s, i, n) ==
    s.todo = s.list /\ Base[0] # Closed /\ Base[1] # Closed =>
        /\ s.p.tab[0] = IF i = 1 THEN Base[0] ELSE ReadOf(i - 1)
        /\ s.p.tab[1] = IF i = n THEN Base[1] ELSE WriteOf(i)

Connected == \A i \in DOMAIN stages :
    stages[i].state = "wired" => Reads(stages[i], i, Len(stages))

\* A stage never has more redirections left than it was given.
Shorter == \A i \in DOMAIN stages : Len(stages[i].todo) <= Len(stages[i].list)

\* Above 2, what was not redirected is what it was before a scope, but for the
\* copies of this scope and of those inside it, which lie where nothing was.
CopiedFrom(j, fd) == \E m \in DOMAIN frames : j <= m /\ \E i \in 1..3 : frames[m].saved[i] = fd

Kept == \A j \in DOMAIN frames : \A fd \in Fds :
    fd > 2 /\ fd \notin frames[j].touched =>
        /\ CopiedFrom(j, fd) => frames[j].before[fd] = Closed
        /\ ~CopiedFrom(j, fd) => Base[fd] = frames[j].before[fd]

\* The copies a scope will restore hold what 0 to 2 were.
Copies == \A j \in DOMAIN frames : Safe(frames[j]) =>
    \A i \in 1..3 : /\ Base[frames[j].saved[i]] = frames[j].before[i - 1]
                    /\ frames[j].before[i - 1] # Closed

\* The copies of a scope inside it lie elsewhere.
Apart == \A j, m \in DOMAIN frames : j < m /\ Safe(frames[j]) =>
    \A i, l \in 1..3 : frames[j].saved[i] # frames[m].saved[l]

Scopes == Kept /\ Copies /\ Apart

Pipes == /\ PipesOpen /\ OnlyPipes /\ Forked
         /\ OwnEnds /\ Connected /\ Shorter

IInv == TypeOK /\ ScopeOpen /\ Pipes /\ Scopes

-------------------------------------------------------------------------------
(* What a stage finds on 0 and 1.                                            *)

\* After its two dup2 a stage has the ends of its neighbours on 0 and 1. If the
\* write end lay on 0 it is gone by then: 0 was closed in the shell.
LEMMA WireFacts ==
    ASSUME TypeOK, PipesOpen, NEW i \in DOMAIN stages, Len(pipes) = Len(stages) - 1
    PROVE  LET w == Wire(i, sh.tab)
           IN  /\ w \in Tables
               /\ \A g \in Fds : g # 0 /\ g # 1 => w[g] = sh.tab[g]
               /\ i > 1 => w[0] = ReadOf(i - 1)
               /\ i = 1 => w[0] = sh.tab[0]
               /\ i < Len(stages) =>
                     \/ w[1] = WriteOf(i)
                     \/ i > 1 /\ pipes[i][2] = 0 /\ w[1] = ReadOf(i - 1)
               /\ i = Len(stages) => w[1] = sh.tab[1]
<1> DEFINE t == sh.tab
           t0 == IF i > 1 THEN Dup2(t, pipes[i - 1][1], 0) ELSE t
           w == IF i < Len(stages) THEN Dup2(t0, pipes[i][2], 1) ELSE t0
<1>1. Wire(i, sh.tab) = w
    BY DEF Wire
<1>2. t \in Tables /\ pipes \in Seq(Fds \X Fds) /\ stages \in Seq(Stage)
    BY DEF TypeOK, Process, Tables
<1>3. i \in 1..Len(stages) /\ Len(stages) \in Nat /\ DOMAIN pipes = 1..(Len(stages) - 1)
    BY <1>2
<1>4. 0 \in Fds /\ 1 \in Fds
    BY FdFacts
<1>5. \A k \in DOMAIN pipes : pipes[k] \in Fds \X Fds
    BY <1>2
<1>6. \A k \in DOMAIN pipes : IsOpen(t, pipes[k][1]) /\ IsOpen(t, pipes[k][2])
    <2>1. SUFFICES ASSUME NEW k \in DOMAIN pipes
                   PROVE  IsOpen(t, pipes[k][1]) /\ IsOpen(t, pipes[k][2])
        OBVIOUS
    <2>2. k \in Nat
        BY <1>3
    <2>3. t[pipes[k][1]] = ReadOf(k) /\ t[pipes[k][2]] = WriteOf(k)
        BY DEF PipesOpen
    <2>4. ReadOf(k) # Closed /\ WriteOf(k) # Closed
        BY <2>2, ObjectFacts
    <2>5. pipes[k][1] # NoFd /\ pipes[k][2] # NoFd
        BY <1>5, FdFacts
    <2> QED BY <2>3, <2>4, <2>5 DEF IsOpen
<1> HIDE DEF t
<1>7. /\ t0 \in Tables /\ \A g \in Fds : g # 0 => t0[g] = t[g]
      /\ i > 1 => t0[0] = ReadOf(i - 1)
      /\ i = 1 => t0[0] = t[0]
    <2>1. CASE i > 1
        <3>1. i - 1 \in DOMAIN pipes /\ t0 = Dup2(t, pipes[i - 1][1], 0)
            BY <2>1, <1>3
        <3> DEFINE e == pipes[i - 1][1]
        <3>2. e \in Fds \cup {NoFd} /\ IsOpen(t, e) /\ t[e] = ReadOf(i - 1)
            BY <3>1, <1>5, <1>6 DEF PipesOpen, t
        <3> HIDE DEF e
        <3>3. /\ Dup2(t, e, 0) \in Tables /\ Dup2(t, e, 0)[0] = t[e]
              /\ \A g \in Fds : g # 0 => Dup2(t, e, 0)[g] = t[g]
            BY <3>2, <1>2, <1>4, Dup2Facts
        <3>4. t0 = Dup2(t, e, 0)
            BY <3>1 DEF e
        <3> QED BY <2>1, <3>2, <3>3, <3>4
    <2>2. CASE i = 1
        BY <2>2, <1>2
    <2> QED BY <2>1, <2>2, <1>3
<1> HIDE DEF t0
<1>8. /\ w \in Tables /\ \A g \in Fds : g # 1 => w[g] = t0[g]
      /\ i < Len(stages) => \/ w[1] = WriteOf(i)
                            \/ i > 1 /\ pipes[i][2] = 0 /\ w[1] = ReadOf(i - 1)
      /\ i = Len(stages) => w[1] = t[1]
    <2>1. CASE i < Len(stages)
        <3> DEFINE e == pipes[i][2]
        <3>1. i \in DOMAIN pipes /\ w = Dup2(t0, e, 1)
            BY <2>1, <1>3
        <3>2. e \in Fds \cup {NoFd} /\ e \in Fds /\ IsOpen(t, e) /\ t[e] = WriteOf(i)
            BY <3>1, <1>5, <1>6 DEF PipesOpen, t
        <3>3. \/ t0[e] = WriteOf(i)
              \/ i > 1 /\ e = 0 /\ t0[e] = ReadOf(i - 1)
            BY <3>2, <1>3, <1>7
        <3>4. i \in Nat /\ (i > 1 => i - 1 \in Nat)
            BY <1>3
        <3>5. t0[e] # Closed
            BY <3>3, <3>4, ObjectFacts
        <3> HIDE DEF e
        <3>6. IsOpen(t0, e)
            BY <3>2, <3>5 DEF IsOpen
        <3>7. /\ Dup2(t0, e, 1) \in Tables /\ Dup2(t0, e, 1)[1] = t0[e]
              /\ \A g \in Fds : g # 1 => Dup2(t0, e, 1)[g] = t0[g]
            <4>1. t0 \in Tables /\ e \in Fds \cup {NoFd} /\ 1 \in Fds
                BY <3>2, <1>4, <1>7
            <4> QED BY <4>1, <3>6, Dup2Facts
        <3>8. e = pipes[i][2]
            BY DEF e
        <3> QED BY <2>1, <3>1, <3>3, <3>7, <3>8
    <2>2. CASE i = Len(stages)
        <3>1. t0[1] = t[1]
            BY <1>4, <1>7
        <3> QED BY <2>2, <3>1, <1>3, <1>7
    <2> QED BY <2>1, <2>2, <1>3
<1> HIDE DEF w
<1>9. /\ \A g \in Fds : g # 0 /\ g # 1 => w[g] = t[g]
      /\ i > 1 => w[0] = ReadOf(i - 1)
      /\ i = 1 => w[0] = t[0]
    BY <1>4, <1>7, <1>8
<1> QED BY <1>1, <1>8, <1>9 DEF t

-------------------------------------------------------------------------------
(* The steps of groups and builtins.                                         *)

\* Outside a pipeline Base is the shell's table.
LEMMA BaseFacts ==
    ASSUME TypeOK
    PROVE  /\ Base \in Tables /\ sh.tab \in Tables /\ sh.held \in Fds \cup {NoFd}
           /\ pipes = <<>> => Base = sh.tab
<1>1. sh.tab \in Tables /\ sh.held \in Fds \cup {NoFd}
    BY DEF TypeOK, Process, Tables
<1> QED BY <1>1, ClosePipesFacts DEF Base

\* With no pipe open, a table with nothing new has no end of a pipe either.
LEMMA QuietFacts ==
    ASSUME TypeOK, OnlyPipes, pipes = <<>>, pipes' = <<>>, stages' = <<>>,
           sh' \in Process, NothingNew(sh.tab, sh'.tab)
    PROVE  Pipes' /\ Base' = sh'.tab
<1>1. DOMAIN pipes = {} /\ DOMAIN pipes' = {} /\ DOMAIN stages' = {}
    OBVIOUS
<1>2. \A fd \in Fds : NoEnd(sh.tab[fd])
    BY <1>1 DEF OnlyPipes, NoEnd
<1>3. \A fd \in Fds : NoEnd(sh'.tab[fd])
    BY <1>2 DEF NothingNew
<1>4. OnlyPipes'
    BY <1>3 DEF OnlyPipes, NoEnd
<1>5. (PipesOpen /\ Forked /\ OwnEnds /\ Connected /\ Shorter)'
    BY <1>1 DEF PipesOpen, Forked, OwnEnds, Connected, Shorter
<1>6. Base' = sh'.tab
    <2>1. sh'.tab \in Tables
        BY DEF Process, Tables
    <2> QED BY <1>1, <2>1 DEF Base, ClosePipes, Tables
<1> QED BY <1>4, <1>5, <1>6 DEF Pipes

\* A new scope saves 0 to 2 where nothing was open, so no copy of an outer one
\* is hit (setup_redirections, up to its loop).
LEMMA BeginScopeStep ==
    ASSUME IInv, NEW list \in Seq(Redirs), BeginScope(list)
    PROVE  IInv'
<1> DEFINE t == sh.tab
           s == Saved(t).fds
           f == [saved |-> s, before |-> t, touched |-> {}]
           n == Len(frames)
<1>1. TypeOK /\ ScopeOpen /\ Pipes /\ Scopes
    BY DEF IInv
<1>2. todo = <<>> /\ pipes = <<>> /\ stages = <<>> /\ pipes' = <<>> /\ stages' = <<>>
    BY DEF BeginScope, Ready, Busy
<1>3. t \in Tables /\ sh.held \in Fds \cup {NoFd} /\ Base = t /\ frames \in Seq(Frame)
      /\ sh = [tab |-> t, held |-> sh.held]
    BY <1>1, <1>2, BaseFacts DEF TypeOK, Process
<1>4. sh' = [sh EXCEPT !.tab = Saved(t).tab] /\ frames' = Append(frames, f) /\ todo' = list
    BY DEF BeginScope
<1>5. /\ Saved(t).tab \in Tables /\ s \in [1..3 -> Fds \cup {NoFd}]
      /\ \A i \in 1..3 : s[i] # NoFd => t[s[i]] = Closed
      /\ \A g \in Fds : (\A i \in 1..3 : s[i] # g) => Saved(t).tab[g] = t[g]
      /\ (\A i \in 1..3 : s[i] \in 3..MaxFd) =>
            \A i \in 1..3 : Saved(t).tab[s[i]] = t[i - 1] /\ t[i - 1] # Closed
    BY <1>3, SavedFacts
<1> DEFINE u == Saved(t).tab
<1>6. sh'.tab = u /\ sh' \in Process /\ sh'.held = sh.held
    BY <1>3, <1>4, <1>5 DEF Process, Tables
<1> HIDE DEF t, s, u
<1>7. f \in Frame /\ f.saved = s /\ f.before = t /\ f.touched = {}
    BY <1>3, <1>5 DEF Frame, Tables
<1> HIDE DEF f
<1>8. /\ frames' \in Seq(Frame) /\ Len(frames') = n + 1 /\ n \in Nat
      /\ DOMAIN frames' = 1..(n + 1) /\ DOMAIN frames = 1..n
      /\ \A i \in 1..n : frames'[i] = frames[i]
      /\ frames'[n + 1] = f
    BY <1>3, <1>4, <1>7, PushFacts
<1> HIDE DEF n
<1>9. TypeOK'
    BY <1>1, <1>2, <1>4, <1>6, <1>8 DEF TypeOK
<1>10. ScopeOpen'
    <2>1. frames' # <<>>
        BY <1>8
    <2> QED BY <1>2, <2>1 DEF ScopeOpen, Busy
<1>11. NothingNew(t, u)
    BY <1>3, SavedNothingNew DEF u
<1>12. Pipes' /\ Base' = u
    BY <1>1, <1>2, <1>6, <1>11, QuietFacts DEF Pipes, t
<1>13. \A i \in 1..3 : s[i] \in Fds \cup {NoFd}
    BY <1>5
<1>14. Kept'
    <2>1. SUFFICES ASSUME NEW j \in 1..(n + 1), NEW fd \in Fds,
                          fd > 2, fd \notin frames'[j].touched
                   PROVE  /\ CopiedFrom(j, fd)' => frames'[j].before[fd] = Closed
                          /\ ~CopiedFrom(j, fd)' => u[fd] = frames'[j].before[fd]
        BY <1>8, <1>12 DEF Kept
    <2>2. CopiedFrom(j, fd)' <=> \/ CopiedFrom(j, fd)
                                 \/ \E i \in 1..3 : s[i] = fd
        <3>1. ASSUME CopiedFrom(j, fd)' PROVE CopiedFrom(j, fd) \/ \E i \in 1..3 : s[i] = fd
            <4>1. PICK m \in 1..(n + 1) : j <= m /\ \E i \in 1..3 : frames'[m].saved[i] = fd
                BY <3>1, <1>8 DEF CopiedFrom
            <4>2. m \in 1..n \/ m = n + 1
                BY <1>8
            <4> QED BY <4>1, <4>2, <1>7, <1>8 DEF CopiedFrom
        <3>2. ASSUME CopiedFrom(j, fd) PROVE CopiedFrom(j, fd)'
            <4>1. PICK m \in 1..n : j <= m /\ \E i \in 1..3 : frames[m].saved[i] = fd
                BY <3>2, <1>8 DEF CopiedFrom
            <4>2. m \in 1..(n + 1)
                BY <1>8
            <4> QED BY <4>1, <4>2, <1>8 DEF CopiedFrom
        <3>3. ASSUME \E i \in 1..3 : s[i] = fd PROVE CopiedFrom(j, fd)'
            <4>1. n + 1 \in 1..(n + 1) /\ j <= n + 1
                BY <1>8
            <4> QED BY <3>3, <4>1, <1>7, <1>8 DEF CopiedFrom
        <3> QED BY <3>1, <3>2, <3>3
    <2>3. (\E i \in 1..3 : s[i] = fd) => t[fd] = Closed
        BY <1>5, FdFacts
    <2>4. ~(\E i \in 1..3 : s[i] = fd) => u[fd] = t[fd]
        BY <1>5 DEF u
    <2>5. CASE j = n + 1
        <3>1. frames'[j].before = t /\ ~CopiedFrom(j, fd)
            BY <2>5, <1>7, <1>8 DEF CopiedFrom
        <3> QED BY <3>1, <2>2, <2>3, <2>4
    <2>6. CASE j \in 1..n
        <3>1. frames'[j] = frames[j] /\ j \in DOMAIN frames
            BY <2>6, <1>8
        <3>2. /\ CopiedFrom(j, fd) => frames[j].before[fd] = Closed
              /\ ~CopiedFrom(j, fd) => t[fd] = frames[j].before[fd]
            BY <2>1, <3>1, <1>1, <1>3 DEF Scopes, Kept
        <3> QED BY <3>1, <3>2, <2>2, <2>3, <2>4
    <2> QED BY <2>5, <2>6, <1>8
<1>15. ASSUME NEW j \in 1..n, Safe(frames[j]), NEW i \in 1..3
       PROVE  /\ frames[j].saved[i] \in Fds /\ t[frames[j].saved[i]] = frames[j].before[i - 1]
              /\ t[frames[j].saved[i]] # Closed /\ frames[j].before[i - 1] # Closed
              /\ \A l \in 1..3 : s[l] # frames[j].saved[i]
    <2>1. j \in DOMAIN frames
        BY <1>8
    <2>2. frames[j].saved[i] \in Fds /\ frames[j].saved[i] # NoFd
        BY <1>15, FdFacts DEF Safe
    <2>3. /\ t[frames[j].saved[i]] = frames[j].before[i - 1]
          /\ frames[j].before[i - 1] # Closed
        BY <1>15, <2>1, <1>1, <1>3 DEF Scopes, Copies
    <2> QED BY <2>2, <2>3, <1>5
<1>16. Copies'
    <2>1. SUFFICES ASSUME NEW j \in 1..(n + 1), Safe(frames'[j]), NEW i \in 1..3
                   PROVE  /\ u[frames'[j].saved[i]] = frames'[j].before[i - 1]
                          /\ frames'[j].before[i - 1] # Closed
        BY <1>8, <1>12 DEF Copies, Safe
    <2>2. CASE j = n + 1
        <3>1. \A l \in 1..3 : s[l] \in 3..MaxFd
            BY <2>1, <2>2, <1>7, <1>8 DEF Safe
        <3>2. u[s[i]] = t[i - 1] /\ t[i - 1] # Closed
            BY <3>1, <1>5 DEF u
        <3> QED BY <3>2, <2>2, <1>7, <1>8
    <2>3. CASE j \in 1..n
        <3>1. frames'[j] = frames[j]
            BY <2>3, <1>8
        <3>2. u[frames[j].saved[i]] = t[frames[j].saved[i]]
            BY <3>1, <2>1, <2>3, <1>5, <1>15 DEF u
        <3> QED BY <3>1, <3>2, <2>1, <2>3, <1>15
    <2> QED BY <2>2, <2>3, <1>8
<1>17. Apart'
    <2>1. SUFFICES ASSUME NEW j \in 1..(n + 1), NEW m \in 1..(n + 1), j < m,
                          Safe(frames'[j]), NEW i \in 1..3, NEW l \in 1..3
                   PROVE  frames'[j].saved[i] # frames'[m].saved[l]
        <3>1. DOMAIN frames' = 1..(n + 1)
            BY <1>8
        <3> QED BY <3>1 DEF Apart, Safe
    <2>2. j \in 1..n /\ frames'[j] = frames[j]
        BY <2>1, <1>8
    <2>3. CASE m = n + 1
        BY <2>1, <2>2, <2>3, <1>7, <1>8, <1>15
    <2>4. CASE m \in 1..n
        <3>1. frames'[m] = frames[m] /\ j \in DOMAIN frames /\ m \in DOMAIN frames
            BY <2>2, <2>4, <1>8
        <3>2. Safe(frames[j])
            BY <2>1, <2>2
        <3>3. frames[j].saved[i] # frames[m].saved[l]
            BY <2>1, <3>1, <3>2, <1>1 DEF Scopes, Apart
        <3> QED BY <3>1, <3>3, <2>2
    <2> QED BY <2>3, <2>4, <1>8
<1> QED BY <1>9, <1>10, <1>12, <1>14, <1>16, <1>17 DEF IInv, Scopes

\* One redirection moves, above 2, only what it enters as touched in every frame.
LEMMA ApplyRedirStep ==
    ASSUME IInv, ApplyRedir
    PROVE  IInv'
<1> DEFINE r == Head(todo)
<1>1. TypeOK /\ ScopeOpen /\ Pipes /\ Scopes
    BY DEF IInv
<1>2. todo # <<>> /\ pipes = <<>> /\ stages = <<>> /\ pipes' = <<>> /\ stages' = <<>>
    BY DEF ApplyRedir, Busy
<1>3. /\ sh.tab \in Tables /\ sh.held \in Fds \cup {NoFd} /\ Base = sh.tab
      /\ frames \in Seq(Frame) /\ sh \in Process
    BY <1>1, <1>2, BaseFacts DEF TypeOK
<1>4. r \in Redirs /\ r.fd \in Fds /\ Tail(todo) \in Seq(Redirs)
    <2>1. r \in Redirs /\ Tail(todo) \in Seq(Redirs)
        BY <1>1, <1>2, HeadTailProperties DEF TypeOK
    <2> QED BY <2>1 DEF Redirs
<1>5. PICK out \in ApplyOneRedir(sh, r) :
          /\ sh' = out.p
          /\ frames' = Touch(r.fd, IF sh.held = out.p.held THEN NoFd ELSE sh.held)
          /\ todo' = Tail(todo)
    BY DEF ApplyRedir
<1>6. sh' \in Process /\ Changes(sh, r, sh') /\ NothingNew(sh.tab, sh'.tab)
    BY <1>3, <1>4, <1>5, RedirFacts
<1> DEFINE closing == IF sh.held = sh'.held THEN NoFd ELSE sh.held
<1>7. closing \in Fds \cup {NoFd}
    BY <1>3
<1>8. frames' = Touch(r.fd, closing)
    BY <1>5
<1> HIDE DEF r
<1>9. /\ frames' \in Seq(Frame) /\ DOMAIN frames' = DOMAIN frames /\ Len(frames') = Len(frames)
      /\ \A i \in DOMAIN frames :
            /\ frames'[i].saved = frames[i].saved /\ frames'[i].before = frames[i].before
            /\ frames'[i].touched =
                   frames[i].touched \cup ({r.fd, closing} \ (0..2 \cup {NoFd}))
    BY <1>3, <1>4, <1>7, <1>8, TouchFacts
<1>10. TypeOK'
    BY <1>1, <1>2, <1>4, <1>5, <1>6, <1>9 DEF TypeOK
<1>11. ScopeOpen'
    <2>1. frames # <<>>
        BY <1>1, <1>2 DEF ScopeOpen
    <2>2. frames' # <<>>
        BY <2>1, <1>3, <1>9
    <2> QED BY <2>2, <1>2 DEF ScopeOpen, Busy
<1>12. Pipes' /\ Base' = sh'.tab
    BY <1>1, <1>2, <1>6, QuietFacts DEF Pipes
<1>13. ASSUME NEW j \in DOMAIN frames, NEW fd \in Fds, fd > 2, fd \notin frames'[j].touched
       PROVE  fd \notin frames[j].touched /\ sh'.tab[fd] = Base[fd]
    <2>1. fd \notin 0..2 /\ fd # NoFd
        BY <1>13, FdFacts
    <2>2. fd \notin frames[j].touched /\ fd # r.fd /\ fd # closing
        BY <1>9, <1>13, <2>1
    <2>3. sh'.held = sh.held \/ fd # sh.held
        BY <2>2
    <2> QED BY <2>2, <2>3, <1>3, <1>6, <1>13 DEF Changes
<1>14. \A j, fd : CopiedFrom(j, fd)' <=> CopiedFrom(j, fd)
    BY <1>9 DEF CopiedFrom
<1>15. Kept'
    <2>1. SUFFICES ASSUME NEW j \in DOMAIN frames, NEW fd \in Fds,
                          fd > 2, fd \notin frames'[j].touched
                   PROVE  /\ CopiedFrom(j, fd)' => frames'[j].before[fd] = Closed
                          /\ ~CopiedFrom(j, fd)' => sh'.tab[fd] = frames'[j].before[fd]
        BY <1>9, <1>12 DEF Kept
    <2>2. fd \notin frames[j].touched /\ sh'.tab[fd] = Base[fd]
        BY <2>1, <1>13
    <2>3. /\ CopiedFrom(j, fd) => frames[j].before[fd] = Closed
          /\ ~CopiedFrom(j, fd) => Base[fd] = frames[j].before[fd]
        BY <2>1, <2>2, <1>1 DEF Scopes, Kept
    <2> QED BY <2>2, <2>3, <1>9, <1>14
<1>16. ASSUME NEW j \in DOMAIN frames, Safe(frames'[j])
       PROVE  /\ Safe(frames[j])
              /\ \A i \in 1..3 : sh'.tab[frames[j].saved[i]] = Base[frames[j].saved[i]]
    <2>1. \A i \in 1..3 : /\ frames[j].saved[i] \in 3..MaxFd
                          /\ frames[j].saved[i] \notin frames'[j].touched
        BY <1>9, <1>16 DEF Safe
    <2>2. \A i \in 1..3 : frames[j].saved[i] \in Fds /\ frames[j].saved[i] > 2
        BY <2>1, FdFacts
    <2> QED BY <2>1, <2>2, <1>13 DEF Safe
<1>17. Copies'
    <2>1. SUFFICES ASSUME NEW j \in DOMAIN frames, Safe(frames'[j]), NEW i \in 1..3
                   PROVE  /\ sh'.tab[frames'[j].saved[i]] = frames'[j].before[i - 1]
                          /\ frames'[j].before[i - 1] # Closed
        BY <1>9, <1>12 DEF Copies, Safe
    <2> QED BY <2>1, <1>1, <1>9, <1>16 DEF Scopes, Copies
<1>18. Apart'
    <2>1. SUFFICES ASSUME NEW j \in DOMAIN frames, NEW m \in DOMAIN frames, j < m,
                          Safe(frames'[j]), NEW i \in 1..3, NEW l \in 1..3
                   PROVE  frames'[j].saved[i] # frames'[m].saved[l]
        BY <1>9 DEF Apart, Safe
    <2>2. Safe(frames[j])
        BY <2>1, <1>16
    <2>3. frames[j].saved[i] # frames[m].saved[l]
        BY <2>1, <2>2, <1>1 DEF Scopes, Apart
    <2> QED BY <2>3, <1>9
<1> QED BY <1>10, <1>11, <1>12, <1>15, <1>17, <1>18 DEF IInv, Scopes

\* What a scope gives back when it ends: everything it did not redirect by name.
Undone == Safe(Top) => \A fd \in Fds : fd \notin Top.touched => sh'.tab[fd] = Top.before[fd]

\* The end of a scope gives back what it did not redirect and leaves the outer
\* scopes their copies (restore_redirections).
LEMMA PopScopeStep ==
    ASSUME IInv, frames # <<>>, pipes = <<>>, stages = <<>>,
           NEW p \in Process, NothingNew(sh.tab, p.tab),
           \A g \in Fds : g > 2 => p.tab[g] = sh.tab[g],
           PopScope(p), todo' = <<>>, UNCHANGED <<pipes, stages>>
    PROVE  IInv' /\ Undone
<1> DEFINE n == Len(frames)
           s == Top.saved
           t == p.tab
           u == Restored(t, s)
<1>1. TypeOK /\ ScopeOpen /\ Pipes /\ Scopes
    BY DEF IInv
<1>2. /\ sh.tab \in Tables /\ Base = sh.tab /\ frames \in Seq(Frame)
      /\ t \in Tables /\ p = [tab |-> t, held |-> p.held] /\ p.held \in Fds \cup {NoFd}
    BY <1>1, BaseFacts DEF TypeOK, Process, Tables
<1>3. sh' = [p EXCEPT !.tab = u] /\ frames' = SubSeq(frames, 1, Len(frames) - 1)
    BY DEF PopScope
<1>4. /\ frames' \in Seq(Frame) /\ Len(frames') = n - 1 /\ DOMAIN frames' = 1..(n - 1)
      /\ \A i \in 1..(n - 1) : frames'[i] = frames[i]
      /\ n \in Nat \ {0} /\ frames[n] \in Frame /\ DOMAIN frames = 1..n
    BY <1>2, <1>3, PopFacts
<1>5. s \in [1..3 -> Fds \cup {NoFd}] /\ s = frames[n].saved /\ Top = frames[n]
    BY <1>4 DEF Top, Frame
<1>6. /\ u \in Tables
      /\ \A g \in Fds : g > 2 => u[g] = IF \E i \in 1..3 : s[i] = g THEN Closed ELSE t[g]
      /\ \A g \in Fds : u[g] = Closed \/ \E h \in Fds : u[g] = t[h]
      /\ (\A i \in 1..3 : s[i] \in 3..MaxFd /\ t[s[i]] # Closed) =>
            \A i \in 1..3 : u[i - 1] = t[s[i]]
    BY <1>2, <1>5, RestoredFacts
<1> HIDE DEF s, u
<1>7. sh' \in Process /\ sh'.tab = u
    BY <1>2, <1>3, <1>6 DEF Process, Tables
<1>8. \A g \in Fds : g > 2 => t[g] = Base[g]
    BY <1>2
<1> HIDE DEF n, t
<1>9. TypeOK'
    BY <1>1, <1>4, <1>7 DEF TypeOK
<1>10. ScopeOpen'
    BY DEF ScopeOpen
<1>11. NothingNew(sh.tab, u)
    <2>1. NothingNew(t, u)
        BY <1>6, ObjectFacts DEF NothingNew
    <2>2. NothingNew(sh.tab, t)
        BY DEF t
    <2> QED BY <2>1, <2>2, NothingNewFacts
<1>12. Pipes' /\ Base' = u
    BY <1>1, <1>7, <1>11, QuietFacts DEF Pipes
<1>13. ASSUME NEW j \in 1..n, NEW fd
       PROVE  CopiedFrom(j, fd) <=> CopiedFrom(j, fd)' \/ \E i \in 1..3 : s[i] = fd
    <2>1. ASSUME CopiedFrom(j, fd) PROVE CopiedFrom(j, fd)' \/ \E i \in 1..3 : s[i] = fd
        <3>1. PICK m \in 1..n : j <= m /\ \E i \in 1..3 : frames[m].saved[i] = fd
            BY <2>1, <1>4 DEF CopiedFrom
        <3>2. m \in 1..(n - 1) \/ m = n
            BY <1>4
        <3> QED BY <3>1, <3>2, <1>4, <1>5 DEF CopiedFrom
    <2>2. ASSUME CopiedFrom(j, fd)' PROVE CopiedFrom(j, fd)
        <3>1. PICK m \in 1..(n - 1) : j <= m /\ \E i \in 1..3 : frames'[m].saved[i] = fd
            BY <2>2, <1>4 DEF CopiedFrom
        <3>2. m \in 1..n
            BY <1>4
        <3> QED BY <3>1, <3>2, <1>4 DEF CopiedFrom
    <2>3. ASSUME \E i \in 1..3 : s[i] = fd PROVE CopiedFrom(j, fd)
        <3>1. n \in 1..n /\ j <= n
            BY <1>4
        <3> QED BY <2>3, <3>1, <1>4, <1>5 DEF CopiedFrom
    <2> QED BY <2>1, <2>2, <2>3
<1>14. ASSUME NEW j \in 1..n, NEW fd \in Fds, fd > 2, fd \notin frames[j].touched
       PROVE  /\ CopiedFrom(j, fd) => frames[j].before[fd] = Closed
              /\ ~CopiedFrom(j, fd) => Base[fd] = frames[j].before[fd]
    BY <1>1, <1>4, <1>14 DEF Scopes, Kept
<1>15. Kept'
    <2>1. SUFFICES ASSUME NEW j \in 1..(n - 1), NEW fd \in Fds,
                          fd > 2, fd \notin frames'[j].touched
                   PROVE  /\ CopiedFrom(j, fd)' => frames'[j].before[fd] = Closed
                          /\ ~CopiedFrom(j, fd)' => u[fd] = frames'[j].before[fd]
        BY <1>4, <1>12 DEF Kept
    <2>2. j \in 1..n /\ frames'[j] = frames[j]
        BY <1>4
    <2> QED BY <2>1, <2>2, <1>6, <1>8, <1>13, <1>14
<1>16. Copies'
    <2>1. SUFFICES ASSUME NEW j \in 1..(n - 1), Safe(frames'[j]), NEW i \in 1..3
                   PROVE  /\ u[frames'[j].saved[i]] = frames'[j].before[i - 1]
                          /\ frames'[j].before[i - 1] # Closed
        BY <1>4, <1>12 DEF Copies, Safe
    <2>2. j \in 1..n /\ n \in 1..n /\ j < n /\ frames'[j] = frames[j]
        BY <1>4
    <2> DEFINE c == frames[j].saved[i]
    <2>3. c \in Fds /\ c > 2
        BY <2>1, <2>2, FdFacts DEF Safe
    <2>4. \A l \in 1..3 : s[l] # c
        <3>1. Safe(frames[j]) /\ j \in DOMAIN frames /\ n \in DOMAIN frames
            BY <2>1, <2>2, <1>4
        <3>2. \A l \in 1..3 : frames[j].saved[i] # frames[n].saved[l]
            BY <2>2, <3>1, <1>1 DEF Scopes, Apart
        <3> QED BY <3>2, <1>5
    <2>5. Base[c] = frames[j].before[i - 1] /\ frames[j].before[i - 1] # Closed
        BY <2>1, <2>2, <1>1, <1>4 DEF Scopes, Copies
    <2> QED BY <2>2, <2>3, <2>4, <2>5, <1>6, <1>8
<1>17. Apart'
    <2>1. SUFFICES ASSUME NEW j \in 1..(n - 1), NEW m \in 1..(n - 1), j < m,
                          Safe(frames'[j]), NEW i \in 1..3, NEW l \in 1..3
                   PROVE  frames'[j].saved[i] # frames'[m].saved[l]
        <3>1. DOMAIN frames' = 1..(n - 1)
            BY <1>4
        <3> QED BY <3>1 DEF Apart, Safe
    <2>2. /\ j \in DOMAIN frames /\ frames'[j] = frames[j]
          /\ m \in DOMAIN frames /\ frames'[m] = frames[m]
        BY <1>4
    <2>3. Safe(frames[j])
        BY <2>1, <2>2
    <2>4. frames[j].saved[i] # frames[m].saved[l]
        BY <2>1, <2>2, <2>3, <1>1 DEF Scopes, Apart
    <2> QED BY <2>2, <2>4
<1>18. Undone
    <2>1. SUFFICES ASSUME Safe(Top), NEW fd \in Fds, fd \notin Top.touched
                   PROVE  u[fd] = Top.before[fd]
        BY <1>7 DEF Undone
    <2>2. n \in 1..n
        BY <1>4
    <2>3. CASE fd > 2
        <3>1. CopiedFrom(n, fd) <=> \E i \in 1..3 : s[i] = fd
            <4>1. PICK k \in 1..n : k = n
                BY <2>2
            <4>2. ~CopiedFrom(k, fd)'
                BY <4>1, <1>4 DEF CopiedFrom
            <4> QED BY <4>1, <4>2, <1>13
        <3> QED BY <2>1, <2>2, <2>3, <3>1, <1>5, <1>6, <1>8, <1>14
    <2>4. CASE ~ (fd > 2)
        <3>1. \A i \in 1..3 : s[i] \in 3..MaxFd /\ s[i] \in Fds /\ s[i] > 2
            BY <2>1, <1>5, FdFacts DEF Safe
        <3>2. \A i \in 1..3 : Base[s[i]] = Top.before[i - 1] /\ Top.before[i - 1] # Closed
            BY <2>1, <2>2, <1>1, <1>4, <1>5 DEF Scopes, Copies
        <3>3. \A i \in 1..3 : t[s[i]] = Top.before[i - 1] /\ t[s[i]] # Closed
            BY <3>1, <3>2, <1>8
        <3>4. \A i \in 1..3 : u[i - 1] = Top.before[i - 1]
            BY <3>1, <3>3, <1>6
        <3>5. fd + 1 \in 1..3 /\ (fd + 1) - 1 = fd
            BY <2>4, FdFacts
        <3> QED BY <3>4, <3>5
    <2> QED BY <2>3, <2>4
<1> QED BY <1>9, <1>10, <1>12, <1>15, <1>16, <1>17, <1>18 DEF IInv, Scopes

\* A redirection that fails moved nothing above 2, so its scope ends as any other.
LEMMA RedirFailsStep ==
    ASSUME IInv, RedirFails
    PROVE  IInv' /\ Undone
<1>1. TypeOK /\ ScopeOpen /\ sh \in Process /\ todo \in Seq(Redirs)
    BY DEF IInv, TypeOK
<1>2. todo # <<>> /\ pipes = <<>> /\ stages = <<>> /\ frames # <<>>
    BY <1>1 DEF RedirFails, Busy, ScopeOpen
<1>3. Head(todo) \in Redirs
    BY <1>1, <1>2
<1>4. PICK out \in ApplyOneRedir(sh, Head(todo)) : ~out.ok /\ PopScope(out.p)
    BY DEF RedirFails
<1>5. /\ out.p \in Process /\ NothingNew(sh.tab, out.p.tab)
      /\ \A g \in Fds : g > 2 => out.p.tab[g] = sh.tab[g]
    BY <1>1, <1>3, <1>4, RedirFacts
<1>6. todo' = <<>> /\ UNCHANGED <<pipes, stages>>
    BY DEF RedirFails
<1> QED BY <1>2, <1>4, <1>5, <1>6, PopScopeStep

\* A builtin or group that is over ends its scope.
LEMMA EndScopeStep ==
    ASSUME IInv, EndScope
    PROVE  IInv' /\ Undone
<1>1. sh \in Process
    BY DEF IInv, TypeOK
<1>2. todo = <<>> /\ pipes = <<>> /\ stages = <<>> /\ frames # <<>>
    BY DEF EndScope, Ready, Busy
<1>3. NothingNew(sh.tab, sh.tab)
    BY DEF NothingNew
<1>4. PopScope(sh) /\ todo' = <<>> /\ UNCHANGED <<pipes, stages>>
    BY <1>2 DEF EndScope
<1> QED BY <1>1, <1>2, <1>3, <1>4, PopScopeStep

-------------------------------------------------------------------------------
(* The steps of lines.                                                       *)

\* Outside every scope, a step of the shell's table alone keeps the invariant.
LEMMA LineStep ==
    ASSUME IInv, Ready, frames = <<>>, sh' \in Process, NothingNew(sh.tab, sh'.tab),
           UNCHANGED <<frames, todo, pipes, stages>>
    PROVE  IInv'
<1>1. TypeOK /\ Pipes
    BY DEF IInv
<1>2. pipes = <<>> /\ stages = <<>> /\ todo = <<>>
    BY DEF Ready, Busy
<1>3. TypeOK'
    BY <1>1 DEF TypeOK
<1>4. ScopeOpen'
    BY <1>2 DEF ScopeOpen
<1>5. Pipes'
    BY <1>1, <1>2, QuietFacts DEF Pipes
<1>6. Scopes'
    <2>1. DOMAIN frames' = {}
        OBVIOUS
    <2> QED BY <2>1 DEF Scopes, Kept, Copies, Apart
<1> QED BY <1>3, <1>4, <1>5, <1>6 DEF IInv

\* The parser leaves a body on a descriptor that was free.
LEMMA HoldBodyStep ==
    ASSUME IInv, HoldBody
    PROVE  IInv'
<1> DEFINE t == sh.tab
           l == Lowest(t)
           u == Put(t, l, Body)
<1>1. t \in Tables
    BY BaseFacts DEF IInv
<1>2. l \in Fds /\ l # NoFd
    BY <1>1, LowestFacts DEF HoldBody
<1>3. sh' = [tab |-> u, held |-> l]
    BY DEF HoldBody
<1> HIDE DEF l, t
<1>4. Body \in Objects /\ NoEnd(Body)
    BY ObjectFacts
<1>5. u \in Tables /\ \A g \in Fds : u[g] = IF g = l THEN Body ELSE t[g]
    BY <1>1, <1>2, <1>4 DEF Put, Tables
<1> HIDE DEF u
<1>6. sh' \in Process /\ sh'.tab = u
    BY <1>2, <1>3, <1>5 DEF Process, Tables
<1>7. NothingNew(t, u)
    BY <1>4, <1>5 DEF NothingNew
<1>8. /\ Ready /\ frames = <<>>
      /\ UNCHANGED <<frames, todo, pipes, stages>>
    BY DEF HoldBody
<1> QED BY <1>6, <1>7, <1>8, LineStep DEF t

\* ast_free closes the descriptor of a body nobody took.
LEMMA FreeLineStep ==
    ASSUME IInv, FreeLine
    PROVE  IInv'
<1> DEFINE t == sh.tab
           u == CloseFd(t, sh.held)
<1>1. t \in Tables /\ sh.held \in Fds \cup {NoFd}
    BY BaseFacts DEF IInv
<1>2. sh' = [tab |-> u, held |-> NoFd]
    BY DEF FreeLine
<1>3. u \in Tables /\ \A g \in Fds : u[g] = IF g = sh.held THEN Closed ELSE t[g]
    BY <1>1, CloseFacts
<1> HIDE DEF u, t
<1>4. sh' \in Process /\ sh'.tab = u
    BY <1>2, <1>3 DEF Process, Tables
<1>5. NothingNew(t, u)
    <2>1. NoEnd(Closed)
        BY ObjectFacts
    <2> QED BY <2>1, <1>3 DEF NothingNew
<1>6. /\ Ready /\ frames = <<>>
      /\ UNCHANGED <<frames, todo, pipes, stages>>
    BY DEF FreeLine
<1> QED BY <1>4, <1>5, <1>6, LineStep DEF t

-------------------------------------------------------------------------------
(* The steps of pipelines.                                                   *)

\* What the invariant says of scopes, it says of Base and the frames.
LEMMA ScopesStay ==
    ASSUME Scopes, Base' = Base, frames' = frames
    PROVE  Scopes'
<1>1. Kept'
    <2>1. \A j, fd : CopiedFrom(j, fd)' <=> CopiedFrom(j, fd)
        BY DEF CopiedFrom
    <2> QED BY <2>1 DEF Scopes, Kept
<1>2. Copies'
    BY DEF Scopes, Copies, Safe
<1>3. Apart'
    BY DEF Scopes, Apart, Safe
<1> QED BY <1>1, <1>2, <1>3 DEF Scopes

\* One more pipe: the shell holds it and Base does not.
LEMMA NewPipeStep ==
    ASSUME IInv, NoFd \notin {PipeEnds(sh.tab)[1], PipeEnds(sh.tab)[2]},
           pipes' = Append(pipes, PipeEnds(sh.tab)),
           sh' = [sh EXCEPT !.tab = OpenPipe(@, Len(pipes) + 1)]
    PROVE  /\ sh' \in Process /\ pipes' \in Seq(Fds \X Fds) /\ pipes' # <<>>
           /\ Len(pipes') = Len(pipes) + 1
           /\ PipesOpen' /\ OnlyPipes' /\ Base' = Base
<1> DEFINE t == sh.tab
           m == Len(pipes)
           e == PipeEnds(t)
           u == OpenPipe(t, m + 1)
<1>1. /\ t \in Tables /\ sh \in Process /\ pipes \in Seq(Fds \X Fds)
      /\ PipesOpen /\ OnlyPipes
    BY BaseFacts DEF IInv, TypeOK, Pipes
<1>2. m \in Nat /\ DOMAIN pipes = 1..m /\ m + 1 \in Nat
    BY <1>1
<1>3. sh'.tab = u /\ sh' = [tab |-> u, held |-> sh.held]
    BY <1>1 DEF Process
<1> HIDE DEF m
<1>4. /\ e \in Fds \X Fds /\ e[1] # e[2] /\ t[e[1]] = Closed /\ t[e[2]] = Closed
      /\ u \in Tables /\ u[e[1]] = ReadOf(m + 1) /\ u[e[2]] = WriteOf(m + 1)
      /\ \A g \in Fds : g \notin {e[1], e[2]} => u[g] = t[g]
    BY <1>1, <1>2, PipeFacts
<1> HIDE DEF t, e, u
<1>5. e[1] \in Fds /\ e[2] \in Fds
    BY <1>4
<1>6. sh' \in Process
    BY <1>1, <1>3, <1>4 DEF Process, Tables
<1>7. /\ pipes' \in Seq(Fds \X Fds) /\ Len(pipes') = m + 1 /\ DOMAIN pipes' = 1..(m + 1)
      /\ \A k \in 1..m : pipes'[k] = pipes[k]
      /\ pipes'[m + 1] = e
    BY <1>1, <1>4, PushFacts DEF m, e, t
<1>8. pipes' # <<>>
    BY <1>2, <1>7
<1>9. \A k \in 1..m : /\ t[pipes[k][1]] = ReadOf(k) /\ t[pipes[k][2]] = WriteOf(k)
                      /\ pipes[k][1] \in Fds /\ pipes[k][2] \in Fds
                      /\ pipes[k][1] \notin {e[1], e[2]} /\ pipes[k][2] \notin {e[1], e[2]}
    <2>1. SUFFICES ASSUME NEW k \in 1..m
                   PROVE  /\ t[pipes[k][1]] = ReadOf(k) /\ t[pipes[k][2]] = WriteOf(k)
                          /\ pipes[k][1] \in Fds /\ pipes[k][2] \in Fds
                          /\ pipes[k][1] \notin {e[1], e[2]}
                          /\ pipes[k][2] \notin {e[1], e[2]}
        OBVIOUS
    <2>2. t[pipes[k][1]] = ReadOf(k) /\ t[pipes[k][2]] = WriteOf(k)
        BY <1>1, <1>2 DEF PipesOpen, t
    <2>3. pipes[k] \in Fds \X Fds
        BY <1>1, <1>2
    <2>4. ReadOf(k) # Closed /\ WriteOf(k) # Closed
        BY <1>2, ObjectFacts
    <2> QED BY <2>2, <2>3, <2>4, <1>4
<1>10. PipesOpen'
    <2>1. SUFFICES ASSUME NEW k \in 1..(m + 1)
                   PROVE  u[pipes'[k][1]] = ReadOf(k) /\ u[pipes'[k][2]] = WriteOf(k)
        BY <1>3, <1>7 DEF PipesOpen
    <2>2. CASE k = m + 1
        BY <2>2, <1>4, <1>7
    <2>3. CASE k \in 1..m
        BY <2>3, <1>4, <1>7, <1>9
    <2> QED BY <2>2, <2>3, <1>2
<1>11. OnlyPipes'
    <2>1. SUFFICES ASSUME NEW fd \in Fds, NEW k \in Nat
                   PROVE  /\ u[fd] = ReadOf(k) => k \in 1..(m + 1) /\ fd = pipes'[k][1]
                          /\ u[fd] = WriteOf(k) => k \in 1..(m + 1) /\ fd = pipes'[k][2]
        BY <1>3, <1>7 DEF OnlyPipes
    <2>2. CASE fd = e[1]
        <3>1. u[fd] = ReadOf(k) => k = m + 1
            BY <2>2, <1>2, <1>4, ObjectFacts
        <3>2. u[fd] # WriteOf(k)
            BY <2>2, <1>2, <1>4, ObjectFacts
        <3> QED BY <3>1, <3>2, <2>2, <1>2, <1>7
    <2>3. CASE fd = e[2]
        <3>1. u[fd] = WriteOf(k) => k = m + 1
            BY <2>3, <1>2, <1>4, ObjectFacts
        <3>2. u[fd] # ReadOf(k)
            BY <2>3, <1>2, <1>4, ObjectFacts
        <3> QED BY <3>1, <3>2, <2>3, <1>2, <1>7
    <2>4. CASE fd \notin {e[1], e[2]}
        <3>1. /\ u[fd] = ReadOf(k) => k \in 1..m /\ fd = pipes[k][1]
              /\ u[fd] = WriteOf(k) => k \in 1..m /\ fd = pipes[k][2]
            BY <2>4, <1>1, <1>2, <1>4 DEF OnlyPipes, t
        <3> QED BY <3>1, <1>2, <1>7
    <2> QED BY <2>2, <2>3, <2>4
<1>12. Base' = Base
    <2> DEFINE old(fd) == \E k \in 1..m : fd \in {pipes[k][1], pipes[k][2]}
               new(fd) == \E k \in 1..(m + 1) : fd \in {pipes'[k][1], pipes'[k][2]}
    <2>1. \A fd \in Fds : new(fd) <=> old(fd) \/ fd \in {e[1], e[2]}
        <3>1. 1..(m + 1) = 1..m \cup {m + 1}
            BY <1>2
        <3> QED BY <3>1, <1>7
    <2>2. \A fd \in Fds : (IF new(fd) THEN Closed ELSE u[fd]) = IF old(fd) THEN Closed ELSE t[fd]
        <3> HIDE DEF new, old
        <3> QED BY <2>1, <1>4
    <2>3. Base = [fd \in Fds |-> IF old(fd) THEN Closed ELSE t[fd]]
        BY <1>2 DEF Base, ClosePipes, t
    <2>4. Base' = [fd \in Fds |-> IF new(fd) THEN Closed ELSE u[fd]]
        BY <1>3, <1>7 DEF Base, ClosePipes
    <2> HIDE DEF new, old
    <2> QED BY <2>2, <2>3, <2>4
<1> QED BY <1>6, <1>7, <1>8, <1>10, <1>11, <1>12 DEF m

\* Base has no end of a pipe.
LEMMA BaseQuiet ==
    ASSUME TypeOK, OnlyPipes
    PROVE  \A fd \in Fds : NoEnd(Base[fd])
<1>1. SUFFICES ASSUME NEW fd \in Fds, NEW k \in Nat, Base[fd] = ReadOf(k) \/ Base[fd] = WriteOf(k)
               PROVE  FALSE
    BY DEF NoEnd
<1>2. Base[fd] # Closed
    BY <1>1, ObjectFacts
<1>3. /\ Base[fd] = sh.tab[fd]
      /\ \A m \in DOMAIN pipes : fd # pipes[m][1] /\ fd # pipes[m][2]
    BY <1>2 DEF Base, ClosePipes
<1> QED BY <1>1, <1>3 DEF OnlyPipes

\* Closing the pipes leaves Base, with no end of a pipe.
LEMMA CloseStep ==
    ASSUME IInv, sh' = [sh EXCEPT !.tab = ClosePipes(@)], pipes' = <<>>
    PROVE  sh' \in Process /\ PipesOpen' /\ OnlyPipes' /\ Base' = Base
<1>1. sh \in Process /\ sh.held \in Fds \cup {NoFd} /\ Base \in Tables
    BY BaseFacts DEF IInv, TypeOK
<1>2. sh' = [tab |-> Base, held |-> sh.held]
    BY <1>1 DEF Base, Process
<1>3. sh' \in Process /\ sh'.tab = Base
    BY <1>1, <1>2 DEF Process, Tables
<1>4. DOMAIN pipes' = {}
    OBVIOUS
<1>5. \A fd \in Fds : NoEnd(Base[fd])
    BY BaseQuiet DEF IInv, Pipes
<1>6. PipesOpen' /\ OnlyPipes'
    BY <1>3, <1>4, <1>5 DEF PipesOpen, OnlyPipes, NoEnd
<1>7. Base' = Base
    <2>1. Base' = [fd \in Fds |-> Base[fd]]
        BY <1>3, <1>4 DEF Base, ClosePipes
    <2>2. Base = [fd \in Fds |-> Base[fd]]
        BY <1>1 DEF Tables
    <2> QED BY <2>1, <2>2
<1> QED BY <1>3, <1>6, <1>7

\* While a pipeline runs no redirection of a scope is pending.
LEMMA ScopeWaits ==
    ASSUME IInv, Ready \/ Busy
    PROVE  todo = <<>>
BY DEF IInv, ScopeOpen, Ready

\* The first pipe of a pipeline is opened, no stage is forked.
LEMMA StartPipelineStep ==
    ASSUME IInv, NEW n \in Nat, StartPipeline(n)
    PROVE  IInv'
<1> DEFINE blank == [state |-> "unborn", list |-> <<>>, todo |-> <<>>, p |-> sh]
<1>1. TypeOK /\ Scopes /\ pipes = <<>> /\ todo = <<>> /\ sh \in Process
    BY DEF IInv, TypeOK, StartPipeline, Ready, Busy
<1>2. /\ pipes' = Append(pipes, PipeEnds(sh.tab)) /\ Len(pipes) + 1 = 1
      /\ NoFd \notin {PipeEnds(sh.tab)[1], PipeEnds(sh.tab)[2]}
      /\ sh' = [sh EXCEPT !.tab = OpenPipe(@, 1)]
      /\ stages' = [i \in 1..n |-> blank] /\ UNCHANGED <<frames, todo>>
    BY <1>1 DEF StartPipeline
<1>3. /\ sh' \in Process /\ pipes' \in Seq(Fds \X Fds)
      /\ PipesOpen' /\ OnlyPipes' /\ Base' = Base
    BY <1>2, NewPipeStep
<1>4. /\ blank \in Stage /\ blank.state = "unborn" /\ blank.list = <<>> /\ blank.todo = <<>>
    <2>1. <<>> \in Seq(Redirs)
        OBVIOUS
    <2> QED BY <2>1, <1>1 DEF Stage
<1> HIDE DEF blank
<1>5. stages' \in [1..n -> Stage]
    BY <1>2, <1>4
<1>6. stages' \in Seq(Stage)
    BY <1>5, FunctionIsSeq
<1>7. \A i \in DOMAIN stages' : stages'[i] = blank
    BY <1>2
<1>8. TypeOK'
    BY <1>1, <1>2, <1>3, <1>6 DEF TypeOK
<1>9. (Forked /\ OwnEnds /\ Connected)'
    BY <1>4, <1>7 DEF Forked, OwnEnds, Connected
<1>10. Shorter'
    BY <1>4, <1>7 DEF Shorter
<1>11. Scopes'
    BY <1>1, <1>2, <1>3, ScopesStay
<1>12. ScopeOpen'
    BY <1>1, <1>2 DEF ScopeOpen
<1> QED BY <1>3, <1>8, <1>9, <1>10, <1>11, <1>12 DEF IInv, Pipes

\* A further pipe is opened, still before any fork.
LEMMA OpenPipesStep ==
    ASSUME IInv, OpenPipes
    PROVE  IInv'
<1>1. /\ TypeOK /\ Scopes /\ Shorter /\ pipes # <<>>
    BY DEF IInv, Pipes, OpenPipes
<1>2. todo = <<>>
    BY <1>1, ScopeWaits DEF Busy
<1>3. /\ pipes' = Append(pipes, PipeEnds(sh.tab))
      /\ NoFd \notin {PipeEnds(sh.tab)[1], PipeEnds(sh.tab)[2]}
      /\ sh' = [sh EXCEPT !.tab = OpenPipe(@, Len(pipes) + 1)]
      /\ Unborn = DOMAIN stages /\ UNCHANGED <<frames, todo, stages>>
    BY DEF OpenPipes
<1>4. /\ sh' \in Process /\ pipes' \in Seq(Fds \X Fds)
      /\ PipesOpen' /\ OnlyPipes' /\ Base' = Base
    BY <1>3, NewPipeStep
<1>5. \A i \in DOMAIN stages : stages[i].state = "unborn"
    BY <1>3 DEF Unborn
<1>6. TypeOK'
    BY <1>1, <1>3, <1>4 DEF TypeOK
<1>7. (Forked /\ OwnEnds /\ Connected /\ Shorter)'
    BY <1>1, <1>3, <1>5 DEF Forked, OwnEnds, Connected, Shorter
<1>8. Scopes'
    BY <1>1, <1>3, <1>4, ScopesStay
<1>9. ScopeOpen'
    BY <1>2, <1>3 DEF ScopeOpen
<1> QED BY <1>4, <1>6, <1>7, <1>8, <1>9 DEF IInv, Pipes

\* A pipe or fork that fails closes the pipes there are.
LEMMA PipelineFailsStep ==
    ASSUME IInv, PipelineFails
    PROVE  IInv'
<1>1. TypeOK /\ Scopes /\ pipes # <<>>
    BY DEF IInv, PipelineFails
<1>2. todo = <<>>
    BY <1>1, ScopeWaits DEF Busy
<1>3. /\ sh' = [sh EXCEPT !.tab = ClosePipes(@)] /\ pipes' = <<>> /\ stages' = <<>>
      /\ UNCHANGED <<frames, todo>>
    BY DEF PipelineFails
<1>4. sh' \in Process /\ PipesOpen' /\ OnlyPipes' /\ Base' = Base
    BY <1>3, CloseStep
<1>5. TypeOK'
    BY <1>1, <1>3, <1>4 DEF TypeOK
<1>6. (Forked /\ OwnEnds /\ Connected /\ Shorter)'
    BY <1>3 DEF Forked, OwnEnds, Connected, Shorter
<1>7. Scopes'
    BY <1>1, <1>3, <1>4, ScopesStay
<1>8. ScopeOpen'
    BY <1>2, <1>3 DEF ScopeOpen
<1> QED BY <1>4, <1>5, <1>6, <1>7, <1>8 DEF IInv, Pipes

\* Once every stage took its ends, the shell closes its own.
LEMMA PipelineStartedStep ==
    ASSUME IInv, PipelineStarted
    PROVE  IInv'
<1>1. TypeOK /\ Scopes /\ Pipes /\ pipes # <<>>
    BY DEF IInv, PipelineStarted
<1>2. todo = <<>>
    BY <1>1, ScopeWaits DEF Busy
<1>3. /\ sh' = [sh EXCEPT !.tab = ClosePipes(@)] /\ pipes' = <<>>
      /\ \A i \in DOMAIN stages : stages[i].state # "forked"
      /\ UNCHANGED <<frames, todo, stages>>
    BY DEF PipelineStarted
<1>4. sh' \in Process /\ PipesOpen' /\ OnlyPipes' /\ Base' = Base
    BY <1>3, CloseStep
<1>5. TypeOK'
    BY <1>1, <1>3, <1>4 DEF TypeOK
<1>6. Forked'
    BY <1>3 DEF Forked
<1>7. OwnEnds' /\ Shorter' /\ Connected'
    BY <1>1, <1>3, <1>4 DEF Pipes, OwnEnds, Owns, Shorter, Connected, Reads
<1>8. Scopes'
    BY <1>1, <1>3, <1>4, ScopesStay
<1>9. ScopeOpen'
    BY <1>2, <1>3 DEF ScopeOpen
<1> QED BY <1>4, <1>5, <1>6, <1>7, <1>8, <1>9 DEF IInv, Pipes

-------------------------------------------------------------------------------
(* The steps of one stage.                                                   *)

\* A step of one stage leaves the shell and the other stages.
LEMMA StageStep ==
    ASSUME IInv, UNCHANGED <<sh, frames, todo, pipes>>,
           NEW i \in DOMAIN stages, NEW s \in Stage, stages' = [stages EXCEPT ![i] = s],
           Len(s.todo) <= Len(s.list),
           s.state = "forked" => /\ s.p.tab = sh.tab /\ s.todo = s.list
                                 /\ Len(pipes) = Len(stages) - 1,
           s.state = "wired" => Owns(s, i) /\ Reads(s, i, Len(stages))
    PROVE  IInv'
<1>1. TypeOK /\ Scopes /\ Pipes /\ stages \in Seq(Stage) /\ stages # <<>>
    BY DEF IInv, TypeOK
<1>2. todo = <<>>
    BY <1>1, ScopeWaits DEF Busy
<1>3. /\ stages' \in Seq(Stage) /\ Len(stages') = Len(stages)
      /\ DOMAIN stages' = DOMAIN stages /\ stages'[i] = s
      /\ \A j \in DOMAIN stages : j # i => stages'[j] = stages[j]
    BY <1>1
<1>4. Base' = Base
    BY DEF Base, ClosePipes
<1>5. TypeOK'
    BY <1>1, <1>3 DEF TypeOK
<1>6. PipesOpen' /\ OnlyPipes'
    BY <1>1 DEF Pipes, PipesOpen, OnlyPipes
<1>7. Forked'
    BY <1>1, <1>3 DEF Pipes, Forked
<1>8. OwnEnds'
    <2>1. SUFFICES ASSUME NEW j \in DOMAIN stages, stages'[j].state = "wired"
                   PROVE  Owns(stages'[j], j)
        BY <1>3 DEF OwnEnds, Owns
    <2>2. CASE j = i
        BY <2>1, <2>2, <1>3
    <2>3. CASE j # i
        <3>1. stages'[j] = stages[j]
            BY <2>3, <1>3
        <3> QED BY <2>1, <3>1, <1>1 DEF Pipes, OwnEnds
    <2> QED BY <2>2, <2>3
<1>9. Connected'
    <2>1. ASSUME NEW j \in DOMAIN stages, stages'[j].state = "wired"
          PROVE  Reads(stages'[j], j, Len(stages))
        <3>1. CASE j = i
            BY <2>1, <3>1, <1>3
        <3>2. CASE j # i
            <4>1. stages'[j] = stages[j]
                BY <3>2, <1>3
            <4> QED BY <2>1, <4>1, <1>1 DEF Pipes, Connected
        <3> QED BY <3>1, <3>2
    <2> DEFINE n == Len(stages)
    <2>2. DOMAIN stages' = DOMAIN stages /\ Len(stages') = n
        BY <1>3
    <2>3. SUFFICES ASSUME NEW j \in DOMAIN stages, stages'[j].state = "wired",
                          stages'[j].todo = stages'[j].list, Base[0] # Closed, Base[1] # Closed
                   PROVE  /\ stages'[j].p.tab[0] = IF j = 1 THEN Base[0] ELSE ReadOf(j - 1)
                          /\ stages'[j].p.tab[1] = IF j = n THEN Base[1] ELSE WriteOf(j)
        <3> HIDE DEF n
        <3> QED BY <2>2, <1>4 DEF Connected, Reads
    <2> QED BY <2>1, <2>3 DEF Reads
<1>10. Shorter'
    BY <1>1, <1>3 DEF Pipes, Shorter
<1>11. Scopes'
    BY <1>1, <1>4, ScopesStay
<1>12. ScopeOpen'
    BY <1>2 DEF ScopeOpen
<1> QED BY <1>5, <1>6, <1>7, <1>8, <1>9, <1>10, <1>11, <1>12 DEF IInv, Pipes

\* A stage is forked with the shell's table.
LEMMA ForkStageStep ==
    ASSUME IInv, NEW list \in Seq(Redirs), ForkStage(list)
    PROVE  IInv'
<1>1. /\ TypeOK /\ sh \in Process /\ stages \in Seq(Stage)
    BY DEF IInv, TypeOK
<1> DEFINE i == CHOOSE i \in Unborn : \A j \in Unborn : i <= j
           s == NewStage(list)
<1>2. /\ Len(pipes) = Len(stages) - 1 /\ Unborn # {} /\ stages' = [stages EXCEPT ![i] = s]
      /\ UNCHANGED <<sh, frames, todo, pipes>>
    BY DEF ForkStage
<1>3. i \in DOMAIN stages
    <2>1. Unborn \in SUBSET Nat /\ Unborn \subseteq DOMAIN stages
        BY <1>1 DEF Unborn
    <2>2. i \in Unborn
        BY <2>1, <1>2, LeastOf
    <2> QED BY <2>1, <2>2
<1>4. /\ s \in Stage /\ s.state = "forked" /\ s.p = sh /\ s.todo = s.list /\ s.list = list
    BY <1>1 DEF NewStage, Stage
<1> HIDE DEF i, s
<1>5. Len(s.todo) <= Len(s.list)
    BY <1>4
<1>6. PICK c \in DOMAIN stages : c = i
    BY <1>3
<1>7. PICK z \in Stage : z = s
    BY <1>4
<1>8. /\ stages' = [stages EXCEPT ![c] = z]
      /\ Len(z.todo) <= Len(z.list)
      /\ z.state = "forked" => /\ z.p.tab = sh.tab /\ z.todo = z.list
                               /\ Len(pipes) = Len(stages) - 1
      /\ z.state # "wired"
    BY <1>2, <1>4, <1>5, <1>6, <1>7
<1> QED BY <1>2, <1>8, StageStep

\* A command on its own is a pipeline of one stage, which needs no ends.
LEMMA RunCommandStep ==
    ASSUME IInv, NEW list \in Seq(Redirs), RunCommand(list)
    PROVE  IInv'
<1> DEFINE s == [NewStage(list) EXCEPT !.state = "wired"]
<1>1. /\ TypeOK /\ Scopes /\ Pipes /\ sh \in Process
    BY DEF IInv, TypeOK
<1>2. /\ pipes = <<>> /\ todo = <<>> /\ stages' = <<s>>
      /\ UNCHANGED <<sh, frames, todo, pipes>>
    BY DEF RunCommand, Ready, Busy
<1>3. /\ s \in Stage /\ s.state = "wired" /\ s.p = sh /\ s.todo = s.list /\ s.list = list
    BY <1>1 DEF NewStage, Stage
<1> HIDE DEF s
<1>4. stages' \in Seq(Stage) /\ Len(stages') = 1 /\ DOMAIN stages' = {1} /\ stages'[1] = s
    BY <1>2, <1>3
<1>5. Base = sh.tab /\ Base' = Base
    <2>1. Base = sh.tab
        BY <1>1, <1>2, BaseFacts
    <2>2. Base' = Base
        BY <1>2 DEF Base, ClosePipes
    <2> QED BY <2>1, <2>2
<1>6. TypeOK'
    BY <1>1, <1>2, <1>4 DEF TypeOK
<1>7. PipesOpen' /\ OnlyPipes'
    BY <1>1, <1>2 DEF Pipes, PipesOpen, OnlyPipes
<1>8. Forked' /\ Shorter'
    <2>1. Forked'
        BY <1>3, <1>4 DEF Forked
    <2>2. Shorter'
        BY <1>3, <1>4 DEF Shorter
    <2> QED BY <2>1, <2>2
<1>9. OwnEnds'
    <2>1. \A fd \in Fds : NoEnd(s.p.tab[fd])
        BY <1>1, <1>3, <1>5, BaseQuiet DEF Pipes
    <2> QED BY <2>1, <1>4 DEF OwnEnds, Owns, NoEnd
<1>10. Connected'
    BY <1>3, <1>4, <1>5 DEF Connected, Reads
<1>11. Scopes'
    BY <1>1, <1>2, <1>5, ScopesStay
<1>12. ScopeOpen'
    BY <1>2 DEF ScopeOpen
<1> QED BY <1>6, <1>7, <1>8, <1>9, <1>10, <1>11, <1>12 DEF IInv, Pipes

\* A stage that wired 0 and 1 and closed all pipes has its own two ends only.
LEMMA PipeChildStep ==
    ASSUME IInv, NEW i \in DOMAIN stages, PipeChild(i)
    PROVE  IInv'
<1> DEFINE old == stages[i]
           w == Wire(i, sh.tab)
           t == ClosePipes(w)
           s == [old EXCEPT !.state = "wired", !.p.tab = t]
           n == Len(stages)
<1>1. /\ TypeOK /\ Pipes /\ stages \in Seq(Stage) /\ sh.tab \in Tables
    BY BaseFacts DEF IInv, TypeOK
<1>2. old \in Stage /\ i \in 1..n /\ n \in Nat
    BY <1>1
<1>3. /\ old.p.tab = sh.tab /\ old.todo = old.list /\ Len(pipes) = Len(stages) - 1
    BY <1>1 DEF PipeChild, Pipes, Forked
<1>4. UNCHANGED <<sh, frames, todo, pipes>> /\ stages' = [stages EXCEPT ![i] = s]
    BY <1>3 DEF PipeChild
<1>5. /\ w \in Tables
      /\ \A g \in Fds : g # 0 /\ g # 1 => w[g] = sh.tab[g]
      /\ i > 1 => w[0] = ReadOf(i - 1)
      /\ i = 1 => w[0] = sh.tab[0]
      /\ i < n => \/ w[1] = WriteOf(i)
                  \/ i > 1 /\ pipes[i][2] = 0 /\ w[1] = ReadOf(i - 1)
      /\ i = n => w[1] = sh.tab[1]
    BY <1>1, <1>3, WireFacts DEF Pipes
<1> HIDE DEF w
<1>6. t \in Tables
    BY <1>5, ClosePipesFacts
<1> DEFINE piped(fd) == \E k \in DOMAIN pipes : fd \in {pipes[k][1], pipes[k][2]}
<1>7. \A fd \in Fds : t[fd] = IF piped(fd) THEN Closed ELSE w[fd]
    BY DEF ClosePipes
<1>8. \A fd \in Fds : Base[fd] = IF piped(fd) THEN Closed ELSE sh.tab[fd]
    BY DEF Base, ClosePipes
<1> HIDE DEF t
<1>9. /\ s \in Stage /\ s.state = "wired" /\ s.todo = old.todo /\ s.list = old.list
      /\ s.p.tab = t
    BY <1>2, <1>6 DEF Stage, Process, Tables
<1> HIDE DEF s, piped
<1>10. 0 \in Fds /\ 1 \in Fds
    BY FdFacts
<1>11. \A fd \in Fds : NoEnd(Base[fd])
    BY <1>1, BaseQuiet DEF Pipes
<1>12. Owns(s, i)
    <2>1. SUFFICES ASSUME NEW fd \in Fds, NEW k \in Nat, t[fd] = WriteOf(k) \/ t[fd] = ReadOf(k)
                   PROVE  /\ t[fd] = WriteOf(k) => i = k
                          /\ t[fd] = ReadOf(k) => i = k + 1
        BY <1>9 DEF Owns
    <2>2. t[fd] # Closed
        BY <2>1, ObjectFacts
    <2>3. t[fd] = w[fd] /\ Base[fd] = sh.tab[fd]
        BY <2>2, <1>7, <1>8
    <2>4. sh.tab[fd] # WriteOf(k) /\ sh.tab[fd] # ReadOf(k)
        BY <2>3, <1>11 DEF NoEnd
    <2>5. \/ w[fd] = WriteOf(i)
          \/ i > 1 /\ w[fd] = ReadOf(i - 1)
        BY <2>1, <2>3, <2>4, <1>2, <1>5
    <2>6. i \in Nat /\ (i > 1 => i - 1 \in Nat)
        BY <1>2
    <2>7. CASE w[fd] = WriteOf(i)
        <3>1. t[fd] # ReadOf(k) /\ (t[fd] = WriteOf(k) => i = k)
            BY <2>3, <2>6, <2>7, ObjectFacts
        <3> QED BY <3>1
    <2>8. CASE i > 1 /\ w[fd] = ReadOf(i - 1)
        <3>1. t[fd] # WriteOf(k) /\ (t[fd] = ReadOf(k) => i - 1 = k)
            BY <2>3, <2>6, <2>8, ObjectFacts
        <3> QED BY <3>1, <2>6
    <2> QED BY <2>5, <2>7, <2>8
<1>13. Reads(s, i, Len(stages))
    <2>1. SUFFICES ASSUME Base[0] # Closed, Base[1] # Closed
                   PROVE  /\ t[0] = IF i = 1 THEN Base[0] ELSE ReadOf(i - 1)
                          /\ t[1] = IF i = n THEN Base[1] ELSE WriteOf(i)
        BY <1>9 DEF Reads
    <2>2. /\ ~piped(0) /\ ~piped(1) /\ t[0] = w[0] /\ t[1] = w[1]
          /\ Base[0] = sh.tab[0] /\ Base[1] = sh.tab[1]
        BY <2>1, <1>7, <1>8, <1>10
    <2>3. i < n => pipes[i][2] # 0
        <3>1. i < n => i \in DOMAIN pipes
            <4>1. DOMAIN pipes = 1..(n - 1)
                BY <1>1, <1>3 DEF TypeOK
            <4> QED BY <4>1, <1>2
        <3> QED BY <3>1, <2>2 DEF piped
    <2>4. t[0] = IF i = 1 THEN Base[0] ELSE ReadOf(i - 1)
        BY <2>2, <1>2, <1>5
    <2>5. t[1] = IF i = n THEN Base[1] ELSE WriteOf(i)
        BY <2>2, <2>3, <1>2, <1>5
    <2> QED BY <2>4, <2>5
<1>14. Len(s.todo) <= Len(s.list)
    BY <1>1, <1>9 DEF Pipes, Shorter
<1>15. PICK z \in Stage : z = s
    BY <1>9
<1>16. /\ stages' = [stages EXCEPT ![i] = z] /\ Len(z.todo) <= Len(z.list)
       /\ z.state # "forked" /\ Owns(z, i) /\ Reads(z, i, Len(stages))
    BY <1>4, <1>9, <1>12, <1>13, <1>14, <1>15 DEF s
<1> QED BY <1>4, <1>16, StageStep

\* A table with nothing new has no more ends of pipes.
LEMMA OwnsStays ==
    ASSUME NEW s, NEW q, NEW i, Owns(s, i), NothingNew(s.p.tab, q.p.tab)
    PROVE  Owns(q, i)
BY DEF Owns, NothingNew, NoEnd

\* Its own redirections bring a stage no end of a pipe.
LEMMA StageRedirStep ==
    ASSUME IInv, NEW i \in DOMAIN stages, StageRedir(i)
    PROVE  IInv'
<1> DEFINE old == stages[i]
           r == Head(old.todo)
<1>1. /\ TypeOK /\ Pipes /\ stages \in Seq(Stage)
    BY DEF IInv, TypeOK
<1>2. old \in Stage
    BY <1>1
<1>3. /\ old.p \in Process /\ old.todo \in Seq(Redirs) /\ old.list \in Seq(Redirs)
      /\ old.todo # <<>> /\ old.state = "wired"
    BY <1>2 DEF StageRedir, Stage
<1>4. /\ r \in Redirs /\ Tail(old.todo) \in Seq(Redirs)
      /\ Len(Tail(old.todo)) = Len(old.todo) - 1 /\ Len(old.todo) \in Nat
    BY <1>3, HeadTailProperties
<1>5. PICK out \in ApplyOneRedir(old.p, r) :
          stages' = [stages EXCEPT ![i].p = out.p, ![i].todo = Tail(@),
                                   ![i].state = IF out.ok THEN "wired" ELSE "dead"]
    BY DEF StageRedir
<1>6. out.p \in Process /\ NothingNew(old.p.tab, out.p.tab)
    BY <1>3, <1>4, <1>5, RedirFacts
<1> DEFINE s == [old EXCEPT !.p = out.p, !.todo = Tail(@),
                            !.state = IF out.ok THEN "wired" ELSE "dead"]
<1>7. stages' = [stages EXCEPT ![i] = s] /\ UNCHANGED <<sh, frames, todo, pipes>>
    BY <1>5 DEF StageRedir
<1>8. /\ s \in Stage /\ s.state # "forked" /\ s.todo = Tail(old.todo) /\ s.list = old.list
      /\ s.p = out.p
    BY <1>2, <1>4, <1>6 DEF Stage
<1> HIDE DEF s, r
<1>9. Len(old.todo) <= Len(old.list) /\ Len(old.list) \in Nat
    BY <1>1, <1>3 DEF Pipes, Shorter
<1>10. Len(s.todo) < Len(s.list) /\ Len(s.todo) <= Len(s.list) /\ s.todo # s.list
    <2>1. Len(s.todo) < Len(s.list) /\ Len(s.todo) \in Nat /\ Len(s.list) \in Nat
        BY <1>4, <1>8, <1>9
    <2> QED BY <2>1
<1>11. Owns(s, i)
    <2>1. Owns(old, i)
        BY <1>1, <1>3 DEF Pipes, OwnEnds
    <2>2. NothingNew(old.p.tab, s.p.tab)
        BY <1>6, <1>8
    <2> HIDE DEF old
    <2> QED BY <2>1, <2>2, OwnsStays
<1>12. Reads(s, i, Len(stages))
    BY <1>10 DEF Reads
<1>13. PICK z \in Stage : z = s
    BY <1>8
<1>14. /\ stages' = [stages EXCEPT ![i] = z] /\ Len(z.todo) <= Len(z.list)
       /\ z.state # "forked" /\ Owns(z, i) /\ Reads(z, i, Len(stages))
    BY <1>7, <1>8, <1>10, <1>11, <1>12, <1>13
<1> QED BY <1>7, <1>14, StageStep

\* A stage that dies has no descriptors to speak of.
LEMMA StageDiesStep ==
    ASSUME IInv, NEW i \in DOMAIN stages, StageDies(i)
    PROVE  IInv'
<1> DEFINE s == [stages[i] EXCEPT !.state = "dead"]
<1>1. Pipes /\ stages \in Seq(Stage)
    BY DEF IInv, TypeOK
<1>2. stages[i] \in Stage
    BY <1>1
<1>3. stages' = [stages EXCEPT ![i] = s] /\ UNCHANGED <<sh, frames, todo, pipes>>
    BY DEF StageDies
<1>4. /\ s \in Stage /\ s.state = "dead" /\ s.todo = stages[i].todo /\ s.list = stages[i].list
    BY <1>2 DEF Stage
<1> HIDE DEF s
<1>5. Len(s.todo) <= Len(s.list)
    BY <1>1, <1>4 DEF Pipes, Shorter
<1>6. PICK z \in Stage : z = s
    BY <1>4
<1>7. /\ stages' = [stages EXCEPT ![i] = z] /\ Len(z.todo) <= Len(z.list)
      /\ z.state # "forked" /\ z.state # "wired"
    BY <1>3, <1>4, <1>5, <1>6
<1> QED BY <1>3, <1>7, StageStep

\* A pipeline whose stages are gone leaves the shell as it is.
LEMMA WaitedStep ==
    ASSUME IInv, Waited
    PROVE  IInv'
<1>1. TypeOK /\ Scopes /\ Pipes /\ stages # <<>>
    BY DEF IInv, Waited
<1>2. todo = <<>>
    BY <1>1, ScopeWaits DEF Busy
<1>3. stages' = <<>> /\ UNCHANGED <<sh, frames, todo, pipes>>
    BY DEF Waited
<1>4. TypeOK'
    BY <1>1, <1>3 DEF TypeOK
<1>5. PipesOpen' /\ OnlyPipes'
    BY <1>1, <1>3 DEF Pipes, PipesOpen, OnlyPipes
<1>6. (Forked /\ OwnEnds /\ Connected /\ Shorter)'
    BY <1>3 DEF Forked, OwnEnds, Connected, Shorter
<1>7. Scopes'
    <2>1. Base' = Base
        BY <1>3 DEF Base, ClosePipes
    <2> QED BY <2>1, <1>1, <1>3, ScopesStay
<1>8. ScopeOpen'
    BY <1>2, <1>3 DEF ScopeOpen
<1> QED BY <1>4, <1>5, <1>6, <1>7, <1>8 DEF IInv, Pipes

-------------------------------------------------------------------------------
(* The theorems.                                                             *)

\* The shell starts with its three descriptors, or those it was given.
LEMMA InitIInv == Init => IInv
<1> SUFFICES ASSUME Init PROVE IInv
    OBVIOUS
<1>1. PICK gone \in SUBSET StartClosed :
          sh = [tab |-> [fd \in Fds |-> IF fd <= 2 /\ fd \notin gone THEN Std(fd) ELSE Closed],
                held |-> NoFd]
    BY DEF Init
<1>2. frames = <<>> /\ todo = <<>> /\ pipes = <<>> /\ stages = <<>>
    BY DEF Init
<1>3. \A fd \in Fds : sh.tab[fd] = Closed \/ sh.tab[fd] = Std(fd)
    BY <1>1
<1>4. \A fd \in Fds : /\ Std(fd) \in Objects /\ Closed \in Objects
                      /\ NoEnd(Std(fd)) /\ NoEnd(Closed)
    BY ObjectFacts, FdFacts
<1>5. TypeOK
    <2>1. sh \in Process
        BY <1>1, <1>4 DEF Process
    <2> QED BY <1>2, <2>1 DEF TypeOK
<1>6. OnlyPipes
    BY <1>3, <1>4 DEF OnlyPipes, NoEnd
<1>7. DOMAIN frames = {} /\ DOMAIN pipes = {} /\ DOMAIN stages = {}
    BY <1>2
<1>8. PipesOpen /\ Forked /\ OwnEnds /\ Connected /\ Shorter
    BY <1>7 DEF PipesOpen, Forked, OwnEnds, Connected, Shorter
<1>9. Scopes
    BY <1>7 DEF Scopes, Kept, Copies, Apart
<1>10. ScopeOpen
    BY <1>2 DEF ScopeOpen
<1> QED BY <1>5, <1>6, <1>8, <1>9, <1>10 DEF IInv, Pipes

\* A step that drops a frame gives back what the scope did not redirect.
StepUndoes == Len(frames') < Len(frames) => Undone

\* Every step keeps the invariant, and only the end of a scope drops a frame.
LEMMA StepIInv == IInv /\ [Next]_vars => IInv' /\ StepUndoes
<1> SUFFICES ASSUME IInv, [Next]_vars PROVE IInv' /\ StepUndoes
    OBVIOUS
<1> DEFINE n == Len(frames)
<1>1. n \in Nat /\ frames \in Seq(Frame) /\ ~ (n < n)
    BY DEF IInv, TypeOK
<1>2. ASSUME frames' = frames PROVE StepUndoes
    BY <1>1, <1>2 DEF StepUndoes
<1>3. ASSUME NEW list \in Lists, BeginScope(list) PROVE IInv' /\ StepUndoes
    <2>1. list \in Seq(Redirs)
        BY DescriptorsAssumption
    <2>2. IInv'
        BY <1>3, <2>1, BeginScopeStep
    <2>3. frames' = Append(frames, frames'[n + 1]) /\ Len(frames') = n + 1
        BY <1>1, <1>3 DEF BeginScope
    <2> QED BY <2>2, <2>3, <1>1 DEF StepUndoes
<1>4. CASE ApplyRedir
    <2>1. IInv'
        BY <1>4, ApplyRedirStep
    <2>2. Len(frames') = n
        <3>1. PICK out : frames' = Touch(Head(todo).fd, IF sh.held = out.p.held THEN NoFd
                                                      ELSE sh.held)
            BY <1>4 DEF ApplyRedir
        <3>2. DOMAIN frames' = DOMAIN frames
            BY <3>1 DEF Touch
        <3>3. frames' \in Seq(Frame)
            BY <2>1 DEF IInv, TypeOK
        <3> QED BY <3>2, <3>3, <1>1
    <2> QED BY <2>1, <2>2, <1>1 DEF StepUndoes
<1>5. CASE RedirFails
    BY <1>5, RedirFailsStep DEF StepUndoes
<1>6. CASE EndScope
    BY <1>6, EndScopeStep DEF StepUndoes
<1>7. CASE HoldBody
    BY <1>2, <1>7, HoldBodyStep DEF HoldBody
<1>8. CASE FreeLine
    BY <1>2, <1>8, FreeLineStep DEF FreeLine
<1>9. CASE Pipeline
    <2>1. ASSUME NEW k \in 2..MaxStages, StartPipeline(k) PROVE IInv' /\ frames' = frames
        <3>1. k \in Nat
            BY DescriptorsAssumption
        <3> QED BY <2>1, <3>1, StartPipelineStep DEF StartPipeline
    <2>2. CASE OpenPipes
        BY <1>2, <2>2, OpenPipesStep DEF OpenPipes
    <2>3. CASE PipelineFails
        BY <1>2, <2>3, PipelineFailsStep DEF PipelineFails
    <2>4. CASE PipelineStarted
        BY <1>2, <2>4, PipelineStartedStep DEF PipelineStarted
    <2>5. CASE Waited
        BY <1>2, <2>5, WaitedStep DEF Waited
    <2>6. ASSUME NEW list \in StageLists, ForkStage(list) PROVE IInv' /\ frames' = frames
        <3>1. list \in Seq(Redirs)
            BY DescriptorsAssumption
        <3> QED BY <2>6, <3>1, ForkStageStep DEF ForkStage
    <2>7. ASSUME NEW list \in Lists, RunCommand(list) PROVE IInv' /\ frames' = frames
        <3>1. list \in Seq(Redirs)
            BY DescriptorsAssumption
        <3> QED BY <2>7, <3>1, RunCommandStep DEF RunCommand
    <2>8. ASSUME NEW i \in DOMAIN stages, PipeChild(i) PROVE IInv' /\ frames' = frames
        BY <2>8, PipeChildStep DEF PipeChild
    <2>9. ASSUME NEW i \in DOMAIN stages, StageRedir(i) PROVE IInv' /\ frames' = frames
        BY <2>9, StageRedirStep DEF StageRedir
    <2>10. ASSUME NEW i \in DOMAIN stages, StageDies(i) PROVE IInv' /\ frames' = frames
        BY <2>10, StageDiesStep DEF StageDies
    <2> QED BY <1>2, <1>9, <2>1, <2>2, <2>3, <2>4, <2>5, <2>6, <2>7, <2>8, <2>9, <2>10
            DEF Pipeline
<1>10. CASE UNCHANGED vars
    <2>1. /\ sh' = sh /\ frames' = frames /\ todo' = todo /\ pipes' = pipes
          /\ stages' = stages
        BY <1>10 DEF vars
    <2>2. Base' = Base
        BY <2>1 DEF Base, ClosePipes
    <2>3. Scopes'
        BY <2>1, <2>2, ScopesStay DEF IInv
    <2>4. TypeOK' /\ ScopeOpen'
        BY <2>1 DEF IInv, TypeOK, ScopeOpen, Busy
    <2>5. Pipes'
        BY <2>1, <2>2 DEF IInv, Pipes, PipesOpen, OnlyPipes, Forked, OwnEnds, Owns,
                          Connected, Reads, Shorter
    <2> QED BY <2>1, <2>3, <2>4, <2>5, <1>2 DEF IInv
<1> QED BY <1>3, <1>4, <1>5, <1>6, <1>7, <1>8, <1>9, <1>10 DEF Next, Scope

\* The invariant holds in every reachable state.
THEOREM Invariant == Spec => []IInv
<1>1. IInv /\ [Next]_vars => IInv'
    BY StepIInv
<1> QED BY InitIInv, <1>1, PTL DEF Spec

\* Every table maps descriptors to open files, in the shell and in every stage.
THEOREM TypeCorrect == Spec => []TypeOK
<1>1. IInv => TypeOK
    BY DEF IInv
<1> QED BY Invariant, <1>1, PTL

\* Once a pipeline runs, each end of a pipe is open in one stage at most.
THEOREM PipesEndCorrect == Spec => []PipesEnd
<1>1. IInv => PipesEnd
    <2> SUFFICES ASSUME IInv, Started, NEW k \in 1..(MaxStages - 1)
                 PROVE  /\ ~Holds(sh.tab, ReadOf(k)) /\ ~Holds(sh.tab, WriteOf(k))
                        /\ \A i \in DOMAIN stages :
                              stages[i].state = "wired" =>
                                 /\ Holds(stages[i].p.tab, WriteOf(k)) => i = k
                                 /\ Holds(stages[i].p.tab, ReadOf(k)) => i = k + 1
        BY DEF PipesEnd
    <2>1. k \in Nat
        BY DescriptorsAssumption
    <2>2. DOMAIN pipes = {}
        BY DEF Started
    <2>3. ~Holds(sh.tab, ReadOf(k)) /\ ~Holds(sh.tab, WriteOf(k))
        BY <2>1, <2>2 DEF IInv, Pipes, OnlyPipes, Holds
    <2>4. \A i \in DOMAIN stages : stages[i].state = "wired" => Owns(stages[i], i)
        BY DEF IInv, Pipes, OwnEnds
    <2>5. ASSUME NEW i \in DOMAIN stages, stages[i].state = "wired"
          PROVE  /\ Holds(stages[i].p.tab, WriteOf(k)) => i = k
                 /\ Holds(stages[i].p.tab, ReadOf(k)) => i = k + 1
        <3>1. Owns(stages[i], i)
            BY <2>4, <2>5
        <3> DEFINE t == stages[i].p.tab
        <3>2. \A fd \in Fds : \A m \in Nat : /\ t[fd] = WriteOf(m) => i = m
                                             /\ t[fd] = ReadOf(m) => i = m + 1
            BY <3>1 DEF Owns
        <3> HIDE DEF t
        <3>3. \A fd \in Fds : t[fd] = WriteOf(k) => i = k
            BY <2>1, <3>2, Zenon
        <3>4. \A fd \in Fds : t[fd] = ReadOf(k) => i = k + 1
            BY <2>1, <3>2, Zenon
        <3>5. Holds(t, WriteOf(k)) => i = k
            BY <3>3 DEF Holds
        <3>6. Holds(t, ReadOf(k)) => i = k + 1
            BY <3>4 DEF Holds
        <3> QED BY <3>5, <3>6 DEF t
    <2> QED BY <2>3, <2>5
<1> QED BY Invariant, <1>1, PTL

\* Every stage reads what the stage before it writes.
THEOREM StagesConnectedCorrect == Spec => []StagesConnected
<1>1. IInv => StagesConnected
    <2> SUFFICES ASSUME IInv, NEW i \in DOMAIN stages, Started, stages[i].state = "wired",
                        stages[i].todo = stages[i].list, IsOpen(sh.tab, 0), IsOpen(sh.tab, 1)
                 PROVE  /\ stages[i].p.tab[0] = IF i = 1 THEN sh.tab[0] ELSE ReadOf(i - 1)
                        /\ stages[i].p.tab[1] =
                               IF i = Len(stages) THEN sh.tab[1] ELSE WriteOf(i)
        BY DEF StagesConnected
    <2>1. Base = sh.tab
        BY BaseFacts DEF IInv, Started
    <2>2. Reads(stages[i], i, Len(stages))
        BY DEF IInv, Pipes, Connected
    <2> QED BY <2>1, <2>2 DEF Reads, IsOpen
<1> QED BY Invariant, <1>1, PTL

\* A scope that ends, or fails half way, leaves everything as it was before but
\* for what was redirected by name above 2.
THEOREM ScopesUndoneCorrect == Spec => ScopesUndone
<1>1. IInv /\ [Next]_vars =>
        [Len(frames') < Len(frames) /\ Safe(Top) =>
            \A fd \in Fds : fd \notin Top.touched => sh'.tab[fd] = Top.before[fd]]_vars
    BY StepIInv DEF StepUndoes, Undone
<1> QED BY Invariant, <1>1, PTL DEF Spec, ScopesUndone
===============================================================================
