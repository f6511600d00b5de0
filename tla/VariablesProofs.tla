---------------------------- MODULE VariablesProofs ----------------------------
(***************************************************************************)
(* Proofs about Variables, for every set of names, values and directories, *)
(* any assignments before a command and any depth of nesting.              *)
(*                                                                         *)
(* IInv adds to the properties what the proofs need: which frame is at     *)
(* which stage, and what a saved entry holds.                              *)
(***************************************************************************)
EXTENDS Variables, SequenceTheorems, WellFoundedInduction, TLAPS

-------------------------------------------------------------------------------
(* What the functions on a shell do to its parts.                            *)

Given == Values \cup {Null}

\* The places: PATH is a name, values are told apart from their absence.
LEMMA ConstantFacts ==
    /\ "PATH" \in Names /\ Identifiers \subseteq Names
    /\ Absent \notin Given /\ Null \in Stored /\ Given \subseteq Stored
    /\ Forgotten \in [Commands -> Paths \cup {NoPath}]
BY VariablesAssumption DEF Given, Stored, Forgotten

\* VarSet changes the value of one identifier, and at most empties the cache.
LEMMA VarSetFacts ==
    ASSUME NEW s \in ShellRecord, NEW n \in Identifiers, NEW v \in Given
    PROVE  /\ VarSet(s, n, v) \in ShellRecord
           /\ VarSet(s, n, v).value = [s.value EXCEPT ![n] = v]
           /\ VarSet(s, n, v).exported = s.exported
           /\ VarSet(s, n, v).hash =
                  IF n = "PATH" /\ s.value[n] # Absent THEN Forgotten ELSE s.hash
BY ConstantFacts DEF VarSet, Var, ShellRecord

\* VarUnset removes value and flag of one name, or changes nothing.
LEMMA VarUnsetFacts ==
    ASSUME NEW s \in ShellRecord, NEW n \in Names, s.value[n] # Absent
    PROVE  /\ VarUnset(s, n) \in ShellRecord
           /\ VarUnset(s, n).value = [s.value EXCEPT ![n] = Absent]
           /\ VarUnset(s, n).exported = s.exported \ {n}
           /\ VarUnset(s, n).hash = IF n = "PATH" THEN Forgotten ELSE s.hash
BY ConstantFacts DEF VarUnset, Var, ShellRecord, Stored

\* Setting a flag and the dirty bit leaves the rest of a shell.
Flagged(s, n) == [s EXCEPT !.exported = @ \cup {n}, !.dirty = TRUE]

LEMMA FlagFacts ==
    ASSUME NEW s \in ShellRecord, NEW n \in Names
    PROVE  /\ Flagged(s, n) \in ShellRecord
           /\ Flagged(s, n).value = s.value
           /\ Flagged(s, n).exported = s.exported \cup {n}
           /\ Flagged(s, n).hash = s.hash
BY DEF ShellRecord, Flagged

\* VarExport sets a flag; a name with no variable gets one with no value.
LEMMA VarExportFacts ==
    ASSUME NEW s \in ShellRecord, NEW n \in Identifiers
    PROVE  /\ VarExport(s, n) \in ShellRecord
           /\ VarExport(s, n).value = [s.value EXCEPT ![n] = VarGetValue(s, n)]
           /\ VarExport(s, n).exported = s.exported \cup {n}
           /\ \/ s.value[n] # Absent /\ VarExport(s, n).hash = s.hash
              \/ s.value[n] = Absent /\ VarExport(s, n).hash = VarSet(s, n, Null).hash
<1>1. CASE s.value[n] = Absent
    <2>1. Null \in Given
        BY DEF Given
    <2>2. VarExport(s, n) = [VarSet(s, n, Null) EXCEPT !.exported = @ \cup {n}, !.dirty = TRUE]
        BY <1>1 DEF VarExport, Var
    <2>3. VarGetValue(s, n) = Null
        BY <1>1 DEF VarGetValue, Var
    <2> DEFINE t == VarSet(s, n, Null)
    <2>4. /\ t \in ShellRecord /\ t.value = [s.value EXCEPT ![n] = Null]
          /\ t.exported = s.exported
        BY <2>1, VarSetFacts
    <2>5. n \in Names
        BY ConstantFacts
    <2>6. /\ VarExport(s, n) \in ShellRecord /\ VarExport(s, n).value = t.value
          /\ VarExport(s, n).exported = t.exported \cup {n} /\ VarExport(s, n).hash = t.hash
        <3> HIDE DEF t
        <3>1. VarExport(s, n) = Flagged(t, n)
            BY <2>2 DEF t, Flagged
        <3> QED BY <3>1, <2>4, <2>5, FlagFacts
    <2> QED BY <1>1, <2>3, <2>4, <2>6
<1>2. CASE s.value[n] # Absent
    <2>1. VarExport(s, n) = Flagged(s, n)
        BY <1>2 DEF VarExport, Var, Flagged
    <2>2. [s.value EXCEPT ![n] = VarGetValue(s, n)] = s.value
        BY <1>2, ConstantFacts DEF VarGetValue, Var, ShellRecord
    <2> QED BY <1>2, <2>1, <2>2, ConstantFacts, FlagFacts
<1> QED BY <1>1, <1>2

\* A nonempty set of indices has a least one.
LEMMA LeastIndex ==
    ASSUME NEW T \in SUBSET Nat, T # {}
    PROVE  \E x \in T : \A y \in T : x <= y
<1> DEFINE R == OpToRel(<, Nat)
<1>1. \E x \in T : \A y \in T : ~ (<<y, x>> \in R)
    BY NatLessThanWellFounded, WFMin
<1>2. R = {p \in Nat \X Nat : p[1] < p[2]}
    BY DEF OpToRel
<1> HIDE DEF R
<1>3. \A x, y \in Nat : y < x => <<y, x>> \in R
    BY <1>2
<1>4. PICK x \in T : \A y \in T : ~ (<<y, x>> \in R)
    BY <1>1
<1>5. ASSUME NEW y \in T PROVE x <= y
    <2>1. x \in Nat /\ y \in Nat
        OBVIOUS
    <2>2. ~ (y < x)
        BY <1>3, <1>4, <2>1
    <2> QED BY <2>1, <2>2
<1> QED BY <1>5

\* A search returns the path of a file in a directory that PATH lists.
LEMMA SearchPathFacts ==
    ASSUME NEW v \in Values, NEW c \in Commands, SearchPath(v, c) # NoPath
    PROVE  /\ SearchPath(v, c) \in files \cap Paths
           /\ \E i \in DOMAIN PathDirs[v] : SearchPath(v, c) = <<PathDirs[v][i], c>>
<1> DEFINE first == CHOOSE i \in Listed(v, c) : \A j \in Listed(v, c) : i <= j
<1>1. SearchPath(v, c) = <<PathDirs[v][first], c>> /\ Listed(v, c) # {}
    BY DEF SearchPath
<1>2. PathDirs[v] \in Seq(Dirs)
    BY VariablesAssumption
<1>3. Listed(v, c) \in SUBSET Nat /\ Listed(v, c) \subseteq DOMAIN PathDirs[v]
    BY <1>2 DEF Listed
<1>4. first \in Listed(v, c)
    BY <1>1, <1>3, LeastIndex
<1>5. first \in DOMAIN PathDirs[v] /\ <<PathDirs[v][first], c>> \in files
    BY <1>4 DEF Listed, Executable
<1>6. PathDirs[v][first] \in Dirs
    BY <1>2, <1>5
<1> HIDE DEF first
<1>7. <<PathDirs[v][first], c>> \in Paths
    BY <1>6 DEF Paths
<1> QED BY <1>1, <1>5, <1>7

\* A search fails only when no directory of PATH has the file.
LEMMA SearchPathFails ==
    ASSUME NEW v \in Values, NEW c \in Commands, SearchPath(v, c) = NoPath
    PROVE  \A i \in DOMAIN PathDirs[v] : <<PathDirs[v][i], c>> \notin files
<1> DEFINE first == CHOOSE i \in Listed(v, c) : \A j \in Listed(v, c) : i <= j
<1>1. SUFFICES ASSUME Listed(v, c) # {} PROVE FALSE
    BY DEF Listed, Executable
<1>2. SearchPath(v, c) = <<PathDirs[v][first], c>>
    BY <1>1 DEF SearchPath
<1>3. PathDirs[v] \in Seq(Dirs)
    BY VariablesAssumption
<1>4. Listed(v, c) \in SUBSET Nat /\ Listed(v, c) \subseteq DOMAIN PathDirs[v]
    BY <1>3 DEF Listed
<1>5. first \in Listed(v, c)
    BY <1>1, <1>4, LeastIndex
<1>6. PathDirs[v][first] \in Dirs
    BY <1>3, <1>4, <1>5
<1> HIDE DEF first
<1> QED BY <1>2, <1>6, VariablesAssumption DEF Paths

\* FindCommand adds at most one entry to the cache, of a file that exists.
LEMMA FindCommandFacts ==
    ASSUME NEW s \in ShellRecord, NEW c \in Commands
    PROVE  /\ FindCommand(s, c) \in ShellRecord
           /\ FindCommand(s, c).value = s.value
           /\ FindCommand(s, c).exported = s.exported
           /\ \/ Found(s, c) = NoPath /\ FindCommand(s, c).hash = s.hash
              \/ /\ Found(s, c) \in files \cap Paths
                 /\ FindCommand(s, c).hash = [s.hash EXCEPT ![c] = Found(s, c)]
                 /\ \/ Found(s, c) = s.hash[c]
                    \/ /\ s.value["PATH"] \in Values
                       /\ \E i \in DOMAIN PathDirs[s.value["PATH"]] :
                              Found(s, c) = <<PathDirs[s.value["PATH"]][i], c>>
<1>1. s.hash \in [Commands -> Paths \cup {NoPath}] /\ s.value \in [Names -> Stored]
    BY DEF ShellRecord
<1>2. CASE LookupCached(s, c) # NoPath
    <2>1. LookupCached(s, c) = s.hash[c] /\ s.hash[c] \in files \cap Paths /\ Found(s, c) = s.hash[c]
        BY <1>1, <1>2 DEF LookupCached, Executable, Found
    <2>2. FindCommand(s, c) = [s EXCEPT !.hash[c] = s.hash[c]] /\ Found(s, c) # NoPath
        BY <1>2, <2>1 DEF FindCommand
    <2> QED BY <1>1, <2>1, <2>2 DEF ShellRecord
<1>3. CASE LookupCached(s, c) = NoPath /\ Walk(s, c) = NoPath
    BY <1>3 DEF Found, FindCommand
<1>4. CASE LookupCached(s, c) = NoPath /\ Walk(s, c) # NoPath
    <2>1. Found(s, c) = Walk(s, c) /\ FindCommand(s, c) = [s EXCEPT !.hash[c] = Walk(s, c)]
        BY <1>4 DEF Found, FindCommand
    <2>2. s.value["PATH"] \in Values /\ Walk(s, c) = SearchPath(s.value["PATH"], c)
        BY <1>1, <1>4, VariablesAssumption DEF Walk, VarGetValue, Var, Stored
    <2>3. /\ Walk(s, c) \in files \cap Paths
          /\ \E i \in DOMAIN PathDirs[s.value["PATH"]] :
                 Walk(s, c) = <<PathDirs[s.value["PATH"]][i], c>>
        BY <1>4, <2>2, SearchPathFacts
    <2> QED BY <1>1, <2>1, <2>2, <2>3 DEF ShellRecord
<1> QED BY <1>2, <1>3, <1>4

-------------------------------------------------------------------------------
(* The inductive invariant.                                                  *)

\* A saved entry is of a name the frame knows; one that unsets its name
\* belongs to a name that had no value, one alone holds the value before.
SavedInv(f) ==
    \A k \in DOMAIN f.saved :
        /\ f.saved[k].name \in DOMAIN f.before
        /\ f.saved[k].old = Null => f.before[f.saved[k].name] = Null
        /\ Once(k, f.saved) => f.saved[k].old = f.before[f.saved[k].name]

\* Only the innermost frame restores, with no command running.
StageInv ==
    /\ \A i \in DOMAIN frames : i < Len(frames) => frames[i].next = 0
    /\ frames # <<>> /\ Top.next # 0 => todo = <<>> /\ child.state = "none"
    /\ todo # <<>> => /\ frames # <<>> /\ Top.next = 0 /\ child.state = "none"
                      /\ \A i \in DOMAIN todo : todo[i][1] \in DOMAIN Top.before

\* While assignments are applied, a name not saved yet is as before.
ApplyInv ==
    todo # <<>> =>
        \A n \in DOMAIN Top.before :
            \/ VarGetValue(sh, n) = Top.before[n]
            \/ VarGetValue(sh, n) # Null /\ \E k \in DOMAIN Top.saved : Top.saved[k].name = n

\* While they are undone, what is already restored is as before.
UndoInv ==
    frames # <<>> /\ Top.next # 0 =>
        \A k \in DOMAIN Top.saved :
            k < Top.next /\ Once(k, Top.saved)
                => VarGetValue(sh, Top.saved[k].name) = Top.before[Top.saved[k].name]

IInv ==
    /\ TypeOK
    /\ CacheFollowsPath
    /\ StageInv
    /\ \A i \in DOMAIN frames : SavedInv(frames[i])
    /\ ApplyInv
    /\ UndoInv

-------------------------------------------------------------------------------
(* A shell that is well-formed and whose cache follows PATH stays one.       *)

SoundShell(s, pins) == s \in ShellRecord /\ WellFormed(s) /\ Current(s, pins)

\* Assigning keeps a shell sound: a present PATH empties the cache, and with
\* no PATH the cache has only what was pinned.
LEMMA SoundVarSet ==
    ASSUME NEW pins, NEW s, SoundShell(s, pins), NEW n \in Identifiers, NEW v \in Given
    PROVE  SoundShell(VarSet(s, n, v), pins)
<1> DEFINE t == VarSet(s, n, v)
<1>1. s \in ShellRecord /\ WellFormed(s) /\ Current(s, pins)
    BY DEF SoundShell
<1>2. /\ t \in ShellRecord
      /\ t.value = [s.value EXCEPT ![n] = v]
      /\ t.exported = s.exported
      /\ t.hash = IF n = "PATH" /\ s.value[n] # Absent THEN Forgotten ELSE s.hash
    BY <1>1, VarSetFacts
<1> HIDE DEF t
<1>3. s.value \in [Names -> Stored] /\ s.exported \subseteq Names
    BY <1>1 DEF ShellRecord
<1>4. WellFormed(t)
    BY <1>1, <1>2, <1>3, ConstantFacts DEF WellFormed
<1>5. Current(t, pins)
    <2>1. CASE n = "PATH" /\ s.value[n] # Absent
        BY <1>2, <2>1 DEF Current, Forgotten
    <2>2. CASE n = "PATH" /\ s.value[n] = Absent
        BY <1>1, <1>2, <2>2, VariablesAssumption DEF Current
    <2>3. CASE n # "PATH"
        <3>1. t.value["PATH"] = s.value["PATH"] /\ t.hash = s.hash
            BY <1>2, <1>3, <2>3, ConstantFacts
        <3> QED BY <1>1, <3>1 DEF Current
    <2> QED BY <2>1, <2>2, <2>3
<1> QED BY <1>2, <1>4, <1>5 DEF SoundShell, t

\* Unsetting keeps a shell sound.
LEMMA SoundVarUnset ==
    ASSUME NEW pins, NEW s, SoundShell(s, pins), NEW n \in Names
    PROVE  SoundShell(VarUnset(s, n), pins)
<1> DEFINE t == VarUnset(s, n)
<1>1. s \in ShellRecord /\ WellFormed(s) /\ Current(s, pins)
    BY DEF SoundShell
<1>2. CASE s.value[n] = Absent
    BY <1>2 DEF VarUnset, Var
<1>3. CASE s.value[n] # Absent
    <2>1. /\ t \in ShellRecord
          /\ t.value = [s.value EXCEPT ![n] = Absent]
          /\ t.exported = s.exported \ {n}
          /\ t.hash = IF n = "PATH" THEN Forgotten ELSE s.hash
        BY <1>1, <1>3, VarUnsetFacts
    <2> HIDE DEF t
    <2>2. s.value \in [Names -> Stored] /\ s.exported \subseteq Names
        BY <1>1 DEF ShellRecord
    <2>3. WellFormed(t)
        BY <1>1, <2>1, <2>2 DEF WellFormed
    <2>4. Current(t, pins)
        <3>1. CASE n = "PATH"
            BY <2>1, <3>1 DEF Current, Forgotten
        <3>2. CASE n # "PATH"
            <4>1. t.value["PATH"] = s.value["PATH"] /\ t.hash = s.hash
                BY <2>1, <2>2, <3>2, ConstantFacts
            <4> QED BY <1>1, <4>1 DEF Current
        <3> QED BY <3>1, <3>2
    <2> QED BY <2>1, <2>3, <2>4 DEF SoundShell, t
<1> QED BY <1>2, <1>3

\* Exporting keeps a shell sound.
LEMMA SoundVarExport ==
    ASSUME NEW pins, NEW s, SoundShell(s, pins), NEW n \in Identifiers
    PROVE  SoundShell(VarExport(s, n), pins)
<1> DEFINE t == VarExport(s, n)
<1>1. s \in ShellRecord /\ WellFormed(s) /\ Current(s, pins)
    BY DEF SoundShell
<1>2. /\ t \in ShellRecord
      /\ t.value = [s.value EXCEPT ![n] = VarGetValue(s, n)]
      /\ t.exported = s.exported \cup {n}
      /\ \/ s.value[n] # Absent /\ t.hash = s.hash
         \/ s.value[n] = Absent /\ t.hash = VarSet(s, n, Null).hash
    BY <1>1, VarExportFacts
<1>3. s.value \in [Names -> Stored] /\ s.exported \subseteq Names /\ n \in Names
    BY <1>1, ConstantFacts DEF ShellRecord
<1>4. VarGetValue(s, n) # Absent /\ (s.value[n] # Absent => VarGetValue(s, n) = s.value[n])
    BY ConstantFacts DEF VarGetValue, Var, Given
<1> HIDE DEF t
<1>5. WellFormed(t)
    BY <1>1, <1>2, <1>3, <1>4 DEF WellFormed
<1>6. Current(t, pins)
    <2>1. CASE s.value[n] # Absent
        <3>1. t.value = s.value /\ t.hash = s.hash
            BY <1>2, <1>3, <1>4, <2>1
        <3> QED BY <1>1, <3>1 DEF Current
    <2>2. CASE s.value[n] = Absent
        <3>1. Null \in Given /\ VarGetValue(s, n) = Null
            BY <2>2 DEF Given, VarGetValue, Var
        <3>2. t.value = VarSet(s, n, Null).value /\ t.hash = VarSet(s, n, Null).hash
            BY <1>1, <1>2, <2>2, <3>1, VarSetFacts
        <3>3. Current(VarSet(s, n, Null), pins)
            BY <3>1, SoundVarSet DEF SoundShell
        <3> QED BY <3>2, <3>3 DEF Current
    <2> QED BY <2>1, <2>2
<1> QED BY <1>2, <1>5, <1>6 DEF SoundShell, t

\* A lookup keeps a shell sound: what it adds to the cache PATH led to.
LEMMA SoundFindCommand ==
    ASSUME NEW pins, NEW s, SoundShell(s, pins), NEW c \in Commands
    PROVE  SoundShell(FindCommand(s, c), pins)
<1> DEFINE t == FindCommand(s, c)
<1>1. s \in ShellRecord /\ WellFormed(s) /\ Current(s, pins)
    BY DEF SoundShell
<1>2. /\ t \in ShellRecord
      /\ t.value = s.value
      /\ t.exported = s.exported
      /\ \/ t.hash = s.hash
         \/ /\ t.hash = [s.hash EXCEPT ![c] = Found(s, c)]
            /\ \/ Found(s, c) = s.hash[c]
               \/ /\ s.value["PATH"] \in Values
                  /\ \E i \in DOMAIN PathDirs[s.value["PATH"]] :
                         Found(s, c) = <<PathDirs[s.value["PATH"]][i], c>>
    BY <1>1, FindCommandFacts
<1>3. s.hash \in [Commands -> Paths \cup {NoPath}]
    BY <1>1 DEF ShellRecord
<1> HIDE DEF t
<1>4. WellFormed(t)
    BY <1>1, <1>2 DEF WellFormed
<1>5. Current(t, pins)
    BY <1>1, <1>2, <1>3 DEF Current
<1> QED BY <1>2, <1>4, <1>5 DEF SoundShell, t

\* An entry with no path, or of a pinned path, may be stored in the cache.
LEMMA SoundHashEntry ==
    ASSUME NEW pins, NEW s, SoundShell(s, pins), NEW c \in Commands,
           NEW p \in Paths \cup {NoPath}, NEW more,
           pins \subseteq more, p = NoPath \/ <<c, p>> \in more
    PROVE  SoundShell([s EXCEPT !.hash[c] = p], more)
<1> DEFINE t == [s EXCEPT !.hash[c] = p]
<1>1. s \in ShellRecord /\ WellFormed(s) /\ Current(s, pins)
    BY DEF SoundShell
<1>2. s.hash \in [Commands -> Paths \cup {NoPath}]
    BY <1>1 DEF ShellRecord
<1>3. /\ t \in ShellRecord /\ t.value = s.value /\ t.exported = s.exported
      /\ t.hash = [s.hash EXCEPT ![c] = p]
    BY <1>1, <1>2 DEF ShellRecord
<1> HIDE DEF t
<1>4. WellFormed(t)
    BY <1>1, <1>3 DEF WellFormed
<1>5. Current(t, more)
    BY <1>1, <1>2, <1>3 DEF Current
<1> QED BY <1>3, <1>4, <1>5 DEF SoundShell, t

\* hash -r keeps a shell sound.
LEMMA SoundHashClear ==
    ASSUME NEW pins, NEW s, SoundShell(s, pins)
    PROVE  SoundShell(CmdHashClear(s), pins)
<1>1. s \in ShellRecord /\ WellFormed(s)
    BY DEF SoundShell
<1>2. /\ CmdHashClear(s) \in ShellRecord /\ CmdHashClear(s).value = s.value
      /\ CmdHashClear(s).exported = s.exported /\ CmdHashClear(s).hash = Forgotten
    BY <1>1, ConstantFacts DEF CmdHashClear, ShellRecord
<1> QED BY <1>1, <1>2 DEF SoundShell, WellFormed, Current, Forgotten

-------------------------------------------------------------------------------
(* Every action preserves the invariant.                                     *)

\* Init establishes it: no flag without a variable, and an empty cache.
LEMMA InitIInv == Init => IInv
<1> SUFFICES ASSUME Init PROVE IInv
    OBVIOUS
<1>1. PICK val \in [Names -> Values \cup {Absent}] :
          /\ \A n \in Names \ Identifiers : val[n] = Absent
          /\ sh = [value |-> val, exported |-> {n \in Names : val[n] # Absent},
                   hash |-> Forgotten, dirty |-> TRUE, env |-> NoEnv]
    BY DEF Init
<1>2. val \in [Names -> Stored]
    BY DEF Stored
<1>3. sh \in ShellRecord
    BY <1>1, <1>2, ConstantFacts DEF ShellRecord
<1>4. WellFormed(sh) /\ Current(sh, pinned)
    BY <1>1 DEF WellFormed, Current, Forgotten
<1>5. frames = <<>> /\ todo = <<>> /\ child = [state |-> "none"] /\ pinned = {} /\ files \in SUBSET Paths
    BY DEF Init, NoChild
<1>6. child \in Processes /\ frames \in Seq(Frame) /\ todo \in Assignments
    BY <1>5 DEF Processes, Assignments
<1> QED BY <1>3, <1>4, <1>5, <1>6
        DEF IInv, TypeOK, CacheFollowsPath, StageInv, ApplyInv, UndoInv

\* Between commands, nothing but the shell and the pins has to stay sound.
LEMMA QuietStep ==
    ASSUME IInv, Ready, UNCHANGED Rest,
           SoundShell(sh', pinned'), pinned' \subseteq Commands \X Paths
    PROVE  IInv'
<1>1. child.state = "none" /\ todo = <<>> /\ (frames # <<>> => Top.next = 0)
    BY DEF Ready
<1>2. files' = files /\ frames' = frames /\ todo' = todo /\ child' = child
    BY DEF Rest
<1>3. TypeOK'
    BY <1>1, <1>2 DEF IInv, TypeOK, SoundShell
<1>4. CacheFollowsPath'
    BY <1>1, <1>2 DEF CacheFollowsPath, SoundShell
<1>5. StageInv' /\ ApplyInv' /\ UndoInv'
    BY <1>1, <1>2 DEF IInv, StageInv, ApplyInv, UndoInv, Top
<1>6. (\A i \in DOMAIN frames : SavedInv(frames[i]))'
    BY <1>2 DEF IInv
<1> QED BY <1>3, <1>4, <1>5, <1>6 DEF IInv

\* The invariant says of the shell what the lemmas on its operations need.
LEMMA SoundNow == IInv => SoundShell(sh, pinned) /\ pinned \subseteq Commands \X Paths
BY DEF IInv, TypeOK, CacheFollowsPath, SoundShell

\* The builtins that write variables and the cache.
LEMMA BuiltinStep == ASSUME IInv, Builtin PROVE IInv'
<1>1. SoundShell(sh, pinned) /\ pinned \subseteq Commands \X Paths
    BY SoundNow
<1>2. ASSUME NEW n \in Names, ExportName(n) PROVE IInv'
    <2>1. SoundShell(VarExport(sh, n), pinned)
        <3>1. CASE n \in Identifiers BY <1>1, <3>1, SoundVarExport
        <3>2. CASE n \notin Identifiers BY <1>1, <3>2 DEF VarExport
        <3> QED BY <3>1, <3>2
    <2> QED BY <1>1, <1>2, <2>1, QuietStep DEF ExportName
<1>3. ASSUME NEW n \in Names, UnsetName(n) PROVE IInv'
    <2>1. SoundShell(sh', pinned)
        BY <1>1, <1>3, SoundVarUnset DEF UnsetName
    <2> QED BY <1>1, <1>3, <2>1, QuietStep DEF UnsetName
<1>4. ASSUME NEW n \in Names, NEW v \in Values
      PROVE  SoundShell(VarSet(sh, n, v), pinned)
    <2>1. CASE n \in Identifiers BY <1>1, <2>1, SoundVarSet DEF Given
    <2>2. CASE n \notin Identifiers BY <1>1, <2>2 DEF VarSet
    <2> QED BY <2>1, <2>2
<1>5. ASSUME NEW n \in Names, NEW v \in Values, Assign(n, v) PROVE IInv'
    BY <1>1, <1>4, <1>5, QuietStep DEF Assign
<1>6. ASSUME NEW n \in Names, NEW v \in Values, ExportAssignment(n, v) PROVE IInv'
    <2>1. SoundShell(VarExport(VarSet(sh, n, v), n), pinned)
        <3>1. CASE n \in Identifiers BY <1>4, <3>1, SoundVarExport
        <3>2. CASE n \notin Identifiers BY <1>1, <3>2 DEF VarExport, VarSet
        <3> QED BY <3>1, <3>2
    <2> QED BY <1>1, <1>6, <2>1, QuietStep DEF ExportAssignment
<1>7. CASE HashClear
    BY <1>1, <1>7, SoundHashClear, QuietStep DEF HashClear
<1>8. ASSUME NEW c \in Commands, HashDelete(c) PROVE IInv'
    <2>1. SoundShell([sh EXCEPT !.hash[c] = NoPath], pinned)
        BY <1>1, SoundHashEntry
    <2> QED BY <1>1, <1>8, <2>1, QuietStep DEF HashDelete
<1>9. ASSUME NEW c \in Commands, NEW p \in PinPaths, HashPreset(c, p) PROVE IInv'
    <2>1. p \in Paths /\ pinned' = pinned \cup {<<c, p>>}
        BY <1>9, VariablesAssumption DEF HashPreset
    <2>2. SoundShell([sh EXCEPT !.hash[c] = p], pinned')
        <3> DEFINE more == pinned \cup {<<c, p>>}
        <3>1. pinned \subseteq more /\ <<c, p>> \in more /\ p \in Paths \cup {NoPath}
            BY <2>1
        <3> HIDE DEF more
        <3>2. SoundShell([sh EXCEPT !.hash[c] = p], more)
            BY <1>1, <3>1, SoundHashEntry
        <3> QED BY <2>1, <3>2 DEF more
    <2> QED BY <1>1, <1>9, <2>1, <2>2, QuietStep DEF HashPreset
<1>10. ASSUME NEW c \in Commands, NEW clear \in BOOLEAN, HashResolve(c, clear) PROVE IInv'
    <2>1. SoundShell(IF clear THEN CmdHashClear(sh) ELSE sh, pinned)
        BY <1>1, SoundHashClear
    <2>2. SoundShell(FindCommand(IF clear THEN CmdHashClear(sh) ELSE sh, c), pinned)
        BY <2>1, SoundFindCommand
    <2> QED BY <1>1, <1>10, <2>2, QuietStep DEF HashResolve
<1> QED BY <1>2, <1>3, <1>5, <1>6, <1>7, <1>8, <1>9, <1>10 DEF Builtin

\* The frame that is on top, typed.
LEMMA TopFacts ==
    ASSUME frames \in Seq(Frame), frames # <<>>
    PROVE  /\ Len(frames) \in 1..Len(frames) /\ DOMAIN frames = 1..Len(frames)
           /\ Top \in Frame
BY DEF Top

\* What changes when only the top frame does.
LEMMA TopChanged ==
    ASSUME frames \in Seq(Frame), frames # <<>>, NEW f \in Frame,
           frames' = [frames EXCEPT ![Len(frames)] = f]
    PROVE  /\ frames' \in Seq(Frame) /\ frames' # <<>> /\ Len(frames') = Len(frames)
           /\ DOMAIN frames' = DOMAIN frames /\ Top' = f
           /\ \A i \in DOMAIN frames : i < Len(frames) => frames'[i] = frames[i]
BY TopFacts DEF Top

\* A builtin with assignments begins: a frame with nothing saved.
LEMMA BeginStep == ASSUME IInv, NEW as \in Prefixes, BeginBuiltin(as) PROVE IInv'
<1> DEFINE names == {as[i][1] : i \in DOMAIN as}
           f == [saved |-> <<>>, next |-> 0, before |-> [n \in names |-> VarGetValue(sh, n)]]
<1>1. /\ child.state = "none" /\ todo = <<>> /\ (frames # <<>> => Top.next = 0)
      /\ todo' = as /\ frames' = Append(frames, f)
      /\ sh' = sh /\ files' = files /\ child' = child /\ pinned' = pinned
    BY DEF BeginBuiltin, Ready
<1>2. as \in Assignments
    BY VariablesAssumption DEF Assignments
<1>3. names \in SUBSET Names
    <2>1. ASSUME NEW i \in DOMAIN as PROVE as[i][1] \in Identifiers
        <3> HIDE DEF names, f
        <3>1. as \in Seq(Identifiers \X Values)
            BY <1>2 DEF Assignments
        <3>2. DOMAIN as = 1..Len(as)
            BY <3>1, LenProperties
        <3>3. as[i] \in Identifiers \X Values
            BY <2>1, <3>1, <3>2, ElementOfSeq
        <3> QED BY <3>3
    <2> QED BY <2>1, ConstantFacts
<1>4. f \in Frame
    <2>1. \A n \in names : VarGetValue(sh, n) \in Values \cup {Null}
        BY <1>3, ConstantFacts DEF IInv, TypeOK, ShellRecord, VarGetValue, Var, Stored
    <2>2. [n \in names |-> VarGetValue(sh, n)] \in [names -> Values \cup {Null}]
        BY <2>1
    <2>3. [n \in names |-> VarGetValue(sh, n)] \in Valuations
        BY <1>3, <2>2 DEF Valuations
    <2> QED BY <2>3 DEF Frame
<1>5. /\ f.next = 0 /\ f.saved = <<>> /\ DOMAIN f.before = names
      /\ \A n \in names : f.before[n] = VarGetValue(sh, n)
    OBVIOUS
<1>6. \A i \in DOMAIN as : as[i][1] \in names
    OBVIOUS
<1> HIDE DEF f, names
<1>7. frames \in Seq(Frame)
    BY DEF IInv, TypeOK
<1>8. /\ frames' \in Seq(Frame) /\ frames' # <<>> /\ Len(frames') = Len(frames) + 1
      /\ DOMAIN frames' = 1..(Len(frames) + 1) /\ Top' = f
      /\ \A i \in DOMAIN frames : frames'[i] = frames[i]
      /\ frames'[Len(frames) + 1] = f
    BY <1>1, <1>4, <1>7 DEF Top
<1>9. TypeOK'
    BY <1>1, <1>2, <1>8 DEF IInv, TypeOK
<1>10. CacheFollowsPath'
    BY <1>1 DEF IInv, CacheFollowsPath
<1>11. StageInv'
    <2>1. \A i \in DOMAIN frames : frames[i].next = 0
        BY <1>1, <1>7, TopFacts DEF IInv, StageInv, Top
    <2>2. \A i \in DOMAIN frames' : i < Len(frames') => frames'[i].next = 0
        BY <1>7, <1>8, <2>1
    <2> QED BY <1>1, <1>5, <1>6, <1>8, <2>2 DEF StageInv
<1>12. (\A i \in DOMAIN frames : SavedInv(frames[i]))'
    <2>1. SavedInv(f)
        BY <1>5 DEF SavedInv
    <2>2. ASSUME NEW i \in DOMAIN frames' PROVE SavedInv(frames'[i])
        <3>1. CASE i \in DOMAIN frames
            BY <1>8, <3>1 DEF IInv
        <3>2. CASE i \notin DOMAIN frames
            BY <1>7, <1>8, <2>1, <3>2
        <3> QED BY <3>1, <3>2
    <2> QED BY <2>2
<1>13. ApplyInv'
    BY <1>1, <1>5, <1>8 DEF ApplyInv, VarGetValue, Var
<1>14. UndoInv'
    BY <1>5, <1>8 DEF UndoInv
<1> QED BY <1>9, <1>10, <1>11, <1>12, <1>13, <1>14 DEF IInv

\* One assignment is saved and applied: the first of a name saves the value
\* before, a later one a value that was given.
LEMMA SaveStep == ASSUME IInv, SaveAndApply PROVE IInv'
<1> DEFINE n == Head(todo)[1]
           v == Head(todo)[2]
           e == [name |-> n, old |-> VarGetValue(sh, n)]
           f == [Top EXCEPT !.saved = Append(@, e)]
<1>1. /\ todo # <<>> /\ child.state = "none" /\ todo' = Tail(todo)
      /\ sh' = VarSet(sh, n, v) /\ frames' = [frames EXCEPT ![Len(frames)] = f]
      /\ files' = files /\ child' = child /\ pinned' = pinned
    BY DEF SaveAndApply, Saved, Top
<1>2. /\ frames # <<>> /\ Top.next = 0
      /\ \A i \in DOMAIN todo : todo[i][1] \in DOMAIN Top.before
    BY <1>1 DEF IInv, StageInv
<1>3. todo \in Assignments /\ frames \in Seq(Frame)
    BY DEF IInv, TypeOK
<1>4. n \in Identifiers /\ v \in Values
    <2>1. Head(todo) \in Identifiers \X Values
        BY <1>1, <1>3 DEF Assignments
    <2> QED BY <2>1
<1>5. /\ Tail(todo) \in Assignments
      /\ \A i \in DOMAIN Tail(todo) : Tail(todo)[i][1] \in DOMAIN Top.before
      /\ n \in DOMAIN Top.before
    <2>1. /\ Tail(todo) \in Assignments /\ Head(todo) = todo[1] /\ 1 \in DOMAIN todo
          /\ \A i \in DOMAIN Tail(todo) : i + 1 \in DOMAIN todo /\ Tail(todo)[i] = todo[i + 1]
        BY <1>1, <1>3 DEF Assignments
    <2> QED BY <1>2, <2>1
<1>6. e \in [name : Identifiers, old : Values \cup {Null}]
    BY <1>4, ConstantFacts DEF IInv, TypeOK, ShellRecord, VarGetValue, Var, Stored
<1>7. Top \in Frame
    BY <1>2, <1>3, TopFacts
<1>8. /\ f \in Frame /\ f.next = Top.next /\ f.before = Top.before
      /\ f.saved = Append(Top.saved, e)
    <2> HIDE DEF e
    <2>1. Append(Top.saved, e) \in Seq([name : Identifiers, old : Values \cup {Null}])
        BY <1>6, <1>7 DEF Frame
    <2> QED BY <1>7, <2>1 DEF Frame
<1>9. /\ e.name = n /\ e.old = VarGetValue(sh, n)
    OBVIOUS
<1> HIDE DEF n, v, e, f
<1>10. /\ frames' \in Seq(Frame) /\ frames' # <<>> /\ Len(frames') = Len(frames)
       /\ DOMAIN frames' = DOMAIN frames /\ Top' = f
       /\ \A i \in DOMAIN frames : i < Len(frames) => frames'[i] = frames[i]
    BY <1>1, <1>2, <1>3, <1>8, TopChanged
<1>11. SoundShell(sh', pinned')
    BY <1>1, <1>4, SoundNow, SoundVarSet DEF Given
<1>12. /\ Top.saved \in Seq([name : Identifiers, old : Values \cup {Null}])
       /\ DOMAIN f.saved = 1..(Len(Top.saved) + 1)
       /\ f.saved[Len(Top.saved) + 1] = e
       /\ \A k \in DOMAIN Top.saved : k \in DOMAIN f.saved /\ f.saved[k] = Top.saved[k]
       /\ \A k \in DOMAIN f.saved : k \in DOMAIN Top.saved \/ k = Len(Top.saved) + 1
    BY <1>6, <1>7, <1>8 DEF Frame
<1>13. TypeOK'
    BY <1>1, <1>5, <1>10, <1>11 DEF IInv, TypeOK, SoundShell
<1>14. CacheFollowsPath'
    BY <1>1, <1>11 DEF CacheFollowsPath, SoundShell
<1>15. StageInv'
    BY <1>1, <1>2, <1>5, <1>8, <1>10 DEF IInv, StageInv
<1>16. SavedInv(f)
    <2> SUFFICES ASSUME NEW k \in DOMAIN f.saved
                 PROVE  /\ f.saved[k].name \in DOMAIN f.before
                        /\ f.saved[k].old = Null => f.before[f.saved[k].name] = Null
                        /\ Once(k, f.saved) => f.saved[k].old = f.before[f.saved[k].name]
        BY DEF SavedInv
    <2>1. SavedInv(Top)
        BY <1>2, <1>3, TopFacts DEF IInv, Top
    <2>2. CASE k \in DOMAIN Top.saved
        <3>1. Once(k, f.saved) => Once(k, Top.saved)
            BY <1>12, <2>2 DEF Once
        <3> QED BY <1>8, <1>12, <2>1, <2>2, <3>1 DEF SavedInv
    <2>3. CASE k = Len(Top.saved) + 1
        <3>1. \/ VarGetValue(sh, n) = Top.before[n]
              \/ VarGetValue(sh, n) # Null /\ \E j \in DOMAIN Top.saved : Top.saved[j].name = n
            BY <1>1, <1>5 DEF IInv, ApplyInv
        <3>2. (\E j \in DOMAIN Top.saved : Top.saved[j].name = n) => ~ Once(k, f.saved)
            BY <1>9, <1>12, <2>3 DEF Once
        <3> QED BY <1>5, <1>8, <1>9, <1>12, <2>3, <3>1, <3>2
    <2> QED BY <1>12, <2>2, <2>3
<1>17. (\A i \in DOMAIN frames : SavedInv(frames[i]))'
    <2>1. ASSUME NEW i \in DOMAIN frames PROVE SavedInv(frames'[i])
        <3>1. CASE i < Len(frames)
            BY <1>10, <3>1 DEF IInv
        <3>2. CASE i = Len(frames)
            BY <1>10, <1>16, <3>2 DEF Top
        <3> QED BY <1>2, <1>3, <3>1, <3>2, TopFacts
    <2> QED BY <1>10, <2>1
<1>18. ApplyInv'
    <2>1. \A m \in DOMAIN Top.before :
              \/ VarGetValue(sh, m) = Top.before[m]
              \/ VarGetValue(sh, m) # Null /\ \E k \in DOMAIN Top.saved : Top.saved[k].name = m
        BY <1>1 DEF IInv, ApplyInv
    <2>2. /\ VarGetValue(sh', n) # Null
          /\ \A m \in DOMAIN Top.before : m # n => VarGetValue(sh', m) = VarGetValue(sh, m)
        <3>1. sh'.value = [sh.value EXCEPT ![n] = v]
            BY <1>1, <1>4, SoundNow, VarSetFacts DEF SoundShell, Given
        <3>2. sh.value \in [Names -> Stored] /\ n \in Names /\ DOMAIN Top.before \subseteq Names
            BY <1>4, <1>7, ConstantFacts DEF IInv, TypeOK, ShellRecord, Frame, Valuations
        <3> QED BY <1>4, <3>1, <3>2, VariablesAssumption DEF VarGetValue, Var
    <2>3. ASSUME NEW m \in DOMAIN f.before
          PROVE  \/ VarGetValue(sh', m) = f.before[m]
                 \/ VarGetValue(sh', m) # Null /\ \E k \in DOMAIN f.saved : f.saved[k].name = m
        <3>1. CASE m = n
            <4>1. Len(Top.saved) + 1 \in DOMAIN f.saved
                BY <1>12
            <4> QED BY <1>9, <1>12, <2>2, <3>1, <4>1
        <3>2. CASE m # n
            BY <1>8, <1>12, <2>1, <2>2, <3>2
        <3> QED BY <3>1, <3>2
    <2> QED BY <1>10, <2>3 DEF ApplyInv
<1>19. UndoInv'
    BY <1>2, <1>8, <1>10 DEF UndoInv
<1> QED BY <1>13, <1>14, <1>15, <1>17, <1>18, <1>19 DEF IInv

\* The builtin is over: nothing is restored yet.
LEMMA EndStep == ASSUME IInv, BuiltinEnds PROVE IInv'
<1> DEFINE f == [Top EXCEPT !.next = 1]
<1>1. /\ frames # <<>> /\ child.state = "none" /\ todo = <<>> /\ Top.next = 0
      /\ frames' = [frames EXCEPT ![Len(frames)] = f]
      /\ sh' = sh /\ files' = files /\ todo' = todo /\ child' = child /\ pinned' = pinned
    BY DEF BuiltinEnds, Ready, Top
<1>2. frames \in Seq(Frame) /\ Top \in Frame
    BY <1>1, TopFacts DEF IInv, TypeOK
<1>3. f \in Frame /\ f.next = 1 /\ f.before = Top.before /\ f.saved = Top.saved
    BY <1>2 DEF Frame
<1> HIDE DEF f
<1>4. /\ frames' \in Seq(Frame) /\ frames' # <<>> /\ Len(frames') = Len(frames)
      /\ DOMAIN frames' = DOMAIN frames /\ Top' = f
      /\ \A i \in DOMAIN frames : i < Len(frames) => frames'[i] = frames[i]
    BY <1>1, <1>2, <1>3, TopChanged
<1>5. TypeOK' /\ CacheFollowsPath'
    BY <1>1, <1>4 DEF IInv, TypeOK, CacheFollowsPath
<1>6. StageInv' /\ ApplyInv'
    BY <1>1, <1>4 DEF IInv, StageInv, ApplyInv
<1>7. (\A i \in DOMAIN frames : SavedInv(frames[i]))'
    <2>1. ASSUME NEW i \in DOMAIN frames PROVE SavedInv(frames'[i])
        <3>1. CASE i < Len(frames)
            BY <1>4, <3>1 DEF IInv
        <3>2. CASE i = Len(frames)
            <4>1. SavedInv(Top)
                BY <1>1, <1>2, TopFacts DEF IInv, Top
            <4> QED BY <1>3, <1>4, <3>2, <4>1 DEF Top, SavedInv
        <3> QED BY <1>1, <1>2, <3>1, <3>2, TopFacts
    <2> QED BY <1>4, <2>1
<1>8. UndoInv'
    BY <1>2, <1>3, <1>4 DEF UndoInv, Frame
<1> QED BY <1>5, <1>6, <1>7, <1>8 DEF IInv

\* One assignment is undone: a name given once gets its value back.
LEMMA RestoreStep == ASSUME IInv, RestoreAssign PROVE IInv'
<1> DEFINE j == Top.next
           e == Top.saved[j]
           f == [Top EXCEPT !.next = @ + 1]
<1>1. /\ frames # <<>> /\ j \in 1..Len(Top.saved)
      /\ frames' = [frames EXCEPT ![Len(frames)] = f]
      /\ sh' = IF e.old = Null THEN VarUnset(sh, e.name) ELSE VarSet(sh, e.name, e.old)
      /\ files' = files /\ todo' = todo /\ child' = child /\ pinned' = pinned
    BY DEF RestoreAssign, Top
<1>2. frames \in Seq(Frame) /\ Top \in Frame
    BY <1>1, TopFacts DEF IInv, TypeOK
<1>3. /\ Top.saved \in Seq([name : Identifiers, old : Values \cup {Null}])
      /\ j \in Nat \ {0} /\ DOMAIN Top.saved = 1..Len(Top.saved)
    BY <1>1, <1>2 DEF Frame
<1>4. e \in [name : Identifiers, old : Values \cup {Null}]
    BY <1>1, <1>3, ElementOfSeq
<1>5. f \in Frame /\ f.next = j + 1 /\ f.before = Top.before /\ f.saved = Top.saved
    <2>1. j + 1 \in Nat
        BY <1>3
    <2> QED BY <1>2, <2>1 DEF Frame
<1>6. e.name \in Names /\ e.old \in Given
    BY <1>4, ConstantFacts DEF Given
<1>7. todo = <<>> /\ child.state = "none"
    BY <1>1, <1>3 DEF IInv, StageInv
<1> HIDE DEF e, f
<1>8. /\ frames' \in Seq(Frame) /\ frames' # <<>> /\ Len(frames') = Len(frames)
      /\ DOMAIN frames' = DOMAIN frames /\ Top' = f
      /\ \A i \in DOMAIN frames : i < Len(frames) => frames'[i] = frames[i]
    BY <1>1, <1>2, <1>5, TopChanged
<1>9. SoundShell(sh', pinned')
    BY <1>1, <1>4, <1>6, SoundNow, SoundVarUnset, SoundVarSet
<1>10. TypeOK' /\ CacheFollowsPath'
    BY <1>1, <1>7, <1>8, <1>9 DEF IInv, TypeOK, CacheFollowsPath, SoundShell
<1>11. StageInv' /\ ApplyInv'
    BY <1>1, <1>7, <1>8 DEF IInv, StageInv, ApplyInv
<1>12. SavedInv(Top)
    BY <1>1, <1>2, TopFacts DEF IInv, Top
<1>13. (\A i \in DOMAIN frames : SavedInv(frames[i]))'
    <2>1. ASSUME NEW i \in DOMAIN frames PROVE SavedInv(frames'[i])
        <3>1. CASE i < Len(frames)
            BY <1>8, <3>1 DEF IInv
        <3>2. CASE i = Len(frames)
            BY <1>5, <1>8, <1>12, <3>2 DEF Top, SavedInv
        <3> QED BY <1>1, <1>2, <3>1, <3>2, TopFacts
    <2> QED BY <1>8, <2>1
<1>14. /\ VarGetValue(sh', e.name) = e.old
       /\ \A m \in Names : m # e.name => VarGetValue(sh', m) = VarGetValue(sh, m)
    <2>1. sh.value \in [Names -> Stored] /\ sh \in ShellRecord
        BY DEF IInv, TypeOK, ShellRecord
    <2>2. CASE e.old = Null /\ sh.value[e.name] = Absent
        BY <1>1, <2>2 DEF VarUnset, Var, VarGetValue
    <2>3. CASE e.old = Null /\ sh.value[e.name] # Absent
        <3>1. sh'.value = [sh.value EXCEPT ![e.name] = Absent]
            BY <1>1, <1>6, <2>1, <2>3, VarUnsetFacts
        <3> QED BY <1>6, <2>1, <2>3, <3>1 DEF VarGetValue, Var
    <2>4. CASE e.old # Null
        <3>1. sh'.value = [sh.value EXCEPT ![e.name] = e.old]
            BY <1>1, <1>4, <1>6, <2>1, <2>4, VarSetFacts
        <3> QED BY <1>6, <2>1, <3>1, ConstantFacts DEF VarGetValue, Var
    <2> QED BY <2>2, <2>3, <2>4
<1>15. UndoInv'
    <2>1. ASSUME NEW k \in DOMAIN Top.saved, k < j + 1, Once(k, Top.saved)
          PROVE  VarGetValue(sh', Top.saved[k].name) = Top.before[Top.saved[k].name]
        <3>1. CASE k = j
            BY <1>12, <1>14, <2>1, <3>1 DEF SavedInv, e
        <3>2. CASE k # j
            <4>1. k < j
                BY <1>3, <2>1, <3>2
            <4>2. j \in DOMAIN Top.saved /\ Top.saved[k].name # e.name
                BY <1>1, <1>3, <2>1, <3>2 DEF Once, e
            <4>3. Top.saved[k].name \in Names
                <5>1. Top.saved[k] \in [name : Identifiers, old : Values \cup {Null}]
                    BY <1>3, <2>1, ElementOfSeq
                <5> QED BY <5>1, ConstantFacts
            <4>4. VarGetValue(sh, Top.saved[k].name) = Top.before[Top.saved[k].name]
                BY <1>1, <1>3, <2>1, <4>1 DEF IInv, UndoInv
            <4> QED BY <1>5, <1>14, <4>2, <4>3, <4>4
        <3> QED BY <3>1, <3>2
    <2> QED BY <1>5, <1>8, <2>1 DEF UndoInv
<1> QED BY <1>10, <1>11, <1>13, <1>15 DEF IInv

\* The builtin returns: the frame below was running it.
LEMMA ReturnStep == ASSUME IInv, BuiltinReturns PROVE IInv'
<1>1. /\ frames # <<>> /\ Top.next > Len(Top.saved)
      /\ frames' = SubSeq(frames, 1, Len(frames) - 1)
      /\ sh' = sh /\ files' = files /\ todo' = todo /\ child' = child /\ pinned' = pinned
    BY DEF BuiltinReturns
<1>2. frames \in Seq(Frame) /\ Top \in Frame
    BY <1>1, TopFacts DEF IInv, TypeOK
<1>3. Top.next # 0
    BY <1>1, <1>2 DEF Frame
<1>4. todo = <<>> /\ child.state = "none"
    BY <1>1, <1>3 DEF IInv, StageInv
<1>5. /\ frames' \in Seq(Frame) /\ Len(frames') = Len(frames) - 1
      /\ DOMAIN frames' = 1..(Len(frames) - 1)
      /\ \A i \in DOMAIN frames' : i \in DOMAIN frames /\ i < Len(frames) /\ frames'[i] = frames[i]
    BY <1>1, <1>2, TopFacts
<1>6. TypeOK' /\ CacheFollowsPath'
    BY <1>1, <1>5 DEF IInv, TypeOK, CacheFollowsPath
<1>7. \A i \in DOMAIN frames' : frames'[i].next = 0
    BY <1>5 DEF IInv, StageInv
<1>8. frames' # <<>> => Top'.next = 0
    <2>1. frames' # <<>> => Len(frames') \in DOMAIN frames'
        BY <1>5
    <2> QED BY <1>7, <2>1 DEF Top
<1>9. StageInv' /\ ApplyInv' /\ UndoInv'
    BY <1>1, <1>4, <1>7, <1>8 DEF StageInv, ApplyInv, UndoInv
<1>10. (\A i \in DOMAIN frames : SavedInv(frames[i]))'
    BY <1>5 DEF IInv
<1> QED BY <1>6, <1>9, <1>10 DEF IInv

\* What the child's steps and the files leave alone.
LEMMA OutsideStep ==
    ASSUME IInv, UNCHANGED <<frames, todo>>, todo = <<>>, frames # <<>> => Top.next = 0,
           TypeOK', CacheFollowsPath'
    PROVE  IInv'
<1>1. frames' = frames /\ todo' = todo /\ frames \in Seq(Frame)
    BY DEF IInv, TypeOK
<1>2. StageInv' /\ ApplyInv' /\ UndoInv'
    BY <1>1 DEF IInv, StageInv, ApplyInv, UndoInv, Top
<1>3. (\A i \in DOMAIN frames : SavedInv(frames[i]))'
    BY <1>1 DEF IInv
<1> QED BY <1>2, <1>3 DEF IInv

\* While a command runs, no frame saves or restores.
LEMMA ChildAlone ==
    ASSUME IInv, child.state # "none" \/ Ready
    PROVE  todo = <<>> /\ (frames # <<>> => Top.next = 0)
BY DEF IInv, StageInv, Ready

\* What execve is given is a valuation.
LEMMA EnvironFacts ==
    ASSUME NEW s \in ShellRecord, WellFormed(s)
    PROVE  VarGetEnviron(s) = EnvEntries(s) /\ EnvEntries(s) \in Valuations
<1>1. VarGetEnviron(s) = EnvEntries(s)
    BY DEF VarGetEnviron, ShellRecord
<1>2. s.exported \in SUBSET Names /\ s.value \in [Names -> Stored]
    BY DEF ShellRecord
<1>3. EnvEntries(s) \in [s.exported -> Values \cup {Null}]
    BY <1>2, VariablesAssumption DEF EnvEntries, Var, WellFormed, Stored
<1> QED BY <1>1, <1>2, <1>3 DEF Valuations

\* The steps of an external command.
LEMMA ExternalStep == ASSUME IInv, External PROVE IInv'
<1>1. ASSUME NEW c \in Commands, NEW as \in Prefixes \cup {<<>>}, NEW prewarm \in BOOLEAN,
             Fork(c, as, prewarm)
      PROVE  IInv'
    <2>1. /\ Ready /\ sh' = (IF prewarm THEN FindCommand(sh, c) ELSE sh)
          /\ child' = [state |-> "forked", cmd |-> c, sh |-> sh', todo |-> as]
          /\ files' = files /\ frames' = frames /\ todo' = todo /\ pinned' = pinned
        BY <1>1 DEF Fork
    <2>2. SoundShell(sh', pinned')
        BY <2>1, SoundNow, SoundFindCommand
    <2>3. as \in Assignments
        <3>1. <<>> \in Assignments
            BY DEF Assignments
        <3>2. Prefixes \subseteq Assignments
            BY VariablesAssumption DEF Assignments
        <3> QED BY <3>1, <3>2
    <2>4. child' \in Processes /\ child'.sh = sh'
        BY <2>1, <2>2, <2>3 DEF Processes, SoundShell
    <2>5. TypeOK' /\ CacheFollowsPath'
        BY <2>1, <2>2, <2>4 DEF IInv, TypeOK, CacheFollowsPath, SoundShell
    <2> QED BY <2>1, <2>5, ChildAlone, OutsideStep
<1>2. CASE ChildAssigns
    <2> DEFINE a == Head(child.todo)
               s == VarExport(VarSet(child.sh, a[1], a[2]), a[1])
    <2>1. /\ child.state = "forked" /\ child.todo # <<>>
          /\ child' = [child EXCEPT !.sh = s, !.todo = Tail(@)]
          /\ sh' = sh /\ files' = files /\ frames' = frames /\ todo' = todo /\ pinned' = pinned
        BY <1>2 DEF ChildAssigns
    <2>2. child \in [state : {"forked"}, cmd : Commands, sh : ShellRecord, todo : Assignments]
        BY <2>1 DEF IInv, TypeOK, Processes
    <2>3. child.todo \in Seq(Identifiers \X Values)
        BY <2>2 DEF Assignments
    <2>4. a \in Identifiers \X Values /\ Tail(child.todo) \in Assignments
        BY <2>1, <2>3 DEF Assignments
    <2>5. a[1] \in Identifiers /\ a[2] \in Given
        BY <2>4 DEF Given
    <2>6. SoundShell(child.sh, pinned)
        BY <2>1, <2>2 DEF IInv, TypeOK, CacheFollowsPath, SoundShell
    <2>7. SoundShell(VarSet(child.sh, a[1], a[2]), pinned)
        BY <2>5, <2>6, SoundVarSet
    <2>8. SoundShell(s, pinned)
        BY <2>5, <2>7, SoundVarExport
    <2> HIDE DEF a, s
    <2>9. child' \in Processes /\ child'.sh = s /\ child'.state = "forked"
        BY <2>1, <2>2, <2>4, <2>8 DEF Processes, SoundShell
    <2>10. TypeOK' /\ CacheFollowsPath'
        BY <2>1, <2>8, <2>9 DEF IInv, TypeOK, CacheFollowsPath, SoundShell
    <2> QED BY <2>1, <2>10, ChildAlone, OutsideStep
<1>3. CASE ChildExecs
    <2>1. /\ child.state = "forked" /\ sh' = sh /\ files' = files /\ frames' = frames
          /\ todo' = todo /\ pinned' = pinned
        BY <1>3 DEF ChildExecs
    <2>2. child \in [state : {"forked"}, cmd : Commands, sh : ShellRecord, todo : Assignments]
        BY <2>1 DEF IInv, TypeOK, Processes
    <2>3. child' \in Processes /\ child'.state # "forked"
        <3>1. CASE Found(child.sh, child.cmd) = NoPath
            BY <1>3, <3>1 DEF ChildExecs, Processes
        <3>2. CASE Found(child.sh, child.cmd) # NoPath
            <4>1. Found(child.sh, child.cmd) \in Paths
                BY <2>2, <3>2, FindCommandFacts
            <4>2. VarGetEnviron(child.sh) \in Valuations
                BY <2>1, <2>2, EnvironFacts DEF IInv, TypeOK
            <4> QED BY <1>3, <3>2, <4>1, <4>2 DEF ChildExecs, Processes
        <3> QED BY <3>1, <3>2
    <2>4. TypeOK' /\ CacheFollowsPath'
        BY <2>1, <2>3 DEF IInv, TypeOK, CacheFollowsPath
    <2> QED BY <2>1, <2>4, ChildAlone, OutsideStep
<1>4. CASE ChildReaped
    <2>1. /\ child.state \in {"executed", "failed"} /\ child' = [state |-> "none"]
          /\ sh' = sh /\ files' = files /\ frames' = frames /\ todo' = todo /\ pinned' = pinned
        BY <1>4 DEF ChildReaped, NoChild
    <2>2. TypeOK' /\ CacheFollowsPath'
        BY <2>1 DEF IInv, TypeOK, CacheFollowsPath, Processes
    <2> QED BY <2>1, <2>2, ChildAlone, OutsideStep
<1> QED BY <1>1, <1>2, <1>3, <1>4 DEF External

\* Files come and go beside a command that is being run, or between commands.
LEMMA FilesStep == ASSUME IInv, FilesChange PROVE IInv'
<1>1. /\ todo = <<>> /\ (frames # <<>> => Top.next = 0) /\ files' \in SUBSET Paths
      /\ sh' = sh /\ frames' = frames /\ todo' = todo /\ child' = child /\ pinned' = pinned
    BY DEF FilesChange, IInv, TypeOK
<1>2. TypeOK' /\ CacheFollowsPath'
    BY <1>1 DEF IInv, TypeOK, CacheFollowsPath
<1> QED BY <1>1, <1>2, OutsideStep

\* Every step preserves the invariant.
LEMMA NextIInv == IInv /\ [Next]_vars => IInv'
<1> SUFFICES ASSUME IInv, [Next]_vars PROVE IInv'
    OBVIOUS
<1>1. CASE Builtin
    BY <1>1, BuiltinStep
<1>2. CASE Temporary
    BY <1>2, BeginStep, SaveStep, EndStep, RestoreStep, ReturnStep DEF Temporary
<1>3. CASE External
    BY <1>3, ExternalStep
<1>4. CASE FilesChange
    BY <1>4, FilesStep
<1>5. CASE UNCHANGED vars
    BY <1>5 DEF vars, IInv, TypeOK, CacheFollowsPath, StageInv, ApplyInv, UndoInv, Top
<1> QED BY <1>1, <1>2, <1>3, <1>4, <1>5 DEF Next

\* The invariant holds in every reachable state.
THEOREM AlwaysIInv == Spec => []IInv
<1>1. Init => IInv
    BY InitIInv
<1>2. IInv /\ [Next]_vars => IInv'
    BY NextIInv
<1> QED BY <1>1, <1>2, PTL DEF Spec

-------------------------------------------------------------------------------
(* The properties.                                                           *)

\* Every reachable state is of the right type (t_var, t_cmd_hash, t_shell).
THEOREM TypeCorrect == Spec => []TypeOK
<1>1. IInv => TypeOK
    BY DEF IInv
<1> QED BY <1>1, AlwaysIInv, PTL

\* The command cache never outlives the PATH it was filled from.
THEOREM CacheIsCurrent == Spec => []CacheFollowsPath
<1>1. IInv => CacheFollowsPath
    BY DEF IInv
<1> QED BY <1>1, AlwaysIInv, PTL

\* A name given once before a builtin has its value back when that returns.
THEOREM Undone == Spec => []TemporariesUndone
<1>1. IInv => TemporariesUndone
    <2> SUFFICES ASSUME IInv, Ending, NEW k \in DOMAIN Top.saved, Once(k, Top.saved)
                 PROVE  VarGetValue(sh, Top.saved[k].name) = Top.before[Top.saved[k].name]
        BY DEF TemporariesUndone
    <2>1. frames # <<>> /\ Top.next > Len(Top.saved)
        BY DEF Ending
    <2>2. Top \in Frame
        BY <2>1, TopFacts DEF IInv, TypeOK
    <2>3. Top.next # 0 /\ k < Top.next
        BY <2>1, <2>2 DEF Frame
    <2> QED BY <2>1, <2>3 DEF IInv, UndoInv
<1> QED BY <1>1, AlwaysIInv, PTL

\* An exported variable keeps its flag until it is unset.
THEOREM ExportIsKept == Spec => ExportSticks
<1> DEFINE Kept == \A n \in sh.exported : n \notin sh'.exported =>
                      \/ sh'.value[n] = Absent /\ frames' = frames
                      \/ sh'.value[n] = Absent /\ Top.before[n] = Null
<1>1. ASSUME IInv, [Next]_vars PROVE Kept
    <2>1. sh \in ShellRecord /\ sh.value \in [Names -> Stored] /\ sh.exported \in SUBSET Names
        BY <1>1 DEF IInv, TypeOK, ShellRecord
    <2>2. ASSUME NEW n \in Names, NEW s \in ShellRecord
          PROVE  s.exported \subseteq VarExport(s, n).exported
        <3>1. CASE n \in Identifiers
            BY <3>1, VarExportFacts
        <3>2. CASE n \notin Identifiers
            BY <3>2 DEF VarExport
        <3> QED BY <3>1, <3>2
    <2>3. ASSUME NEW n \in Names, NEW v \in Values
          PROVE  VarSet(sh, n, v) \in ShellRecord /\ VarSet(sh, n, v).exported = sh.exported
        <3>1. CASE n \in Identifiers
            BY <2>1, <3>1, VarSetFacts DEF Given
        <3>2. CASE n \notin Identifiers
            BY <2>1, <3>2 DEF VarSet
        <3> QED BY <3>1, <3>2
    <2>4. ASSUME NEW n \in Names
          PROVE  \/ VarUnset(sh, n) = sh
                 \/ /\ VarUnset(sh, n).exported = sh.exported \ {n}
                    /\ VarUnset(sh, n).value[n] = Absent
        <3>1. CASE sh.value[n] = Absent
            BY <3>1 DEF VarUnset, Var
        <3>2. CASE sh.value[n] # Absent
            <4>1. /\ VarUnset(sh, n).value = [sh.value EXCEPT ![n] = Absent]
                  /\ VarUnset(sh, n).exported = sh.exported \ {n}
                BY <2>1, <3>2, VarUnsetFacts
            <4> QED BY <2>1, <4>1
        <3> QED BY <3>1, <3>2
    <2>5. CASE Builtin
        <3>1. ASSUME NEW n \in Names, ExportName(n) PROVE Kept
            BY <2>1, <2>2, <3>1 DEF ExportName
        <3>2. ASSUME NEW n \in Names, UnsetName(n) PROVE Kept
            BY <2>4, <3>2 DEF UnsetName, Rest
        <3>3. ASSUME NEW n \in Names, NEW v \in Values, Assign(n, v) PROVE Kept
            BY <2>3, <3>3 DEF Assign
        <3>4. ASSUME NEW n \in Names, NEW v \in Values, ExportAssignment(n, v) PROVE Kept
            <4>1. sh.exported \subseteq VarExport(VarSet(sh, n, v), n).exported
                BY <2>2, <2>3
            <4> QED BY <3>4, <4>1 DEF ExportAssignment
        <3>5. ASSUME NEW c \in Commands, NEW clear \in BOOLEAN, HashResolve(c, clear) PROVE Kept
            <4> DEFINE s == IF clear THEN CmdHashClear(sh) ELSE sh
            <4>1. s \in ShellRecord /\ s.exported = sh.exported
                BY <2>1, ConstantFacts DEF CmdHashClear, ShellRecord
            <4>2. sh'.exported = sh.exported
                <5> HIDE DEF s
                <5>1. FindCommand(s, c).exported = s.exported
                    BY <4>1, FindCommandFacts
                <5> QED BY <3>5, <4>1, <5>1 DEF HashResolve, s
            <4> QED BY <4>2
        <3>6. ASSUME NEW c \in Commands, NEW p, HashDelete(c) \/ HashPreset(c, p) \/ HashClear PROVE Kept
            BY <2>1, <3>6 DEF HashDelete, HashPreset, HashClear, CmdHashClear, ShellRecord
        <3>7. CASE HashClear
            BY <2>1, <3>7 DEF HashClear, CmdHashClear, ShellRecord
        <3> QED BY <2>5, <3>1, <3>2, <3>3, <3>4, <3>5, <3>6, <3>7 DEF Builtin
    <2>6. CASE Temporary
        <3>1. CASE SaveAndApply
            <4>1. Head(todo)[1] \in Identifiers /\ Head(todo)[2] \in Values
                BY <1>1, <3>1 DEF SaveAndApply, IInv, TypeOK, Assignments
            <4>2. sh'.exported = sh.exported
                BY <2>3, <3>1, <4>1, ConstantFacts DEF SaveAndApply
            <4> QED BY <4>2
        <3>2. CASE RestoreAssign
            <4> DEFINE e == Top.saved[Top.next]
            <4>1. /\ frames # <<>> /\ Top.next \in 1..Len(Top.saved)
                  /\ sh' = IF e.old = Null THEN VarUnset(sh, e.name) ELSE VarSet(sh, e.name, e.old)
                BY <3>2 DEF RestoreAssign
            <4>2. Top \in Frame /\ SavedInv(Top)
                BY <1>1, <4>1, TopFacts DEF IInv, TypeOK, Top
            <4>3. Top.saved \in Seq([name : Identifiers, old : Values \cup {Null}])
                BY <4>2 DEF Frame
            <4>4. e \in [name : Identifiers, old : Values \cup {Null}]
                BY <4>1, <4>3, ElementOfSeq
            <4>5. e.old = Null => Top.before[e.name] = Null
                BY <4>1, <4>2, <4>3 DEF SavedInv
            <4> HIDE DEF e
            <4>6. e.name \in Names
                BY <4>4, ConstantFacts
            <4> QED BY <2>3, <2>4, <4>1, <4>4, <4>5, <4>6
        <3>3. CASE \/ \E as \in Prefixes : BeginBuiltin(as)
                   \/ BuiltinEnds \/ BuiltinReturns
            BY <3>3 DEF BeginBuiltin, BuiltinEnds, BuiltinReturns
        <3> QED BY <2>6, <3>1, <3>2, <3>3 DEF Temporary
    <2>7. CASE External
        <3>1. ASSUME NEW c \in Commands, FindCommand(sh, c) = sh' PROVE Kept
            BY <2>1, <3>1, FindCommandFacts
        <3> QED BY <2>7, <3>1 DEF External, Fork, ChildAssigns, ChildExecs, ChildReaped
    <2>8. CASE FilesChange \/ UNCHANGED vars
        BY <2>8 DEF FilesChange, vars
    <2> QED BY <1>1, <2>5, <2>6, <2>7, <2>8 DEF Next
<1>2. IInv /\ [Next]_vars => [Kept]_vars
    BY <1>1
<1> QED BY <1>2, AlwaysIInv, PTL DEF Spec, ExportSticks

-------------------------------------------------------------------------------
(* The refinement: each step is a step of Environment, or leaves it alone.   *)

\* The process the environment sees, of an idle and of a forked child.
LEMMA ProcessFacts ==
    /\ child.state # "forked" => Process = child
    /\ child.state = "forked" =>
          Process = [state |-> "forked", cmd |-> child.cmd,
                     value |-> child.sh.value, exported |-> child.sh.exported]
    /\ Process.state = child.state
BY DEF Process

\* A write of the shell's variables, with no command running, is one of Env's.
LEMMA StoreStep ==
    ASSUME IInv, child.state = "none", UNCHANGED <<files, child, pinned>>,
           NEW n \in Names,
           \/ sh'.value = sh.value /\ sh'.exported = sh.exported
           \/ \E v \in Values : /\ sh'.value = [sh.value EXCEPT ![n] = v]
                                /\ sh'.exported \in {sh.exported, sh.exported \cup {n}}
           \/ sh'.value = [sh.value EXCEPT ![n] = Absent] /\ sh'.exported = sh.exported \ {n}
           \/ /\ sh'.value = [sh.value EXCEPT ![n] = VarGetValue(sh, n)]
              /\ sh'.exported = sh.exported \cup {n}
    PROVE  [Env!Next]_(Env!vars)
<1>1. Process = child /\ Process' = Process /\ child.state = "none"
    BY DEF Process
<1>2. Env!Idle
    BY <1>1 DEF Env!Idle
<1>3. CASE sh'.value = sh.value /\ sh'.exported = sh.exported
    BY <1>1, <1>3 DEF Env!vars
<1>4. CASE \E v \in Values : /\ sh'.value = [sh.value EXCEPT ![n] = v]
                             /\ sh'.exported \in {sh.exported, sh.exported \cup {n}}
    <2>1. Env!Set \/ Env!SetExported
        BY <1>4 DEF Env!Set, Env!SetExported
    <2> QED BY <1>1, <1>2, <2>1 DEF Env!Store, Env!Next
<1>5. CASE sh'.value = [sh.value EXCEPT ![n] = Absent] /\ sh'.exported = sh.exported \ {n}
    BY <1>1, <1>2, <1>5 DEF Env!Unset, Env!Store, Env!Next
<1>6. CASE /\ sh'.value = [sh.value EXCEPT ![n] = VarGetValue(sh, n)]
           /\ sh'.exported = sh.exported \cup {n}
    BY <1>1, <1>2, <1>6 DEF Env!Export, Env!Store, Env!Next, Env!Got, VarGetValue, Var
<1> QED BY <1>3, <1>4, <1>5, <1>6

\* The shell's operations, as writes of values and flags.
LEMMA SetWrites ==
    ASSUME NEW s \in ShellRecord, NEW n \in Names, NEW v \in Values
    PROVE  \/ VarSet(s, n, v) = s
           \/ /\ VarSet(s, n, v).value = [s.value EXCEPT ![n] = v]
              /\ VarSet(s, n, v).exported = s.exported
<1>1. CASE n \in Identifiers BY <1>1, VarSetFacts DEF Given
<1>2. CASE n \notin Identifiers BY <1>2 DEF VarSet
<1> QED BY <1>1, <1>2

LEMMA UnsetWrites ==
    ASSUME NEW s \in ShellRecord, NEW n \in Names
    PROVE  \/ VarUnset(s, n) = s
           \/ /\ VarUnset(s, n).value = [s.value EXCEPT ![n] = Absent]
              /\ VarUnset(s, n).exported = s.exported \ {n}
<1>1. CASE s.value[n] = Absent BY <1>1 DEF VarUnset, Var
<1>2. CASE s.value[n] # Absent BY <1>2, VarUnsetFacts
<1> QED BY <1>1, <1>2

LEMMA ExportWrites ==
    ASSUME NEW s \in ShellRecord, NEW n \in Names
    PROVE  \/ VarExport(s, n) = s
           \/ /\ VarExport(s, n).value = [s.value EXCEPT ![n] = VarGetValue(s, n)]
              /\ VarExport(s, n).exported = s.exported \cup {n}
<1>1. CASE n \in Identifiers BY <1>1, VarExportFacts
<1>2. CASE n \notin Identifiers BY <1>2 DEF VarExport
<1> QED BY <1>1, <1>2

\* Assigning and exporting at once stores one value and one flag.
LEMMA SetThenExport ==
    ASSUME NEW s \in ShellRecord, NEW n \in Names, NEW v \in Values
    PROVE  \/ VarExport(VarSet(s, n, v), n) = s
           \/ /\ n \in Identifiers
              /\ VarExport(VarSet(s, n, v), n).value = [s.value EXCEPT ![n] = v]
              /\ VarExport(VarSet(s, n, v), n).exported = s.exported \cup {n}
<1> DEFINE t == VarSet(s, n, v)
<1>1. CASE n \notin Identifiers
    BY <1>1 DEF VarSet, VarExport
<1>2. CASE n \in Identifiers
    <2>1. t \in ShellRecord /\ t.value = [s.value EXCEPT ![n] = v] /\ t.exported = s.exported
        BY <1>2, VarSetFacts DEF Given
    <2> HIDE DEF t
    <2>2. /\ VarExport(t, n).value = [t.value EXCEPT ![n] = VarGetValue(t, n)]
          /\ VarExport(t, n).exported = t.exported \cup {n}
        BY <1>2, <2>1, VarExportFacts
    <2>3. s.value \in [Names -> Stored]
        BY DEF ShellRecord
    <2>4. VarGetValue(t, n) = v
        BY <2>1, <2>3, VariablesAssumption DEF VarGetValue, Var
    <2>5. [t.value EXCEPT ![n] = VarGetValue(t, n)] = [s.value EXCEPT ![n] = v]
        BY <2>1, <2>3, <2>4
    <2> QED BY <1>2, <2>1, <2>2, <2>5 DEF t
<1> QED BY <1>1, <1>2

\* The builtins write variables one at a time, or only the cache and the pins.
LEMMA BuiltinRefines == ASSUME IInv, Builtin PROVE [Env!Next]_(Env!vars)
<1>1. sh \in ShellRecord
    BY DEF IInv, TypeOK
<1>2. ASSUME NEW n \in Names, ExportName(n) PROVE [Env!Next]_(Env!vars)
    <2>1. child.state = "none" /\ UNCHANGED <<files, child, pinned>> /\ sh' = VarExport(sh, n)
        BY <1>2 DEF ExportName, Ready, Rest
    <2>2. \/ sh' = sh
          \/ /\ sh'.value = [sh.value EXCEPT ![n] = VarGetValue(sh, n)]
             /\ sh'.exported = sh.exported \cup {n}
        BY <1>1, <2>1, ExportWrites
    <2> QED BY <2>1, <2>2, StoreStep
<1>3. ASSUME NEW n \in Names, UnsetName(n) PROVE [Env!Next]_(Env!vars)
    <2>1. /\ child.state = "none" /\ UNCHANGED <<files, child, pinned>>
          /\ sh' = sh \/ sh' = VarUnset(sh, n)
        BY <1>3 DEF UnsetName, Ready, Rest
    <2>2. \/ sh' = sh
          \/ /\ sh'.value = [sh.value EXCEPT ![n] = Absent]
             /\ sh'.exported = sh.exported \ {n}
        BY <1>1, <2>1, UnsetWrites
    <2> QED BY <2>1, <2>2, StoreStep
<1>4. ASSUME NEW n \in Names, NEW v \in Values, Assign(n, v) PROVE [Env!Next]_(Env!vars)
    <2>1. child.state = "none" /\ UNCHANGED <<files, child, pinned>> /\ sh' = VarSet(sh, n, v)
        BY <1>4 DEF Assign, Ready, Rest
    <2>2. \/ sh' = sh
          \/ sh'.value = [sh.value EXCEPT ![n] = v] /\ sh'.exported = sh.exported
        BY <1>1, <2>1, SetWrites
    <2> QED BY <2>1, <2>2, StoreStep
<1>5. ASSUME NEW n \in Names, NEW v \in Values, ExportAssignment(n, v)
      PROVE  [Env!Next]_(Env!vars)
    <2>1. /\ child.state = "none" /\ UNCHANGED <<files, child, pinned>>
          /\ sh' = VarExport(VarSet(sh, n, v), n)
        BY <1>5 DEF ExportAssignment, Ready, Rest
    <2>2. \/ sh' = sh
          \/ sh'.value = [sh.value EXCEPT ![n] = v] /\ sh'.exported = sh.exported \cup {n}
        BY <1>1, <2>1, SetThenExport
    <2> QED BY <2>1, <2>2, StoreStep
<1>6. ASSUME NEW c \in Commands, NEW p \in PinPaths, HashPreset(c, p)
      PROVE  [Env!Next]_(Env!vars)
    <2>1. /\ child.state = "none" /\ UNCHANGED <<files, child>>
          /\ sh'.value = sh.value /\ sh'.exported = sh.exported
          /\ pinned' = pinned \cup {<<c, p>>}
        BY <1>1, <1>6 DEF HashPreset, Ready, Rest, ShellRecord
    <2>2. Env!Pin
        BY <2>1, VariablesAssumption DEF Env!Pin, Env!Idle, Env!Paths, Paths, Process
    <2> QED BY <2>2 DEF Env!Next
<1>7. ASSUME sh'.value = sh.value, sh'.exported = sh.exported,
             UNCHANGED <<files, child, pinned>>
      PROVE  [Env!Next]_(Env!vars)
    BY <1>7 DEF Env!vars, Process
<1>8. CASE HashClear
    BY <1>1, <1>7, <1>8 DEF HashClear, CmdHashClear, ShellRecord, Rest
<1>9. ASSUME NEW c \in Commands, HashDelete(c) PROVE [Env!Next]_(Env!vars)
    BY <1>1, <1>7, <1>9 DEF HashDelete, ShellRecord, Rest
<1>10. ASSUME NEW c \in Commands, NEW clear \in BOOLEAN, HashResolve(c, clear)
       PROVE  [Env!Next]_(Env!vars)
    <2> DEFINE s == IF clear THEN CmdHashClear(sh) ELSE sh
    <2>1. s \in ShellRecord /\ s.value = sh.value /\ s.exported = sh.exported
        BY <1>1, ConstantFacts DEF CmdHashClear, ShellRecord
    <2>2. sh' = FindCommand(s, c) /\ UNCHANGED <<files, child, pinned>>
        BY <1>10 DEF HashResolve, Rest
    <2> HIDE DEF s
    <2>3. sh'.value = sh.value /\ sh'.exported = sh.exported
        BY <2>1, <2>2, FindCommandFacts
    <2> QED BY <1>7, <2>2, <2>3
<1> QED BY <1>2, <1>3, <1>4, <1>5, <1>6, <1>8, <1>9, <1>10 DEF Builtin

\* Applying and undoing assignments are writes; the rest of a scope is unseen.
LEMMA TemporaryRefines == ASSUME IInv, Temporary PROVE [Env!Next]_(Env!vars)
<1>1. sh \in ShellRecord
    BY DEF IInv, TypeOK
<1>2. CASE SaveAndApply
    <2> DEFINE n == Head(todo)[1]
               v == Head(todo)[2]
    <2>1. /\ child.state = "none" /\ UNCHANGED <<files, child, pinned>>
          /\ sh' = VarSet(sh, n, v)
        BY <1>2 DEF SaveAndApply
    <2>2. Head(todo) \in Identifiers \X Values
        BY <1>2 DEF SaveAndApply, IInv, TypeOK, Assignments
    <2>3. n \in Names /\ v \in Values
        BY <2>2, ConstantFacts
    <2> HIDE DEF n, v
    <2>4. \/ sh' = sh
          \/ sh'.value = [sh.value EXCEPT ![n] = v] /\ sh'.exported = sh.exported
        BY <1>1, <2>1, <2>3, SetWrites
    <2> QED BY <2>1, <2>3, <2>4, StoreStep
<1>3. CASE RestoreAssign
    <2> DEFINE e == Top.saved[Top.next]
    <2>1. /\ frames # <<>> /\ Top.next \in 1..Len(Top.saved)
          /\ sh' = IF e.old = Null THEN VarUnset(sh, e.name) ELSE VarSet(sh, e.name, e.old)
          /\ UNCHANGED <<files, child, pinned>>
        BY <1>3 DEF RestoreAssign
    <2>2. Top \in Frame
        BY <2>1, TopFacts DEF IInv, TypeOK
    <2>3. Top.saved \in Seq([name : Identifiers, old : Values \cup {Null}])
        BY <2>2 DEF Frame
    <2>4. e \in [name : Identifiers, old : Values \cup {Null}]
        BY <2>1, <2>3, ElementOfSeq
    <2>5. child.state = "none"
        BY <2>1 DEF IInv, StageInv
    <2> HIDE DEF e
    <2>6. e.name \in Names
        BY <2>4, ConstantFacts
    <2>7. \/ sh' = sh
          \/ /\ sh'.value = [sh.value EXCEPT ![e.name] = Absent]
             /\ sh'.exported = sh.exported \ {e.name}
          \/ /\ e.old \in Values
             /\ sh'.value = [sh.value EXCEPT ![e.name] = e.old]
             /\ sh'.exported = sh.exported
        <3>1. CASE e.old = Null BY <1>1, <2>1, <2>6, <3>1, UnsetWrites
        <3>2. CASE e.old # Null
            <4>1. e.old \in Values BY <2>4, <3>2
            <4> QED BY <1>1, <2>1, <2>6, <3>2, <4>1, SetWrites
        <3> QED BY <3>1, <3>2
    <2> QED BY <2>1, <2>5, <2>6, <2>7, StoreStep
<1>4. CASE \/ \E as \in Prefixes : BeginBuiltin(as)
           \/ BuiltinEnds \/ BuiltinReturns
    BY <1>4 DEF BeginBuiltin, BuiltinEnds, BuiltinReturns, Env!vars, Process
<1> QED BY <1>2, <1>3, <1>4 DEF Temporary

\* A forked child, as a record.
Forked == [state : {"forked"}, cmd : Commands, sh : ShellRecord, todo : Assignments]

LEMMA ForkedFacts ==
    ASSUME IInv, child.state = "forked"
    PROVE  child \in Forked /\ SoundShell(child.sh, pinned)
BY DEF IInv, TypeOK, CacheFollowsPath, Processes, Forked, SoundShell

\* A lookup that succeeds finds a file that exists, on PATH or pinned.
LEMMA FoundIsReachable ==
    ASSUME NEW s, SoundShell(s, pinned), NEW c \in Commands, Found(s, c) # NoPath
    PROVE  Found(s, c) \in Env!OnPath(s.value, c) \cup Env!Pins(c)
<1>1. s \in ShellRecord /\ Current(s, pinned)
    BY DEF SoundShell
<1>2. /\ Found(s, c) \in files \cap Paths
      /\ \/ Found(s, c) = s.hash[c]
         \/ /\ s.value["PATH"] \in Values
            /\ \E i \in DOMAIN PathDirs[s.value["PATH"]] :
                   Found(s, c) = <<PathDirs[s.value["PATH"]][i], c>>
    BY <1>1, FindCommandFacts
<1>3. \/ <<c, Found(s, c)>> \in pinned
      \/ /\ s.value["PATH"] \in Values
         /\ \E i \in DOMAIN PathDirs[s.value["PATH"]] :
                Found(s, c) = <<PathDirs[s.value["PATH"]][i], c>>
    BY <1>1, <1>2 DEF Current
<1>4. CASE <<c, Found(s, c)>> \in pinned
    BY <1>2, <1>4 DEF Env!Pins
<1>5. CASE /\ s.value["PATH"] \in Values
           /\ \E i \in DOMAIN PathDirs[s.value["PATH"]] :
                  Found(s, c) = <<PathDirs[s.value["PATH"]][i], c>>
    BY <1>2, <1>5 DEF Env!OnPath
<1> QED BY <1>3, <1>4, <1>5

\* A lookup that fails leaves no file on PATH.
LEMMA NotFoundIsNowhere ==
    ASSUME NEW s \in ShellRecord, NEW c \in Commands, Found(s, c) = NoPath
    PROVE  Env!OnPath(s.value, c) = {}
<1>1. CASE s.value["PATH"] \in Values
    <2>1. VarGetValue(s, "PATH") = s.value["PATH"] /\ s.value["PATH"] # Null
        BY <1>1, VariablesAssumption DEF VarGetValue, Var
    <2>2. SearchPath(s.value["PATH"], c) = NoPath
        BY <2>1 DEF Found, Walk
    <2>3. \A i \in DOMAIN PathDirs[s.value["PATH"]] :
              <<PathDirs[s.value["PATH"]][i], c>> \notin files
        BY <1>1, <2>2, SearchPathFails
    <2> QED BY <1>1, <2>3 DEF Env!OnPath
<1>2. CASE s.value["PATH"] \notin Values
    BY <1>2 DEF Env!OnPath
<1> QED BY <1>1, <1>2

\* An external command is forked, given its variables, executed and reaped.
LEMMA ExternalRefines == ASSUME IInv, External PROVE [Env!Next]_(Env!vars)
<1>1. ASSUME NEW c \in Commands, NEW as \in Prefixes \cup {<<>>}, NEW prewarm \in BOOLEAN,
             Fork(c, as, prewarm)
      PROVE  [Env!Next]_(Env!vars)
    <2>1. /\ child.state = "none" /\ files' = files /\ pinned' = pinned
          /\ sh' = (IF prewarm THEN FindCommand(sh, c) ELSE sh)
          /\ child' = [state |-> "forked", cmd |-> c, sh |-> sh', todo |-> as]
        BY <1>1 DEF Fork, Ready
    <2>2. sh \in ShellRecord
        BY DEF IInv, TypeOK
    <2>3. sh'.value = sh.value /\ sh'.exported = sh.exported
        BY <2>1, <2>2, FindCommandFacts
    <2>4. Process' = [state |-> "forked", cmd |-> c,
                      value |-> sh.value, exported |-> sh.exported]
        BY <2>1, <2>3 DEF Process
    <2>5. Env!Fork
        BY <2>1, <2>3, <2>4 DEF Env!Fork, Env!Idle, Process
    <2> QED BY <2>5 DEF Env!Next
<1>2. CASE ChildAssigns
    <2> DEFINE n == Head(child.todo)[1]
               v == Head(child.todo)[2]
               t == VarExport(VarSet(child.sh, n, v), n)
    <2>1. /\ child.state = "forked" /\ child.todo # <<>>
          /\ child' = [child EXCEPT !.sh = t, !.todo = Tail(@)]
          /\ UNCHANGED <<sh, files, pinned>>
        BY <1>2 DEF ChildAssigns
    <2>2. child \in Forked
        BY <2>1, ForkedFacts
    <2>3. child.todo \in Seq(Identifiers \X Values)
        BY <2>2 DEF Forked, Assignments
    <2>4. Head(child.todo) \in Identifiers \X Values
        BY <2>1, <2>3
    <2>5. n \in Identifiers /\ n \in Names /\ v \in Values
        BY <2>4, ConstantFacts
    <2>6. child.sh \in ShellRecord
        BY <2>2 DEF Forked
    <2> HIDE DEF n, v
    <2>7. /\ t.value = [child.sh.value EXCEPT ![n] = v]
          /\ t.exported = child.sh.exported \cup {n}
        <3> v \in Given
            BY <2>5 DEF Given
        <3>1. VarSet(child.sh, n, v).value = [child.sh.value EXCEPT ![n] = v]
            BY <2>5, <2>6, VarSetFacts
        <3>2. /\ VarSet(child.sh, n, v) \in ShellRecord
              /\ VarSet(child.sh, n, v).exported = child.sh.exported
            BY <2>5, <2>6, VarSetFacts
        <3>3. child.sh.value \in [Names -> Stored]
            BY <2>6 DEF ShellRecord
        <3>4. VarGetValue(VarSet(child.sh, n, v), n) = v
            BY <2>5, <3>1, <3>3, VariablesAssumption DEF VarGetValue, Var
        <3>5. /\ t.value = [VarSet(child.sh, n, v).value EXCEPT ![n] = v]
              /\ t.exported = VarSet(child.sh, n, v).exported \cup {n}
            BY <2>5, <3>2, <3>4, VarExportFacts
        <3> QED BY <3>1, <3>2, <3>3, <3>5
    <2> HIDE DEF t
    <2>8. Process = [state |-> "forked", cmd |-> child.cmd,
                     value |-> child.sh.value, exported |-> child.sh.exported]
        BY <2>1 DEF Process
    <2>9. child'.state = "forked" /\ child'.cmd = child.cmd /\ child'.sh = t
        BY <2>1, <2>2 DEF Forked
    <2>10. Process' = [state |-> "forked", cmd |-> child.cmd,
                       value |-> t.value, exported |-> t.exported]
        BY <2>9 DEF Process
    <2>11. Env!ForChild
        <3>1. Process.state = "forked" /\ Process.cmd = child.cmd
              /\ Process.value = child.sh.value /\ Process.exported = child.sh.exported
            BY <2>8
        <3>2. Process' = [state |-> "forked", cmd |-> Process.cmd,
                          value |-> [Process.value EXCEPT ![n] = v],
                          exported |-> Process.exported \cup {n}]
            BY <2>7, <2>10, <3>1
        <3>3. \E m \in Names, w \in Values :
                  Process' = [state |-> "forked", cmd |-> Process.cmd,
                              value |-> [Process.value EXCEPT ![m] = w],
                              exported |-> Process.exported \cup {m}]
            BY <2>5, <3>2
        <3> QED BY <2>1, <3>1, <3>3 DEF Env!ForChild
    <2> QED BY <2>11 DEF Env!Next
<1>3. CASE ChildExecs
    <2>1. child.state = "forked" /\ UNCHANGED <<sh, files, pinned>>
        BY <1>3 DEF ChildExecs
    <2>2. child \in Forked /\ SoundShell(child.sh, pinned)
        BY <2>1, ForkedFacts
    <2>3. child.cmd \in Commands /\ child.sh \in ShellRecord /\ WellFormed(child.sh)
        BY <2>2 DEF Forked, SoundShell
    <2>4. Process = [state |-> "forked", cmd |-> child.cmd,
                     value |-> child.sh.value, exported |-> child.sh.exported]
        BY <2>1 DEF Process
    <2>5. CASE Found(child.sh, child.cmd) = NoPath
        <3>1. child' = [state |-> "failed"]
            BY <1>3, <2>5 DEF ChildExecs
        <3>2. Env!OnPath(child.sh.value, child.cmd) = {}
            BY <2>3, <2>5, NotFoundIsNowhere
        <3>3. Process' = [state |-> "failed"]
            BY <3>1 DEF Process
        <3>4. Process.state = "forked" /\ Process.value = child.sh.value /\ Process.cmd = child.cmd
            BY <2>4
        <3>5. Env!NotFound
            BY <2>1, <3>2, <3>3, <3>4 DEF Env!NotFound
        <3> QED BY <3>5 DEF Env!Next
    <2>6. CASE Found(child.sh, child.cmd) # NoPath
        <3>1. child' = [state |-> "executed", path |-> Found(child.sh, child.cmd),
                        env |-> VarGetEnviron(child.sh)]
            BY <1>3, <2>6 DEF ChildExecs
        <3>2. Found(child.sh, child.cmd)
                  \in Env!OnPath(child.sh.value, child.cmd) \cup Env!Pins(child.cmd)
            BY <2>2, <2>3, <2>6, FoundIsReachable
        <3>3. VarGetEnviron(child.sh) = Env!Exported(child.sh.value, child.sh.exported)
            BY <2>3, EnvironFacts DEF EnvEntries, Var, Env!Exported
        <3>4. Process' = [state |-> "executed", path |-> Found(child.sh, child.cmd),
                          env |-> Env!Exported(child.sh.value, child.sh.exported)]
            BY <3>1, <3>3 DEF Process
        <3>5. /\ Process.state = "forked" /\ Process.value = child.sh.value
              /\ Process.exported = child.sh.exported /\ Process.cmd = child.cmd
            BY <2>4
        <3>6. Env!Exec
            BY <2>1, <3>2, <3>4, <3>5 DEF Env!Exec
        <3> QED BY <3>6 DEF Env!Next
    <2> QED BY <2>5, <2>6
<1>4. CASE ChildReaped
    BY <1>4 DEF ChildReaped, NoChild, Env!Reap, Env!Next, Process
<1> QED BY <1>1, <1>2, <1>3, <1>4 DEF External

\* Variables, with its cache, its flags and its scopes, implements Environment.
THEOREM Implements == Spec => ImplementsEnvironment
<1>1. Init => Env!Init
    <2> SUFFICES ASSUME Init PROVE Env!Init
        OBVIOUS
    <2>1. PICK val \in [Names -> Values \cup {Absent}] :
              sh = [value |-> val, exported |-> {n \in Names : val[n] # Absent},
                    hash |-> Forgotten, dirty |-> TRUE, env |-> NoEnv]
        BY DEF Init
    <2>2. child = [state |-> "none"] /\ pinned = {} /\ files \in SUBSET Paths
        BY DEF Init, NoChild
    <2>3. Process = [state |-> "none"]
        BY <2>2 DEF Process
    <2> QED BY <2>1, <2>2, <2>3 DEF Env!Init, Env!Paths, Paths
<1>2. IInv /\ [Next]_vars => [Env!Next]_(Env!vars)
    <2> SUFFICES ASSUME IInv, [Next]_vars PROVE [Env!Next]_(Env!vars)
        OBVIOUS
    <2>1. CASE FilesChange
        <3>1. files' \in SUBSET Paths
            BY <2>1 DEF FilesChange, IInv, TypeOK
        <3> QED BY <2>1, <3>1
                DEF FilesChange, Env!FilesChange, Env!Next, Env!Paths, Paths, Process
    <2>2. CASE UNCHANGED vars
        BY <2>2 DEF vars, Env!vars, Process
    <2> QED BY <2>1, <2>2, BuiltinRefines, TemporaryRefines, ExternalRefines DEF Next
<1> QED BY <1>1, <1>2, AlwaysIInv, PTL DEF Spec, ImplementsEnvironment, Env!Spec
================================================================================
