------------------------------- MODULE Variables -------------------------------
(***************************************************************************)
(* The variables of 42sh (srcs/variables), the command path cache          *)
(* (command_hash*.c, command_search.c), the builtins that write them and   *)
(* the assignments that precede a command (exec_command.c).                *)
(*                                                                         *)
(* A shell record holds what fork copies: the variables, the cache, and    *)
(* the environment array with its dirty flag.  Operators on it are the     *)
(* functions of the source; actions are the shell's commands.  A builtin   *)
(* under temporary assignments, source among them, runs other commands     *)
(* between saving and restoring.  Exit statuses are left to Control.       *)
(*                                                                         *)
(* An operator whose name begins with Bad is not part of the model: it is  *)
(* the definition after it with a plausible slip.                          *)
(***************************************************************************)
EXTENDS Naturals, Sequences

CONSTANTS Names, Values, Commands, Dirs, PathDirs, Absent, Null, Empty, NoPath,
          Identifiers,  \* the names var_is_valid_identifier accepts
          Prefixes,     \* bound: the assignments that precede a command
          PinPaths,     \* bound: the paths given to hash -p
          MaxDepth      \* bound: nested commands with temporary assignments

Paths  == Dirs \X Commands
Stored == Values \cup {Absent, Null}
NoEnv  == [n \in {} |-> Empty]   \* shell->env, when it is NULL

ASSUME VariablesAssumption ==
    /\ "PATH" \in Identifiers /\ Identifiers \subseteq Names
    /\ PathDirs \in [Values -> Seq(Dirs)]
    /\ Empty \in Values
    /\ Absent \notin Values /\ Null \notin Values /\ Absent # Null
    /\ NoPath \notin Paths
    /\ Prefixes \subseteq Seq(Identifiers \X Values)
    /\ PinPaths \subseteq Paths
    /\ MaxDepth \in Nat

VARIABLES
    sh,      \* the shell: variables, command cache, environment array
    files,   \* the executable files that exist
    frames,  \* the running builtins with assignments, the innermost last
    todo,    \* assignments the innermost has still to save and apply
    child,   \* the process forked for an external command
    pinned   \* history: what hash -p was told

vars == <<sh, files, frames, todo, child, pinned>>

\* the child as the abstract specification sees it
Process ==
    IF child.state = "forked"
    THEN [state |-> "forked", cmd |-> child.cmd,
          value |-> child.sh.value, exported |-> child.sh.exported]
    ELSE child

Env == INSTANCE Environment WITH
           value <- sh.value, exported <- sh.exported, child <- Process

-------------------------------------------------------------------------------
(* The variable list.  A slip: assigning PATH keeps the cache; the export    *)
(* flag does not survive an assignment; the value outlives the variable.     *)

Var(s, n) == s.value[n]

VarGetValue(s, n) == IF Var(s, n) = Absent THEN Null ELSE Var(s, n)

Forgotten == [c \in Commands |-> NoPath]

CmdHashClear(s) == [s EXCEPT !.hash = Forgotten]

BadVarSetKeepsCache(s, n, v) ==
    IF n \notin Identifiers THEN s
    ELSE [s EXCEPT !.value[n] = v, !.dirty = TRUE]

BadVarSetUnexports(s, n, v) ==
    IF n \notin Identifiers THEN s
    ELSE [s EXCEPT !.value[n] = v, !.dirty = TRUE, !.exported = @ \ {n},
                   !.hash = IF n = "PATH" /\ Var(s, n) # Absent THEN Forgotten ELSE @]

\* only the assignment to an existing PATH empties the cache
VarSet(s, n, v) ==
    IF n \notin Identifiers THEN s
    ELSE [s EXCEPT !.value[n] = v, !.dirty = TRUE,
                   !.hash = IF n = "PATH" /\ Var(s, n) # Absent THEN Forgotten ELSE @]

BadVarUnset(s, n) ==
    IF Var(s, n) = Absent THEN s
    ELSE [s EXCEPT !.value[n] = Absent, !.dirty = TRUE,
                   !.hash = IF n = "PATH" THEN Forgotten ELSE @]

VarUnset(s, n) ==
    IF Var(s, n) = Absent THEN s
    ELSE [s EXCEPT !.value[n] = Absent, !.exported = @ \ {n}, !.dirty = TRUE,
                   !.hash = IF n = "PATH" THEN Forgotten ELSE @]

VarExport(s, n) ==
    IF n \notin Identifiers THEN s
    ELSE LET t == IF Var(s, n) = Absent THEN VarSet(s, n, Null) ELSE s
         IN  [t EXCEPT !.exported = @ \cup {n}, !.dirty = TRUE]

EnvEntries(s) ==
    [n \in s.exported |-> IF Var(s, n) = Null THEN Empty ELSE Var(s, n)]

\* the array is rebuilt unless one exists and nothing was written since
VarGetEnviron(s) == IF ~s.dirty /\ s.env # NoEnv THEN s.env ELSE EnvEntries(s)

-------------------------------------------------------------------------------
(* Command search.                                                           *)

\* access(path, X_OK) == 0
Executable(p) == p \in files

Listed(v, c) == {i \in DOMAIN PathDirs[v] : Executable(<<PathDirs[v][i], c>>)}

SearchPath(v, c) ==
    IF Listed(v, c) = {} THEN NoPath
    ELSE LET first == CHOOSE i \in Listed(v, c) : \A j \in Listed(v, c) : i <= j
         IN  <<PathDirs[v][first], c>>

\* slip: a cached path is trusted without looking
BadLookupCached(s, c) == s.hash[c]

LookupCached(s, c) ==
    IF s.hash[c] # NoPath /\ Executable(s.hash[c]) THEN s.hash[c] ELSE NoPath

Walk(s, c) ==
    IF VarGetValue(s, "PATH") = Null THEN NoPath
    ELSE SearchPath(VarGetValue(s, "PATH"), c)

\* the path find_command returns, and the shell it leaves
Found(s, c) == IF LookupCached(s, c) # NoPath THEN LookupCached(s, c) ELSE Walk(s, c)

FindCommand(s, c) ==
    IF Found(s, c) = NoPath THEN s ELSE [s EXCEPT !.hash[c] = Found(s, c)]

-------------------------------------------------------------------------------
(* Builtins.  One name or assignment per step: the loops over the arguments  *)
(* are sequences of these.                                                   *)

Top == frames[Len(frames)]

\* at a command, or inside a builtin that runs commands
Ready == child.state = "none" /\ todo = <<>> /\ (frames # <<>> => Top.next = 0)

Rest == <<files, frames, todo, child>>

\* NAME=value on its own, and set NAME=value
Assign(n, v) ==
    /\ Ready
    /\ sh' = VarSet(sh, n, v)
    /\ UNCHANGED <<Rest, pinned>>

ExportName(n) ==
    /\ Ready
    /\ sh' = VarExport(sh, n)
    /\ UNCHANGED <<Rest, pinned>>

ExportAssignment(n, v) ==
    /\ Ready
    /\ sh' = VarExport(VarSet(sh, n, v), n)
    /\ UNCHANGED <<Rest, pinned>>

UnsetName(n) ==
    /\ Ready
    /\ sh' = IF n \in Identifiers THEN VarUnset(sh, n) ELSE sh
    /\ UNCHANGED <<Rest, pinned>>

HashClear ==
    /\ Ready
    /\ sh' = CmdHashClear(sh)
    /\ UNCHANGED <<Rest, pinned>>

\* hash name, after a clear with -r
HashResolve(c, clear) ==
    /\ Ready
    /\ sh' = FindCommand(IF clear THEN CmdHashClear(sh) ELSE sh, c)
    /\ UNCHANGED <<Rest, pinned>>

HashDelete(c) ==
    /\ Ready
    /\ sh' = [sh EXCEPT !.hash[c] = NoPath]
    /\ UNCHANGED <<Rest, pinned>>

HashPreset(c, p) ==
    /\ Ready
    /\ sh' = [sh EXCEPT !.hash[c] = p]
    /\ pinned' = pinned \cup {<<c, p>>}
    /\ UNCHANGED Rest

-------------------------------------------------------------------------------
(* A builtin under temporary assignments (exec_builtin).  A frame keeps the  *)
(* arrays old_names and old_vals, and the next entry to restore.             *)

Saved(n) == [name |-> n, old |-> VarGetValue(sh, n)]

BeginBuiltin(as) ==
    /\ Ready /\ Len(frames) < MaxDepth
    /\ todo' = as
    /\ frames' = Append(frames, [saved |-> <<>>, next |-> 0,
                    before |-> [n \in {as[i][1] : i \in DOMAIN as} |->
                                    VarGetValue(sh, n)]])
    /\ UNCHANGED <<sh, files, child, pinned>>

\* slip: the value is saved after it was overwritten
BadSaveAndApply ==
    /\ todo # <<>> /\ child.state = "none"
    /\ sh' = VarSet(sh, Head(todo)[1], Head(todo)[2])
    /\ frames' = [frames EXCEPT ![Len(frames)].saved =
                    Append(@, [name |-> Head(todo)[1], old |-> Head(todo)[2]])]
    /\ todo' = Tail(todo)
    /\ UNCHANGED <<files, child, pinned>>

SaveAndApply ==
    /\ todo # <<>> /\ child.state = "none"
    /\ frames' = [frames EXCEPT ![Len(frames)].saved =
                    Append(@, Saved(Head(todo)[1]))]
    /\ sh' = VarSet(sh, Head(todo)[1], Head(todo)[2])
    /\ todo' = Tail(todo)
    /\ UNCHANGED <<files, child, pinned>>

\* the builtin, or its redirections, are over
BuiltinEnds ==
    /\ Ready /\ frames # <<>>
    /\ frames' = [frames EXCEPT ![Len(frames)].next = 1]
    /\ UNCHANGED <<sh, files, todo, child, pinned>>

RestoreAssign ==
    /\ frames # <<>> /\ Top.next \in 1..Len(Top.saved)
    /\ sh' = LET entry == Top.saved[Top.next]
             IN  IF entry.old = Null THEN VarUnset(sh, entry.name)
                 ELSE VarSet(sh, entry.name, entry.old)
    /\ frames' = [frames EXCEPT ![Len(frames)].next = @ + 1]
    /\ UNCHANGED <<files, todo, child, pinned>>

BuiltinReturns ==
    /\ frames # <<>> /\ Top.next > Len(Top.saved)
    /\ frames' = SubSeq(frames, 1, Len(frames) - 1)
    /\ UNCHANGED <<sh, files, todo, child, pinned>>

-------------------------------------------------------------------------------
(* An external command.  The shell looks it up before fork, unless it has    *)
(* assignments or runs in the background; the child applies its assignments  *)
(* and looks again.  The child has a copy of the shell, so when it runs      *)
(* matters to the files only, and the shell may as well wait.                *)

NoChild == [state |-> "none"]

Fork(c, as, prewarm) ==
    /\ Ready
    /\ prewarm => as = <<>>
    /\ sh' = IF prewarm THEN FindCommand(sh, c) ELSE sh
    /\ child' = [state |-> "forked", cmd |-> c, sh |-> sh', todo |-> as]
    /\ UNCHANGED <<files, frames, todo, pinned>>

\* one turn of apply_assignments with do_export
ChildAssigns ==
    /\ child.state = "forked" /\ child.todo # <<>>
    /\ LET a == Head(child.todo)
       IN  child' = [child EXCEPT !.sh = VarExport(VarSet(@, a[1], a[2]), a[1]),
                                  !.todo = Tail(@)]
    /\ UNCHANGED <<sh, files, frames, todo, pinned>>

\* find_command and execve, or 127
ChildExecs ==
    /\ child.state = "forked" /\ child.todo = <<>>
    /\ child' = IF Found(child.sh, child.cmd) = NoPath
                THEN [state |-> "failed"]
                ELSE [state |-> "executed", path |-> Found(child.sh, child.cmd),
                      env |-> VarGetEnviron(child.sh)]
    /\ UNCHANGED <<sh, files, frames, todo, pinned>>

ChildReaped ==
    /\ child.state \in {"executed", "failed"}
    /\ child' = NoChild
    /\ UNCHANGED <<sh, files, frames, todo, pinned>>

\* commands are installed and removed at any time
FilesChange ==
    /\ child.state \in {"none", "forked"} /\ todo = <<>>
    /\ frames # <<>> => Top.next = 0
    /\ \E p \in Paths : files' = IF p \in files THEN files \ {p} ELSE files \cup {p}
    /\ UNCHANGED <<sh, frames, todo, child, pinned>>

-------------------------------------------------------------------------------

\* var_init_from_environ: every name of the environment that is an identifier
Init ==
    /\ \E val \in [Names -> Values \cup {Absent}] :
          /\ \A n \in Names \ Identifiers : val[n] = Absent
          /\ sh = [value |-> val, exported |-> {n \in Names : val[n] # Absent},
                   hash |-> Forgotten, dirty |-> TRUE, env |-> NoEnv]
    /\ files \in SUBSET Paths
    /\ frames = <<>>
    /\ todo = <<>>
    /\ child = NoChild
    /\ pinned = {}

Builtin ==
    \/ \E n \in Names : ExportName(n) \/ UnsetName(n)
    \/ \E n \in Names, v \in Values : Assign(n, v) \/ ExportAssignment(n, v)
    \/ HashClear
    \/ \E c \in Commands : \/ HashDelete(c)
                           \/ \E p \in PinPaths : HashPreset(c, p)
                           \/ \E clear \in BOOLEAN : HashResolve(c, clear)

Temporary ==
    \/ \E as \in Prefixes : BeginBuiltin(as)
    \/ SaveAndApply \/ BuiltinEnds \/ RestoreAssign \/ BuiltinReturns

External ==
    \/ \E c \in Commands, as \in Prefixes \cup {<<>>}, prewarm \in BOOLEAN :
           Fork(c, as, prewarm)
    \/ ChildAssigns \/ ChildExecs \/ ChildReaped

Next == Builtin \/ Temporary \/ External \/ FilesChange

Spec == Init /\ [][Next]_vars

-------------------------------------------------------------------------------
(* Properties.                                                               *)

ShellRecord ==
    [value : [Names -> Stored], exported : SUBSET Names,
     hash : [Commands -> Paths \cup {NoPath}], dirty : BOOLEAN, env : {NoEnv}]

\* a shell has flags only for variables it has, and no other names
WellFormed(s) ==
    /\ \A n \in s.exported : s.value[n] # Absent
    /\ \A n \in Names \ Identifiers : s.value[n] = Absent

Valuations == UNION {[D -> Values \cup {Null}] : D \in SUBSET Names}

Frame == [saved : Seq([name : Identifiers, old : Values \cup {Null}]),
          next : Nat, before : Valuations]

Assignments == Seq(Identifiers \X Values)

Processes ==
    [state : {"none", "failed"}]
    \cup [state : {"forked"}, cmd : Commands, sh : ShellRecord, todo : Assignments]
    \cup [state : {"executed"}, path : Paths, env : Valuations]

\* Shell, frames and child stay in range: the list holds identifiers only and
\* an export flag belongs to a variable (t_var), in a child's copy as well.
TypeOK ==
    /\ sh \in ShellRecord /\ WellFormed(sh)
    /\ files \in SUBSET Paths
    /\ frames \in Seq(Frame)
    /\ todo \in Assignments
    /\ child \in Processes
    /\ child.state = "forked" => WellFormed(child.sh)
    /\ pinned \subseteq Commands \X Paths

Current(s, pins) ==
    \A c \in Commands : s.hash[c] # NoPath =>
        \/ <<c, s.hash[c]>> \in pins
        \/ /\ s.value["PATH"] \in Values
           /\ \E i \in DOMAIN PathDirs[s.value["PATH"]] :
                  s.hash[c] = <<PathDirs[s.value["PATH"]][i], c>>

\* The cache never outlives the PATH it was filled from: every entry is of a
\* directory of the present PATH, or was given with hash -p (cmd_hash_clear),
\* through temporary assignments to PATH, unset and creation again, in the
\* shell and in a child.
CacheFollowsPath ==
    /\ Current(sh, pinned)
    /\ child.state = "forked" => Current(child.sh, pinned)

Ending == frames # <<>> /\ Top.next > Len(Top.saved)

Once(i, saved) == \A j \in DOMAIN saved : saved[j].name = saved[i].name => j = i

\* When a builtin with temporary assignments returns, a name it was given once
\* has the value it had before, whatever the builtin did to it in between.
TemporariesUndone ==
    Ending => \A i \in DOMAIN Top.saved :
                  Once(i, Top.saved)
                      => VarGetValue(sh, Top.saved[i].name) = Top.before[Top.saved[i].name]

\* A variable stays exported until unset: assigning it, exporting others and
\* temporary assignments keep the flag.  (A temporary assignment to an exported
\* name that has no value is undone by an unset.)
ExportSticks ==
    [][\A n \in sh.exported : n \notin sh'.exported =>
           \/ sh'.value[n] = Absent /\ frames' = frames
           \/ sh'.value[n] = Absent /\ Top.before[n] = Null]_vars

\* Commands run with the exported variables and from the files that exist, as
\* if there were neither a cache nor scopes.
ImplementsEnvironment == Env!Spec
===============================================================================
