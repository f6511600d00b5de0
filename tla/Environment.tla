------------------------------ MODULE Environment ------------------------------
(***************************************************************************)
(* What the shell promises of variables and commands, with no cache and no *)
(* scope in sight: a command gets the exported variables of the process    *)
(* that executes it, and a name with no slash runs a file that PATH, or    *)
(* hash -p, leads to.  Variables is shown to implement this.               *)
(***************************************************************************)
EXTENDS Naturals, Sequences

CONSTANTS Names,      \* the names that occur, PATH among them
          Values,     \* the values of variables
          Commands,   \* the names of external commands
          Dirs,       \* the directories of PATH
          PathDirs,   \* the directories a value of PATH lists, in order
          Absent,     \* no variable of that name
          Null,       \* a variable with no value (export of an unset name)
          Empty,      \* the value with no characters
          NoPath      \* no file

Paths  == Dirs \X Commands
Stored == Values \cup {Absent, Null}

VARIABLES value, exported,  \* the shell's variables
          files,            \* the executable files that exist
          pinned,           \* what hash -p was ever told
          child             \* the process that is to execute a command

vars == <<value, exported, files, pinned, child>>

\* the value a lookup returns: a NULL pointer for an absent name too
Got(val, n) == IF val[n] = Absent THEN Null ELSE val[n]

\* what execve is given
Exported(val, ex) == [n \in ex |-> IF val[n] = Null THEN Empty ELSE val[n]]

\* the files PATH leads to
OnPath(val, c) ==
    IF val["PATH"] \in Values
    THEN {p \in files : \E i \in DOMAIN PathDirs[val["PATH"]] :
                            p = <<PathDirs[val["PATH"]][i], c>>}
    ELSE {}

Pins(c) == {p \in files : <<c, p>> \in pinned}

Idle == child.state = "none"

-------------------------------------------------------------------------------
Init ==
    /\ value \in [Names -> Values \cup {Absent}]
    /\ exported = {n \in Names : value[n] # Absent}
    /\ files \in SUBSET Paths
    /\ pinned = {}
    /\ child = [state |-> "none"]

\* every way to give a variable a value: it keeps its export flag
Set == \E n \in Names, v \in Values :
    /\ value' = [value EXCEPT ![n] = v]
    /\ exported' = exported

Unset == \E n \in Names :
    /\ value' = [value EXCEPT ![n] = Absent]
    /\ exported' = exported \ {n}

Export == \E n \in Names :
    /\ value' = [value EXCEPT ![n] = Got(value, n)]
    /\ exported' = exported \cup {n}

SetExported == \E n \in Names, v \in Values :
    /\ value' = [value EXCEPT ![n] = v]
    /\ exported' = exported \cup {n}

Store == /\ Idle /\ (Set \/ Unset \/ Export \/ SetExported)
         /\ UNCHANGED <<files, pinned, child>>

Pin == /\ Idle
       /\ \E c \in Commands, p \in Paths : pinned' = pinned \cup {<<c, p>>}
       /\ UNCHANGED <<value, exported, files, child>>

FilesChange ==
    /\ files' \in SUBSET Paths
    /\ UNCHANGED <<value, exported, pinned, child>>

Fork == /\ Idle
        /\ \E c \in Commands :
               child' = [state |-> "forked", cmd |-> c,
                         value |-> value, exported |-> exported]
        /\ UNCHANGED <<value, exported, files, pinned>>

\* an assignment before the command name is for the command alone
ForChild ==
    /\ child.state = "forked"
    /\ \E n \in Names, v \in Values :
           child' = [state |-> "forked", cmd |-> child.cmd,
                     value |-> [child.value EXCEPT ![n] = v],
                     exported |-> child.exported \cup {n}]
    /\ UNCHANGED <<value, exported, files, pinned>>

\* the command finds the exported variables, and is a file that exists
Exec ==
    /\ child.state = "forked"
    /\ \E p \in OnPath(child.value, child.cmd) \cup Pins(child.cmd) :
           child' = [state |-> "executed", path |-> p,
                     env |-> Exported(child.value, child.exported)]
    /\ UNCHANGED <<value, exported, files, pinned>>

\* only a command that PATH does not lead to is not found
NotFound ==
    /\ child.state = "forked"
    /\ OnPath(child.value, child.cmd) = {}
    /\ child' = [state |-> "failed"]
    /\ UNCHANGED <<value, exported, files, pinned>>

Reap ==
    /\ child.state \in {"executed", "failed"}
    /\ child' = [state |-> "none"]
    /\ UNCHANGED <<value, exported, files, pinned>>

Next == \/ Store \/ Pin \/ FilesChange
        \/ Fork \/ ForChild \/ Exec \/ NotFound \/ Reap

Spec == Init /\ [][Next]_vars
===============================================================================
