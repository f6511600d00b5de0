------------------------------ MODULE Descriptors ------------------------------
(***************************************************************************)
(* File descriptors of 42sh: redirections of builtins and groups, which    *)
(* are undone, and of children, which are not (redirections.c,             *)
(* exec_subshell.c, exec_command.c); the pipes of a pipeline               *)
(* (exec_pipeline.c); the descriptor a heredoc body waits on.              *)
(*                                                                         *)
(* A process has a descriptor table and the descriptor of the line's       *)
(* heredoc.  open, dup and pipe take the lowest free descriptor, so where  *)
(* the shell's own copies land depends on what is open.                    *)
(*                                                                         *)
(* An operator whose name begins with Bad is not part of the model: it is  *)
(* the definition after it with a plausible slip.                          *)
(***************************************************************************)
EXTENDS Naturals, Sequences, FiniteSets

CONSTANTS MaxFd,       \* bound: the highest descriptor a process may have
          MaxStages,   \* bound: stages of a pipeline (code: MAX_PIPELINE)
          MaxDepth,    \* bound: nested groups and builtins
          Lists,       \* bound: the redirection lists of a command
          StageLists,  \* bound: those of the stages of a pipeline
          StartClosed  \* the standard descriptors that may be closed at start

Fds  == 0..MaxFd
NoFd == MaxFd + 1      \* the -1 of the code

\* open file descriptions: the shell's own three, files, pipe ends
Closed   == <<"closed", 0>>
Std(i)   == <<"std", i>>
DevNull  == <<"null", 0>>
Body     == <<"body", 0>>
File(f)  == <<"file", f>>
ReadOf(k)  == <<"read", k>>
WriteOf(k) == <<"write", k>>

Redirs ==
    [kind : {"file"}, fd : Fds, to : Nat] \cup [kind : {"dup"}, fd : Fds, to : Fds]
    \cup [kind : {"close", "heredoc"}, fd : Fds, to : {0}]

ASSUME DescriptorsAssumption ==
    /\ MaxFd \in Nat /\ MaxFd >= 2
    /\ MaxStages \in Nat \ {0}
    /\ MaxDepth \in Nat
    /\ Lists \subseteq Seq(Redirs) /\ StageLists \subseteq Seq(Redirs)
    /\ StartClosed \subseteq 0..2

VARIABLES
    sh,      \* the shell: [tab, held]
    frames,  \* the running groups and builtins, the innermost last
    todo,    \* redirections of the innermost still to apply
    pipes,   \* the pipe ends the shell holds while it starts a pipeline
    stages   \* the children of the running pipeline or command

vars == <<sh, frames, todo, pipes, stages>>

-------------------------------------------------------------------------------
(* System calls on a table.                                                  *)

Lowest(t) ==
    IF \A fd \in Fds : t[fd] # Closed THEN NoFd
    ELSE CHOOSE fd \in Fds : t[fd] = Closed /\ \A g \in 0..(fd - 1) : t[g] # Closed

Put(t, fd, o) == IF fd = NoFd THEN t ELSE [t EXCEPT ![fd] = o]

CloseFd(t, fd) == Put(t, fd, Closed)

IsOpen(t, fd) == fd # NoFd /\ t[fd] # Closed

Dup2(t, from, fd) == IF IsOpen(t, from) THEN [t EXCEPT ![fd] = t[from]] ELSE t

\* dup: the new descriptor, and the table with it
DupTo(t, fd) == IF IsOpen(t, fd) THEN Lowest(t) ELSE NoFd
Dup(t, fd)   == IF IsOpen(t, fd) THEN Put(t, Lowest(t), t[fd]) ELSE t

-------------------------------------------------------------------------------
(* One redirection.  An outcome is a process, and whether the call succeeded.*)

\* fd 0 is opened on /dev/null before a file is, if it is closed
WithStdin(t) == IF t[0] = Closed THEN [t EXCEPT ![0] = DevNull] ELSE t

\* open, dup2, close: a file that was opened on the descriptor it is for is
\* closed again
OpenAs(t, fd, o) ==
    LET new == Lowest(t) IN CloseFd(Dup2(Put(t, new, o), new, fd), new)

RedirFile(p, r) ==
    LET t == WithStdin(p.tab)
    IN  {[p |-> [p EXCEPT !.tab = t], ok |-> FALSE]} \cup
        (IF Lowest(t) = NoFd THEN {}
         ELSE {[p |-> [p EXCEPT !.tab = OpenAs(t, r.fd, File(r.to))], ok |-> TRUE]})

RedirDup(p, r) ==
    {[p |-> [p EXCEPT !.tab = Dup2(@, r.to, r.fd)], ok |-> IsOpen(p.tab, r.to)]}

RedirClose(p, r) == {[p |-> [p EXCEPT !.tab = CloseFd(@, r.fd)], ok |-> TRUE]}

\* a heredoc whose body is gone opens no file
RedirHeredoc(p, r) ==
    IF p.held = NoFd
    THEN {[p |-> [p EXCEPT !.tab = WithStdin(@)], ok |-> FALSE]}
    ELSE {[p |-> [tab |-> CloseFd(Dup2(p.tab, p.held, r.fd), p.held), held |-> NoFd],
           ok |-> IsOpen(p.tab, p.held)]}

ApplyOneRedir(p, r) ==
    CASE r.kind = "file"    -> RedirFile(p, r)
      [] r.kind = "dup"     -> RedirDup(p, r)
      [] r.kind = "close"   -> RedirClose(p, r)
      [] r.kind = "heredoc" -> RedirHeredoc(p, r)

-------------------------------------------------------------------------------
(* Saving and restoring 0, 1 and 2.                                          *)

Saved(t) ==
    LET t0 == Dup(t, 0)
        t1 == Dup(t0, 1)
    IN  [fds |-> <<DupTo(t, 0), DupTo(t0, 1), DupTo(t1, 2)>>, tab |-> Dup(t1, 2)]

Restored(t, s) ==
    LET back == Dup2(Dup2(Dup2(t, s[1], 0), s[2], 1), s[3], 2)
    IN  CloseFd(CloseFd(CloseFd(back, s[1]), s[2]), s[3])

Top  == frames[Len(frames)]
Busy == stages # <<>> \/ pipes # <<>>
Ready == todo = <<>> /\ ~Busy

\* setup_redirections, up to its loop
BeginScope(list) ==
    /\ Ready /\ Len(frames) < MaxDepth
    /\ frames' = Append(frames, [saved |-> Saved(sh.tab).fds, before |-> sh.tab,
                                 touched |-> {}])
    /\ sh' = [sh EXCEPT !.tab = Saved(@).tab]
    /\ todo' = list
    /\ UNCHANGED <<pipes, stages>>

\* what the code cannot give back: it saves 0 to 2 only
Touch(fd, closing) ==
    [i \in DOMAIN frames |->
        [frames[i] EXCEPT !.touched = @ \cup ({fd, closing} \ (0..2 \cup {NoFd}))]]

ApplyRedir ==
    /\ todo # <<>> /\ ~Busy
    /\ \E out \in ApplyOneRedir(sh, Head(todo)) :
          /\ out.ok
          /\ sh' = out.p
          /\ frames' = Touch(Head(todo).fd,
                             IF sh.held = out.p.held THEN NoFd ELSE sh.held)
    /\ todo' = Tail(todo)
    /\ UNCHANGED <<pipes, stages>>

PopScope(p) ==
    /\ sh' = [p EXCEPT !.tab = Restored(@, Top.saved)]
    /\ frames' = SubSeq(frames, 1, Len(frames) - 1)

\* slip: a failure returns without restoring
BadRedirFails ==
    /\ todo # <<>> /\ ~Busy
    /\ \E out \in ApplyOneRedir(sh, Head(todo)) : ~out.ok /\ sh' = out.p
    /\ frames' = SubSeq(frames, 1, Len(frames) - 1)
    /\ todo' = <<>>
    /\ UNCHANGED <<pipes, stages>>

RedirFails ==
    /\ todo # <<>> /\ ~Busy
    /\ \E out \in ApplyOneRedir(sh, Head(todo)) : ~out.ok /\ PopScope(out.p)
    /\ todo' = <<>>
    /\ UNCHANGED <<pipes, stages>>

EndScope ==
    /\ Ready /\ frames # <<>>
    /\ PopScope(sh)
    /\ UNCHANGED <<todo, pipes, stages>>

-------------------------------------------------------------------------------
(* Lines: the parser leaves a body on a descriptor, ast_free closes it when  *)
(* no redirection took it.                                                   *)

HoldBody ==
    /\ Ready /\ frames = <<>> /\ sh.held = NoFd
    /\ Lowest(sh.tab) # NoFd
    /\ sh' = [tab |-> Put(sh.tab, Lowest(sh.tab), Body), held |-> Lowest(sh.tab)]
    /\ UNCHANGED <<frames, todo, pipes, stages>>

FreeLine ==
    /\ Ready /\ frames = <<>> /\ sh.held # NoFd
    /\ sh' = [tab |-> CloseFd(sh.tab, sh.held), held |-> NoFd]
    /\ UNCHANGED <<frames, todo, pipes, stages>>

-------------------------------------------------------------------------------
(* Pipelines.  A single stage is a command of its own.  Slips: pipe is not   *)
(* checked; a stage takes the wrong pipe; the shell keeps the pipes open.    *)

\* pipe(2): both ends, or nothing
PipeEnds(t) == LET r == Lowest(t) IN <<r, Lowest(Put(t, r, DevNull))>>

OpenPipe(t, k) == Put(Put(t, PipeEnds(t)[1], ReadOf(k)), PipeEnds(t)[2], WriteOf(k))

NewStage(list) == [state |-> "forked", list |-> list, todo |-> list, p |-> sh]

\* one turn of open_pipes; the fork of the stages begins after the last
StartPipeline(n) ==
    /\ Ready /\ n > 1
    /\ NoFd \notin {PipeEnds(sh.tab)[1], PipeEnds(sh.tab)[2]}
    /\ pipes' = <<PipeEnds(sh.tab)>>
    /\ sh' = [sh EXCEPT !.tab = OpenPipe(@, 1)]
    /\ stages' = [i \in 1..n |-> [state |-> "unborn", list |-> <<>>, todo |-> <<>>,
                                  p |-> sh]]
    /\ UNCHANGED <<frames, todo>>

Unborn == {i \in DOMAIN stages : stages[i].state = "unborn"}

BadOpenPipes ==
    /\ pipes # <<>> /\ Unborn = DOMAIN stages /\ Len(pipes) < Len(stages) - 1
    /\ pipes' = Append(pipes, PipeEnds(sh.tab))
    /\ sh' = [sh EXCEPT !.tab = OpenPipe(@, Len(pipes) + 1)]
    /\ UNCHANGED <<frames, todo, stages>>

OpenPipes ==
    /\ pipes # <<>> /\ Unborn = DOMAIN stages /\ Len(pipes) < Len(stages) - 1
    /\ NoFd \notin {PipeEnds(sh.tab)[1], PipeEnds(sh.tab)[2]}
    /\ pipes' = Append(pipes, PipeEnds(sh.tab))
    /\ sh' = [sh EXCEPT !.tab = OpenPipe(@, Len(pipes) + 1)]
    /\ UNCHANGED <<frames, todo, stages>>

ClosePipes(t) ==
    [fd \in Fds |-> IF \E k \in DOMAIN pipes : fd \in {pipes[k][1], pipes[k][2]}
                    THEN Closed ELSE t[fd]]

\* a pipe or a fork failed: no stage was started, or those started run on
PipelineFails ==
    /\ pipes # <<>>
    /\ sh' = [sh EXCEPT !.tab = ClosePipes(@)]
    /\ pipes' = <<>>
    /\ stages' = <<>>
    /\ UNCHANGED <<frames, todo>>

ForkStage(list) ==
    /\ Len(pipes) = Len(stages) - 1 /\ pipes # <<>> /\ Unborn # {}
    /\ LET i == CHOOSE i \in Unborn : \A j \in Unborn : i <= j
       IN  stages' = [stages EXCEPT ![i] = NewStage(list)]
    /\ UNCHANGED <<sh, frames, todo, pipes>>

RunCommand(list) ==
    /\ Ready
    /\ stages' = <<[NewStage(list) EXCEPT !.state = "wired"]>>
    /\ UNCHANGED <<sh, frames, todo, pipes>>

BadWire(i, t) ==
    LET t0 == IF i > 1 THEN Dup2(t, pipes[1][1], 0) ELSE t
    IN  IF i < Len(stages) THEN Dup2(t0, pipes[i][2], 1) ELSE t0

Wire(i, t) ==
    LET t0 == IF i > 1 THEN Dup2(t, pipes[i - 1][1], 0) ELSE t
    IN  IF i < Len(stages) THEN Dup2(t0, pipes[i][2], 1) ELSE t0

\* pipe_child takes its ends, then closes every pipe.  The child has its own
\* table, so that it does this before the shell goes on is no restriction.
PipeChild(i) ==
    /\ stages[i].state = "forked"
    /\ stages' = [stages EXCEPT ![i].state = "wired",
                                ![i].p.tab = ClosePipes(Wire(i, @))]
    /\ UNCHANGED <<sh, frames, todo, pipes>>

BadPipelineStarted ==
    /\ pipes # <<>> /\ \A i \in DOMAIN stages : stages[i].state \notin {"unborn", "forked"}
    /\ pipes' = <<>>
    /\ UNCHANGED <<sh, frames, todo, stages>>

PipelineStarted ==
    /\ pipes # <<>> /\ \A i \in DOMAIN stages : stages[i].state \notin {"unborn", "forked"}
    /\ sh' = [sh EXCEPT !.tab = ClosePipes(@)]
    /\ pipes' = <<>>
    /\ UNCHANGED <<frames, todo, stages>>

\* the stages before it are done with their redirections: each works on its own
\* table, so no order of the stages can be told from another
Turn(i) == pipes = <<>> /\ \A j \in 1..(i - 1) : stages[j].todo = <<>>
                                            \/ stages[j].state = "dead"

\* the child's own redirections; it exits when one fails
StageRedir(i) ==
    /\ stages[i].state = "wired" /\ stages[i].todo # <<>> /\ Turn(i)
    /\ \E out \in ApplyOneRedir(stages[i].p, Head(stages[i].todo)) :
          stages' = [stages EXCEPT
                        ![i].p = out.p, ![i].todo = Tail(@),
                        ![i].state = IF out.ok THEN "wired" ELSE "dead"]
    /\ UNCHANGED <<sh, frames, todo, pipes>>

StageDies(i) ==
    /\ stages[i].state = "wired" /\ stages[i].todo = <<>> /\ pipes = <<>>
    /\ stages' = [stages EXCEPT ![i].state = "dead"]
    /\ UNCHANGED <<sh, frames, todo, pipes>>

Waited ==
    /\ pipes = <<>> /\ stages # <<>>
    /\ \A i \in DOMAIN stages : stages[i].state = "dead"
    /\ stages' = <<>>
    /\ UNCHANGED <<sh, frames, todo, pipes>>

-------------------------------------------------------------------------------

Init ==
    /\ \E gone \in SUBSET StartClosed :
          sh = [tab |-> [fd \in Fds |-> IF fd <= 2 /\ fd \notin gone THEN Std(fd)
                                        ELSE Closed],
                held |-> NoFd]
    /\ frames = <<>>
    /\ todo = <<>>
    /\ pipes = <<>>
    /\ stages = <<>>

Scope == \/ \E list \in Lists : BeginScope(list)
         \/ ApplyRedir \/ RedirFails \/ EndScope

Pipeline ==
    \/ \E n \in 2..MaxStages : StartPipeline(n)
    \/ OpenPipes \/ PipelineFails \/ PipelineStarted \/ Waited
    \/ \E list \in StageLists : ForkStage(list)
    \/ \E list \in Lists : RunCommand(list)
    \/ \E i \in DOMAIN stages : PipeChild(i) \/ StageRedir(i) \/ StageDies(i)

Next == Scope \/ HoldBody \/ FreeLine \/ Pipeline

Spec == Init /\ [][Next]_vars

-------------------------------------------------------------------------------
(* Properties.                                                               *)

Objects == {"closed", "null", "body", "std", "file", "read", "write"} \X Nat

Process == [tab : [Fds -> Objects], held : Fds \cup {NoFd}]

Frame == [saved : [1..3 -> Fds \cup {NoFd}], before : [Fds -> Objects],
          touched : SUBSET Fds]

Stage == [state : {"unborn", "forked", "wired", "dead"}, list : Seq(Redirs),
          todo : Seq(Redirs), p : Process]

\* Tables map descriptors to open files, in the shell and in every stage; what
\* a frame saved is a descriptor or the -1 of a failed dup.
TypeOK ==
    /\ sh \in Process
    /\ todo \in Seq(Redirs)
    /\ frames \in Seq(Frame)
    /\ stages \in Seq(Stage)
    /\ pipes \in Seq(Fds \X Fds)

\* 0 to 2 were open, and no redirection used a descriptor the copies lie on
Safe(f) == /\ \A i \in 1..3 : f.saved[i] \in 3..MaxFd
           /\ \A i \in 1..3 : f.saved[i] \notin f.touched

\* When a group or builtin is over, or a redirection of its list failed half
\* way, every descriptor is what it was before, but for those above 2 that were
\* redirected by name: nothing leaks, however groups and pipelines were nested.
ScopesUndone ==
    [][Len(frames') < Len(frames) /\ Safe(Top) =>
           \A fd \in Fds : fd \notin Top.touched => sh'.tab[fd] = Top.before[fd]]_vars

Started == pipes = <<>> /\ \A i \in DOMAIN stages : stages[i].state \in {"wired", "dead"}

Holds(t, o) == \E fd \in Fds : t[fd] = o

\* Once a pipeline runs, only stage k can write to pipe k and only stage k + 1
\* read from it: when a stage ends its reader meets the end of the file and its
\* writer a broken pipe, and no stage waits for itself or for the shell.
PipesEnd ==
    Started => \A k \in 1..(MaxStages - 1) :
        /\ ~Holds(sh.tab, ReadOf(k)) /\ ~Holds(sh.tab, WriteOf(k))
        /\ \A i \in DOMAIN stages :
              stages[i].state = "wired" =>
                 /\ Holds(stages[i].p.tab, WriteOf(k)) => i = k
                 /\ Holds(stages[i].p.tab, ReadOf(k)) => i = k + 1

\* Before its own redirections a stage reads what the stage before it writes,
\* and the ends of the line are the shell's own: if 0 and 1 are open.
StagesConnected ==
    \A i \in DOMAIN stages :
        LET s == stages[i]
        IN  Started /\ s.state = "wired" /\ s.todo = s.list /\ IsOpen(sh.tab, 0) /\ IsOpen(sh.tab, 1)
              => /\ s.p.tab[0] = IF i = 1 THEN sh.tab[0] ELSE ReadOf(i - 1)
                 /\ s.p.tab[1] = IF i = Len(stages) THEN sh.tab[1] ELSE WriteOf(i)
===============================================================================
