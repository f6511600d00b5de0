--------------------------------- MODULE Shell ---------------------------------
(***************************************************************************)
(* How 42sh runs what it reads: the loops that read lines (main.c,         *)
(* script.c), process_line, the executor (exec_logical.c, exec_subshell.c, *)
(* the children of exec_pipeline.c), and the builtins exit, source, alias  *)
(* and unalias.                                                            *)
(*                                                                         *)
(* A process is a record: what fork copies (running, status, aliases, the  *)
(* open streams), a stack of the C functions that are waiting for a result *)
(* and do, what it does next.  Processes run interleaved.  An external     *)
(* command takes one step (JobControl has its fork and wait); so does      *)
(* reading a logical line (Heredoc).                                       *)
(*                                                                         *)
(* Frames remember for the properties what the line or the tree they run   *)
(* is meant to do (Language).                                              *)
(***************************************************************************)
EXTENDS Language

CONSTANTS
    Programs,    \* the shell's input: [mode, lines], see Init
    MaxProcs,    \* bound: processes forked, and stages of a pipeline
    MaxInterrupts \* bound: interrupts

ASSUME ShellAssumption ==
    /\ \A p \in Programs : /\ p.mode \in {"missing", "script", "repl", "interactive"}
                           /\ p.lines \in Seq(Range(p.lines))
    /\ MaxProcs \in Nat \ {0}
    /\ MaxInterrupts \in Nat

\* the lines there are to read, of these programs and of the files
LinesOf(programs) ==
    (UNION {Range(p.lines) : p \in programs})
        \cup (UNION {Range(Files[f]) : f \in DOMAIN Files})

VARIABLES procs,       \* the processes, in the order of their creation
          pending,     \* g_signal_received
          interrupts   \* how many there were

vars == <<procs, pending, interrupts>>

Root == 1

Exec(tree)   == [what |-> "exec", tree |-> tree]
Run(cmd)     == [what |-> "command", tree |-> cmd]
Return(code) == [what |-> "return", code |-> code]
Reading      == [what |-> "read"]

\* what a line is meant to do once a signal has ended a wait of its own
Anything == [op |-> "anything"]

-------------------------------------------------------------------------------
(* Processes.                                                                *)

Open(lines) == [lines |-> lines, at |-> 1]

Top(p)     == p.stack[Len(p.stack)]
Push(p, f) == [p EXCEPT !.stack = Append(@, f)]
Pop(p)     == [p EXCEPT !.stack = SubSeq(@, 1, Len(@) - 1)]

State(p) == [status |-> p.status, running |-> p.running, aliases |-> p.aliases,
             ran |-> <<>>]

\* a forked copy, which is to do something and exit with the result
Copy(p, do, tree) ==
    [p EXCEPT !.stack = <<[fun |-> "child", want |-> Wanted(tree, State(p))]>>,
              !.do = do, !.ran = <<>>]

\* exec_child and the like: a child runs a command without executor_execute
ChildDoes(tree) == IF tree.op = "cmd" THEN Run(tree) ELSE Exec(tree)

\* a pipeline is written with m stages: these, of which collect_pipeline keeps
\* the first MaxPipeline
HasStages(t, m) == Lefts(t)[m - 2].op = "|" /\ Lefts(t)[m - 1].op # "|"
Stages(t, m) ==
    [k \in 1..m |-> IF k = 1 THEN Lefts(t)[m - 1] ELSE Lefts(t)[m - k].right]
Kept(m) == IF m <= MaxPipeline THEN m ELSE MaxPipeline

Running(i, what) == i \in DOMAIN procs /\ procs[i].do.what = what

Become(i, p) == /\ procs' = [procs EXCEPT ![i] = p]
                /\ UNCHANGED <<pending, interrupts>>

-------------------------------------------------------------------------------
(* Reading.                                                                  *)

Stream(p) == p.streams[p.input]
AtEnd(p)  == Stream(p).at > Len(Stream(p).lines)

\* slip: a stream that an exit ends keeps the input
BadStreamOver(p) ==
    [p EXCEPT !.streams = SubSeq(@, 1, Len(@) - 1), !.do = Return(p.status),
              !.input = IF p.running THEN Top(p).saved ELSE @]

\* the stream is closed and the saved input comes back
StreamOver(p) ==
    [p EXCEPT !.streams = SubSeq(@, 1, Len(@) - 1), !.do = Return(p.status),
              !.input = Top(p).saved]

\* shell_run_stream
RunStream(p, lines) ==
    [Push(p, [fun |-> "stream", saved |-> p.input]) EXCEPT
        !.streams = Append(@, Open(lines)), !.input = Len(p.streams) + 1,
        !.do = Reading]

EndStream(i) ==
    /\ Running(i, "read")
    /\ Top(procs[i]).fun = "stream"
    /\ ~procs[i].running \/ AtEnd(procs[i])
    /\ Become(i, Pop(StreamOver(procs[i])))

\* the loop of a stream, or repl_loop after its prompt: process_line
ReadLine(i) ==
    /\ Running(i, "read")
    /\ procs[i].running /\ ~AtEnd(procs[i])
    /\ LET p == procs[i]
           l == Stream(p).lines[Stream(p).at]
           before == [State(p) EXCEPT !.ran = p.ran]
       IN  Become(i, [Push(p, [fun |-> "line", want |-> MeaningOfLine(l, before)])
                        EXCEPT !.streams[p.input].at = @ + 1,
                               !.do = [what |-> "scan", scan |->
                                          ExpandAliases(l.line, p.aliases)]])

\* parser_parse: a line with an error is dropped
ParseLine(i) ==
    /\ Running(i, "scan")
    /\ LET p == procs[i]
           t == ParseTokens(p.do.scan.line)
       IN  Become(i, IF t = NoTree
                     THEN [p EXCEPT !.status = 2, !.do = Return(2)]
                     ELSE [p EXCEPT !.do = Exec(t)])

LineDone(i) ==
    /\ Running(i, "return") /\ Top(procs[i]).fun = "line"
    /\ Become(i, [Pop(procs[i]) EXCEPT
                    !.do = IF Top(Pop(procs[i])).fun = "repl"
                           THEN [what |-> "prompt"] ELSE Reading])

-------------------------------------------------------------------------------
(* The executor.                                                             *)

\* executor_execute of a shell that was told to exit
Skip(i) ==
    /\ Running(i, "exec") /\ ~procs[i].running
    /\ Become(i, [procs[i] EXCEPT !.do = Return(procs[i].status)])

\* executor_execute keeps the result of dispatch_node
Node(p) == Push(p, [fun |-> "node"])

Executes(i, ops) ==
    Running(i, "exec") /\ procs[i].running /\ procs[i].do.tree.op \in ops

ExecuteSimple(i) ==
    /\ Executes(i, {"cmd"})
    /\ Become(i, [Node(procs[i]) EXCEPT !.do = Run(@.tree)])

ExecuteLeft(i) ==
    /\ Executes(i, {"&&", "||", ";"})
    /\ LET t == procs[i].do.tree
       IN  Become(i, [Push(Node(procs[i]), [fun |-> t.op, right |-> t.right])
                        EXCEPT !.do = Exec(t.left)])

\* slip: || runs its right side after a success
BadRunsRight(op, code) == op = "&&" => code = 0

RunsRight(op, code) ==
    (op = "&&" => code = 0) /\ (op = "||" => code # 0)

ExecuteRight(i) ==
    /\ Running(i, "return") /\ Top(procs[i]).fun \in {"&&", "||", ";"}
    /\ LET p == procs[i]
       IN  Become(i, IF RunsRight(Top(p).fun, p.do.code)
                     THEN [Pop(p) EXCEPT !.do = Exec(Top(p).right)]
                     ELSE Pop(p))

ExecuteBlock(i) ==
    /\ Executes(i, {"block"})
    /\ LET p == procs[i]
       IN  Become(i, IF CannotOpen(p.do.tree.redirs)
                     THEN [Node(p) EXCEPT !.do = Return(1)]
                     ELSE [Push(Node(p), [fun |-> "block"]) EXCEPT
                              !.do = Exec(p.do.tree.child)])

BlockDone(i) ==
    /\ Running(i, "return") /\ Top(procs[i]).fun = "block"
    /\ Become(i, Pop(procs[i]))

NodeDone(i) ==
    /\ Running(i, "return") /\ Top(procs[i]).fun = "node"
    /\ Become(i, [Pop(procs[i]) EXCEPT !.status = procs[i].do.code])

\* fork: children appended, the caller goes on with do
Forked(i, p, children) ==
    /\ Len(procs) + Len(children) <= MaxProcs
    /\ procs' = [procs EXCEPT ![i] = p] \o children
    /\ UNCHANGED <<pending, interrupts>>

Waiting(first, last) == [what |-> "wait", first |-> first, last |-> last]

ExecuteSubshell(i) ==
    /\ Executes(i, {"sub"})
    /\ LET p == procs[i]
           t == p.do.tree
           do == IF CannotOpen(t.redirs) THEN Return(1) ELSE Exec(t.child)
       IN  Forked(i, [Node(p) EXCEPT !.do = Waiting(Len(procs) + 1, Len(procs) + 1)],
                  <<Copy(p, do, IF CannotOpen(t.redirs) THEN t ELSE t.child)>>)

ExecutePipeline(i) ==
    /\ Executes(i, {"|"})
    /\ \E m \in 2..MaxProcs :
          LET p == procs[i]
              n == Kept(m)
              stages == Stages(p.do.tree, m)
          IN  /\ HasStages(p.do.tree, m)
              /\ Forked(i, [Node(p) EXCEPT !.do = Waiting(Len(procs) + 1, Len(procs) + n)],
                        [k \in 1..n |-> Copy(p, ChildDoes(stages[k]), stages[k])])

ExecuteBackground(i) ==
    /\ Executes(i, {"&"})
    /\ LET p == procs[i]
           t == p.do.tree.child
       IN  Forked(i, [Node(p) EXCEPT !.do = Return(0)], <<Copy(p, ChildDoes(t), t)>>)

\* job_wait: waitpid for the group, whose last member gives the status
Collect(i) ==
    /\ Running(i, "wait")
    /\ LET w == procs[i].do
       IN  /\ \A k \in w.first..w.last : procs[k].do.what = "over"
           /\ Become(i, [procs[i] EXCEPT !.do = Return(procs[w.last].do.code)])

\* _exit keeps a byte
ChildExits(i) ==
    /\ Running(i, "return") /\ Top(procs[i]).fun = "child"
    /\ Become(i, [procs[i] EXCEPT !.do = [what |-> "over", code |-> @.code % 256]])

-------------------------------------------------------------------------------
(* Simple commands, with expansion and assignments left to Words and         *)
(* Variables.  The process that runs a builtin is the shell, or a child.     *)

Calls(i, name) ==
    /\ Running(i, "command")
    /\ LET cmd == procs[i].do.tree
       IN  ~CannotOpen(cmd.redirs) /\ cmd.argv # <<>> /\ cmd.argv[1] = name

Done(p, code) == [p EXCEPT !.do = Return(code)]

RedirectionFails(i) ==
    /\ Running(i, "command") /\ CannotOpen(procs[i].do.tree.redirs)
    /\ Become(i, Done(procs[i], 1))

AssignmentOnly(i) ==
    /\ Running(i, "command")
    /\ ~CannotOpen(procs[i].do.tree.redirs) /\ procs[i].do.tree.argv = <<>>
    /\ Become(i, Done(procs[i], 0))

RunsExternal(i) ==
    /\ Running(i, "command")
    /\ LET cmd == procs[i].do.tree
       IN  /\ ~CannotOpen(cmd.redirs) /\ cmd.argv # <<>>
           /\ cmd.argv[1] \notin {"exit", ".", "alias", "unalias"}

\* the command ran, and saw this $?
Launched(p) == [p EXCEPT !.ran = Append(@, <<p.do.tree.argv[1], p.status>>)]

ExternalCommand(i) ==
    /\ RunsExternal(i)
    /\ LET p == procs[i]
           name == p.do.tree.argv[1]
       IN  Become(i, Done(Launched(p),
                          IF name \in DOMAIN External THEN External[name] ELSE 127))

Stopped(p, code) == [Done(p, code) EXCEPT !.running = FALSE, !.status = code]

BuiltinExit(i) ==
    /\ Calls(i, "exit")
    /\ LET p == procs[i]
           args == Args(p.do.tree)
       IN  Become(i, CASE args = <<>> -> Stopped(p, p.status)
                       [] args # <<>> /\ args[1] \notin DOMAIN Number -> Stopped(p, 2)
                       [] Len(args) > 1 /\ args[1] \in DOMAIN Number ->
                              [Done(p, 1) EXCEPT !.status = 1]
                       [] OTHER -> Stopped(p, ExitCode(Number[args[1]])))

BuiltinSource(i) ==
    /\ Calls(i, ".")
    /\ LET p == procs[i]
           args == Args(p.do.tree)
       IN  Become(i, CASE args = <<>> -> Done(p, 2)
                       [] args # <<>> /\ args[1] \notin DOMAIN Files -> Done(p, 1)
                       [] OTHER -> RunStream(p, Files[args[1]]))

\* alias_arg for each argument: a bad one does not keep the rest from being set
BuiltinAlias(i) ==
    /\ Calls(i, "alias")
    /\ LET p == procs[i]
           args == Args(p.do.tree)
           code == IF AliasFails(p.aliases, args) THEN 1 ELSE 0
       IN  Become(i, [Done(p, code) EXCEPT !.aliases = AliasAll(@, args),
                                           !.status = code])

BuiltinUnalias(i) ==
    /\ Calls(i, "unalias")
    /\ LET p == procs[i]
           u == Unaliased(p.aliases, Args(p.do.tree))
       IN  Become(i, [Done(p, u.code) EXCEPT !.aliases = u.table, !.status = u.code])

-------------------------------------------------------------------------------
(* main.                                                                     *)

Process(program) ==
    [running |-> TRUE, status |-> 0, aliases |-> NoAliases, ran |-> <<>>,
     input |-> 1, streams |-> <<Open(program.lines)>>,
     stack |-> <<[fun |-> "main"]>>,
     do |-> [what |-> "start", mode |-> program.mode]]

\* a script file, -c and standard input that is no terminal read the program;
\* an interactive shell reads its rc file first
Start(i) ==
    /\ Running(i, "start")
    /\ LET p == procs[i]
       IN  Become(i, CASE p.do.mode = "missing" ->
                              [p EXCEPT !.status = 127, !.do = Return(127)]
                       [] p.do.mode = "script" ->
                              [Push(p, [fun |-> "stream", saved |-> 0]) EXCEPT
                                  !.do = Reading]
                       [] p.do.mode = "repl" ->
                              [Push(p, [fun |-> "repl", interactive |-> FALSE]) EXCEPT
                                  !.do = [what |-> "prompt"]]
                       [] p.do.mode = "interactive" ->
                              RunStream(Push(p, [fun |-> "repl", interactive |-> TRUE]),
                                        IF "rc" \in DOMAIN Files THEN Files["rc"]
                                        ELSE <<>>))

\* the rc file is over, its result dropped
RcDone(i) ==
    /\ Running(i, "return") /\ Top(procs[i]).fun = "repl"
    /\ Become(i, [procs[i] EXCEPT !.do = [what |-> "prompt"]])

\* the turn of repl_loop begins with signals_check, which reads the flag
SignalsRead(i) ==
    /\ Running(i, "prompt") /\ procs[i].running
    /\ Become(i, [procs[i] EXCEPT !.do = [what |-> "signals", sig |-> pending]])

\* and then clears it: an interrupt in between is lost
SignalsClear(i) ==
    /\ Running(i, "signals")
    /\ procs' = [procs EXCEPT ![i].status = IF procs[i].do.sig THEN 130 ELSE @,
                              ![i].do = Reading]
    /\ pending' = FALSE
    /\ UNCHANGED interrupts

ReplEnds(i) ==
    /\ Top(procs[i]).fun = "repl"
    /\ \/ Running(i, "prompt") /\ ~procs[i].running
       \/ Running(i, "read") /\ AtEnd(procs[i])
    /\ Become(i, [Pop(procs[i]) EXCEPT !.do = Return(procs[i].status)])

\* main returns last_exit_status, of which a byte is kept
MainReturns(i) ==
    /\ Running(i, "return") /\ Top(procs[i]).fun = "main"
    /\ Become(i, [procs[i] EXCEPT !.do = [what |-> "over", code |-> procs[i].status % 256]])

\* SIGINT reaches the handler that an interactive shell, and no child, has
Signalled ==
    /\ interrupts < MaxInterrupts
    /\ \E k \in DOMAIN procs[Root].stack :
           procs[Root].stack[k].fun = "repl" /\ procs[Root].stack[k].interactive
    /\ pending' = TRUE
    /\ interrupts' = interrupts + 1

\* at the prompt, between commands or in a builtin: ctrl-C, for instance
Interrupt ==
    /\ Signalled
    /\ procs[Root].do.what \notin {"wait", "over"}
    /\ UNCHANGED procs

Released(stack) ==
    [k \in DOMAIN stack |-> IF stack[k].fun = "line"
                            THEN [fun |-> "line", want |-> Anything] ELSE stack[k]]

\* job_wait gives up when waitpid does: -1, and the children are left alone
GivesUp(p) == [p EXCEPT !.stack = Released(@), !.do = Return(-1)]

\* while the shell waits, the terminal is the job's: another process' kill
WaitInterrupted ==
    /\ Signalled
    /\ Running(Root, "wait")
    /\ procs' = [procs EXCEPT ![Root] = GivesUp(@)]

CommandInterrupted ==
    /\ Signalled
    /\ RunsExternal(Root)
    /\ procs' = [procs EXCEPT ![Root] = GivesUp(Launched(@))]

-------------------------------------------------------------------------------

Init ==
    /\ \E program \in Programs : procs = <<Process(program)>>
    /\ pending = FALSE
    /\ interrupts = 0

\* nothing is left to do; anything else that stops is a deadlock
Terminated == /\ \A i \in DOMAIN procs : procs[i].do.what = "over"
              /\ UNCHANGED vars

Lines(i)    == EndStream(i) \/ ReadLine(i) \/ ParseLine(i) \/ LineDone(i)
Executor(i) == \/ Skip(i) \/ ExecuteSimple(i) \/ ExecuteLeft(i) \/ ExecuteRight(i)
               \/ ExecuteBlock(i) \/ BlockDone(i) \/ NodeDone(i) \/ ExecuteSubshell(i)
               \/ ExecutePipeline(i) \/ ExecuteBackground(i) \/ Collect(i)
               \/ ChildExits(i)
Commands(i) == \/ RedirectionFails(i) \/ AssignmentOnly(i) \/ ExternalCommand(i)
               \/ BuiltinExit(i) \/ BuiltinSource(i) \/ BuiltinAlias(i)
               \/ BuiltinUnalias(i)
Main(i)     == \/ Start(i) \/ RcDone(i) \/ SignalsRead(i) \/ SignalsClear(i)
               \/ ReplEnds(i) \/ MainReturns(i)

Next == \/ \E i \in DOMAIN procs : Lines(i) \/ Executor(i) \/ Commands(i) \/ Main(i)
        \/ Interrupt \/ WaitInterrupted \/ CommandInterrupted
        \/ Terminated

Spec == Init /\ [][Next]_vars

-------------------------------------------------------------------------------
(* Properties.                                                             *)

Frames == {"main", "repl", "stream", "line", "node", "block", "&&", "||", ";", "child"}

\* statuses are bytes, but for the -1 of a wait that a signal ended
Codes == 0..255 \cup IF interrupts = 0 THEN {} ELSE {-1}

\* Every process has a stack of known callers whose outermost is main or the
\* fork it came from, and an alias table; $? and what the executor's functions
\* return fit a byte until a signal ends a wait (job_wait's -1), and what a
\* process exits with always does.
TypeOK ==
    /\ pending \in BOOLEAN /\ interrupts \in 0..MaxInterrupts
    /\ \A i \in DOMAIN procs :
          LET p == procs[i]
          IN  /\ p.running \in BOOLEAN /\ p.status \in Codes
              /\ DOMAIN p.aliases = AliasNames
              /\ p.stack # <<>> /\ p.stack[1].fun = IF i = Root THEN "main" ELSE "child"
              /\ \A k \in DOMAIN p.stack : p.stack[k].fun \in Frames
              /\ p.do.what = "return" => p.do.code \in Codes
              /\ p.do.what = "over" => p.do.code \in 0..255

\* A process reads the innermost stream it has open, never one it closed,
\* whatever ended the inner ones (shell_run_stream's saved input).
ReadsInnermost ==
    \A i \in DOMAIN procs : procs[i].input = Len(procs[i].streams)

\* Whatever a line holds, when process_line returns the shell has run exactly
\* the commands && || ; | & and groups call for, each with the right $?, up to
\* an exit, in the shell or in a file it sources, and is left with the right
\* status and aliases; and a child ends with the status its part asks for.
\* This is said of lines none of whose waits was ended by a signal.
RunsAsWritten ==
    \A i \in DOMAIN procs :
        LET p == procs[i]
        IN  p.do.what = "return" =>
            /\ Top(p).fun = "line" =>
                   Top(p).want \in {Anything, [State(p) EXCEPT !.ran = p.ran]}
            /\ Top(p).fun = "child" =>
                   Top(p).want = [State(p) EXCEPT !.ran = p.ran, !.status = p.do.code]
===============================================================================
