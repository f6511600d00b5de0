# TLA+ verification of 42sh

42sh is a POSIX-style interactive shell in C. This directory holds TLA+ models
of it, the TLC configurations that check them on small instances, and theorems
checked by TLAPS. Paths below are relative to the repository root.

## The system

One process reads logical lines, expands aliases, lexes and parses them into a
tree, and walks the tree, forking children into process groups. Everything the
shell keeps hangs off one `t_shell` (`includes/42sh.h`).

| component | files | state | operations |
|---|---|---|---|
| Job table and wait loops | `srcs/job_control` | `jobs` list, per-process flags, `current_job`, terminal owner | launch, wait, update, notify, continue, remove, cleanup |
| Job launchers | `srcs/executor/exec_pipeline.c`, `exec_subshell.c`, `exec_command.c` | process groups, pipe ends | `execute_pipeline`, `execute_background`, `launch_subshell_job`, `launch_simple_job`, `exec_child` |
| Job builtins | `builtin_jobs.c`, `_fg.c`, `_bg.c`, `_kill.c`, `_exit.c` | none of their own | update the statuses, then act on a job |
| Read-eval loop and scripts | `srcs/main.c`, `srcs/script.c`, `builtin_source.c` | the input stream, `exit_requested` | prompt, one logical line, nested streams |
| Signals | `srcs/signals` | `g_signal_received`, dispositions | install for shell, child, execution; check |
| Logical-line reader | `srcs/input.c` | quote and heredoc scan state | continue a line over quotes, backslashes, heredocs |
| Heredoc collector | `srcs/parser/parser_heredoc.c` | queue of bodies, one descriptor per redirection | queue while reading, attach after parsing |
| Variables, environment | `srcs/variables`, `export`, `unset`, `set` | variable list, cached `envp`, `env_dirty` | set, export, unset, temporary assignments |
| Command path cache | `command_hash*.c`, `command_search.c`, `builtin_hash.c` | hash table name to path | look up, insert, forget, clear on `PATH` |
| Redirections | `redirections.c` | saved descriptors 0 to 2 | apply in order, restore |
| Executor | `executor.c`, `exec_logical.c`, `exec_utils.c` | `$?` | dispatch a tree node |
| Aliases | `srcs/aliases` | alias table | rewrite the line before parsing |
| Lexer, parser | `srcs/lexer`, `srcs/parser` | token list, tree | recursive descent |
| Expander | `srcs/expander` | none | parameters, command substitution, arithmetic, field splitting |
| Other builtins, history, printers, Libft | | cwd, readline history | single steps |

How they meet: the reader hands a line to aliases, lexer and parser and leaves
heredoc bodies in a queue that the parser's tree walk empties. The executor
calls the launchers, the launchers register jobs and block in `job_wait`. The
prompt and every job builtin run `job_update_statuses` first. The only real
concurrency is between the shell, its children, the kernel's wait reports, the
terminal, and signals; the rest is sequential code whose difficulty is stale
or half-updated state.

What is hard, and what correctness means for each part:

* **Job control.** Two `waitpid` loops compete for reports that exist once;
  children call `tcsetpgrp` whenever they get to run; signals interrupt waits;
  jobs leave from anywhere in the list. Correct: no report is lost, flags and
  statuses agree with the kernel, ids are unique, no pointer to a freed job
  stays behind, the terminal returns to the shell, the exit code is the last
  stage's, no wait hangs, finished jobs leave.
* **Reader and heredocs.** Bodies queued in text order are attached in tree
  order, across errors and interrupts. Correct: every redirection gets its own
  body; nothing is left for the next line.
* **Variables and command cache.** Cached command paths must not outlive the `PATH`
  they were found on (the environment array is cached too, but filled only in a child
  about to `execve`); a builtin's temporary assignments must leave no trace, though the
  builtin may write the same names.
* **Redirections and pipes.** After a builtin or a group, or a failure half way,
  the shell's descriptors are what they were; every pipe has one reader and one
  writer, so that it ends.
* **Executor and streams.** Status, `running` and the result of each node are
  three records of one thing, in the shell, in its children and in theirs;
  `source` nests streams. Correct: what runs is what the line calls for, with
  the right `$?`, up to an `exit`.
* **Aliases, parser, expansion, splitting, arithmetic.** Termination, and
  agreement with a definition of what the text means.

Every hazard met while reading is listed with its line in `PROJECT.json`, with
the properties that would catch it going wrong, or the reason there is none.

## Modules

| module | content |
|---|---|
| `JobControl` | the job table, its launchers and builtins, the children and the kernel |
| `Heredoc` | the logical-line reader, the heredoc operators as lexer and parser see them, the collector |
| `Environment` | abstract: what a command sees of variables and which file it is run from |
| `Variables` | variables, export flags, environment array, command cache, temporary assignments, children's copies; implements `Environment` |
| `Descriptors` | descriptor tables of shell and children: redirections in nested scopes, pipes, heredoc descriptors |
| `Arithmetic` | the evaluator of `$(( ))` |
| `Expressions` | abstract: what the tree of an expression is worth, and how it is written |
| `Words` | expansion of the words of a command and field splitting, a turn of the scan at a time; uses `Arithmetic` |
| `Phrases` | abstract: what a word means, from the pieces it was written from, and that `Words` finds it; for any expressions |
| `Syntax` | the tree of a line and the lookup of an alias, shared by the next five |
| `Parser` | the recursive descent, tokens to tree |
| `Aliases` | the rewriting of a line by aliases; uses `Parser`'s tokens |
| `Language` | what a line or a tree should do, level by level, and what `exit`, `alias` and `unalias` leave |
| `Shell` | streams, the read-eval loop, the executor in the shell and its children, `exit`, `source`, `alias`, `unalias`, for any parser and any expansion of aliases, and that it does what `Language` says |
| `Control` | `Shell` with `Parser` and `Aliases`, and the properties of the three together |
| `MCJobControl`, `MCHeredoc`, `MCVariables`, `MCDescriptors`, `MCWords`, `MCControl` | the instances TLC runs |
| `JobControlProofs` | theorems about `JobControl` |
| `VariablesProofs` | theorems about `Variables`, the refinement among them |
| `DescriptorsProofs` | theorems about `Descriptors` |
| `HeredocTextProofs` | lemmas about the scanner, the lexer and the tree walk of `Heredoc`, over any text |
| `HeredocProofs` | theorems about `Heredoc` |
| `WordsProofs` | theorems about `Words`, with lemmas about `Arithmetic` |
| `ShellProofs` | theorems about `Shell` |
| `MeaningProofs` | that `Shell` does what `Language` says |

An operator whose name begins with `Bad` is no part of the model. It is the
definition that follows it with a plausible slip (a status not recomputed, an id
counted instead of chosen, a flag not cleared); putting it in place of that
definition makes the named property fail, which shows what the property sees.

### JobControl

A job is named by the pid of its first stage. The shell appends jobs to the list
and forks with increasing pids, so list order is pid order and the list is a
function from names to records.

| model | code |
|---|---|
| `jobs[h] = [id, status, notified]`, `jobOf`, `completed`, `flagged`, `wstatus` | `t_job`, `t_process` |
| `current` | `shell->current_job` |
| `pc`, `waitJob` | where the shell is: at a command, in the update that precedes a prompt or builtin, blocked in `job_wait`, blocked in `launch_simple_job`, gone |
| `result` | what the blocking call of this step returned |
| `pstate`, `death`, `report`, `pgrp` | what the kernel knows of a child; `report` is a stop or continue not yet collected |
| `claim` | children whose own `tcsetpgrp` in `exec_child` is still to run |
| `tty` | foreground process group |
| `told`, `strays`, `stolen` | history: jobs whose present status was printed; children job control cannot account for; a late `tcsetpgrp` happened |

Actions, each a whole handler:

* `LaunchForeground`: `execute_pipeline` and `launch_subshell_job` up to the
  wait (fork of every stage, `setpgid`, registration, `tcsetpgrp`);
  `PipelineForkFails`: the error path with the stages already started;
  `LaunchBackground`; `LaunchPlain`/`PlainReaped`: the path without job control.
* `WaitReaped`, `WaitNoChild`, `WaitInterrupted`: the turns of the loop in
  `job_wait` and, when it ends, what its callers do (take the terminal back,
  then keep a stopped job or remove the job).
* `StartUpdate`, `UpdateReaped`: `job_update_statuses`, one report at a time;
  children go on between two reports. When no report is left, one of `Notify`
  (the prompt), `ListJobs`, `ContinueForeground`, `ContinueBackground`,
  `KillJob`, `NoSuchJob` runs.
* `ShellExits`: `exit` or end of input with `job_control_cleanup`.
* `ChildClaims`, `ChildDies`, `ChildStops`, `ChildContinues`,
  `ChildLeavesGroup`: the children. Which events from outside occur is the
  constant `Outside`.

Abstracted: message texts, titles, exit numbers (only whether a stage exited or
was killed), the order of stages inside a job beyond which is last. Left out:
`t_job.foreground` (written, never read), allocation failure, `$?` and
`g_signal_received` (in `Shell`), and the reuse of a pid while its table entry
lives.

### Heredoc

42sh finds heredocs twice: the reader scans each physical line, and swallows and
queues the bodies at once; then the lexer and parser read the joined line again,
and the collector gives the queued bodies to the redirections of the tree in the
order it is walked. Nothing ties a body in the queue to a redirection but its
position, so the module names each body by the place of the operator it was read
for, and asks where it ends up.

| model | code |
|---|---|
| `Lines`, `Pieces` | a physical line is a sequence of pieces of text: a word (`"w"`), a letter of a delimiter, an operator (`"semi"` for `;`), a quote (`"sq"`, `"dq"`), `$(`, a backslash at the end, a comment sign |
| `buf`, `ctx` | the line and the `t_lcont_ctx` of `shell_read_logical_line`; `ctx.pending` is `pending_hd` |
| `queue` | `shell->heredoc_body_queue`, by the operator each body was read for |
| `todo`, `given` | heredoc redirections `ast_walk` has yet to visit, and those visited with the body they got |
| `sigint` | `g_sigint_heredoc` |
| `source`, `nread`, `eof` | readline, a stream or `-c`; how much was read; its end |
| `left`, `mishap`, `spoiled` | history: the queue was not empty when the line began; the line was scanned again with a body of it queued, or below a comment, or was cut; some line so far leaves bodies behind |

`ReadPrimary`, `JoinBackslash`, `JoinLine`, `ReadBody` are the four reads of the
reader, `EndOfInput`, `EndAfterBackslash`, `EndInMore`, `EndInBody` the same at
the end of input. `Parse` is `process_line` up to the tree: `Lex` is
`lexer_tokenize` with one alias, `Parses` says which token sequences the
recursive descent accepts, `WalkOrder` lists the heredocs of the tree as
`ast_walk` meets them. `PopQueued`, `EmptyBody`, `ReadFallback`,
`EndInFallback` and `Abort` are the ways out of `read_heredoc`.
`Interrupt` is the SIGINT handler of the collector. The reader has none of its
own: SIGINT while it reads a body clears the line being typed and the body goes
on, so there is no action for it. `Scan` and `Lex`
are translated separately from the two functions, as comparing them is the point.
Both are folds of a step over the pieces: `ScanPiece` is a turn of the loop of
`scan_line_into`, `LexPiece` what `lexer_tokenize` and `read_word` make of a piece,
outside (`LexOutside`) or inside (`LexInside`) quotes and substitutions. That is
also what lets the two be compared piece by piece in the proofs.

Left out: `&&`, `||`, `&` and braces, which the walk treats as `;`, `|` and parentheses;
escapes inside a line, quoted delimiters; what the child of a substitution itself reads;
`$?`; failures of `malloc` and of the temporary file.

### Variables

| model | code |
|---|---|
| `sh.value`, `sh.exported` | the `t_var` list: a value, `Null` (exported without one), or `Absent` |
| `sh.hash` | `shell->cmd_hash` |
| `sh.env`, `sh.dirty` | `shell->env`, `shell->env_dirty` |
| `frames`, `todo` | `old_names`, `old_vals` of each running `exec_builtin`; the assignments it has yet to save and apply |
| `child` | a forked command: its copy of the shell, and then the file and environment of its `execve` |
| `files` | the executables that exist; others install and remove them at any time |
| `pinned` | history: what `hash -p` was told |

`VarSet`, `VarUnset`, `VarExport`, `CmdHashClear`, `FindCommand` are functions of
a shell, used by the shell and by the child on its copy. Each builtin is an
action; loops over arguments are sequences of them. `BeginBuiltin`,
`SaveAndApply`, `BuiltinEnds`, `RestoreAssign`, `BuiltinReturns` are the steps of
`exec_builtin`; between them the builtin may run any other (as `source` does),
nested `MaxDepth` deep. `Fork`, `ChildAssigns`, `ChildExecs` are an external
command: looked up before the fork or not, again in the child.

`Environment` has no caches and no scopes: a process gets the exported variables,
and runs a file that exists and that `PATH` or `hash -p` leads to.
`ImplementsEnvironment` is the refinement; the mapping forgets the command cache and the
frames. Of the environment array it shows only that a child's `execve` gets the exported
variables: `var_get_environ` is called in a child right before `execve`, the array of the
shell itself stays empty, so it cannot be stale.
Left out: names with a slash, listings, hit counts, the 64 entries of the arrays.

### Descriptors

A process is a table from descriptors to open files and the descriptor `held` of
the line's heredoc. `open`, `dup` and `pipe` take the lowest free descriptor, so
where the shell's copies of 0 to 2 land, and whether a redirection hits them,
follows from what is open. `BeginScope`, `ApplyRedir`, `RedirFails`, `EndScope`
are `setup_redirections` and `restore_redirections`, one redirection at a time;
`StartPipeline`, `OpenPipes`, `ForkStage`, `PipeChild`, `PipelineStarted`,
`PipelineFails` are `execute_pipeline`; `RunCommand` a single child;
`StageRedir` a child's own redirections; `HoldBody`, `FreeLine` the descriptor a
heredoc body waits on between parser and `ast_free`. A file may fail to open at
any time. Stages take their turns in order once all are wired: each has its own
table, so no order can be told from another. Left out: contents, open modes.

### Words, Arithmetic

One action per turn of `expand_word_into`, chosen by the character: `Quote`, `Ordinary`,
`Backslash`, `BackslashInDouble`, `Tilde`, the forms of `$`. The output is `t_xbuf`:
bytes with the mask that allows splitting. `scans` is a stack, as an arithmetic
expression is expanded as a word of its own. `ArgumentEnds`, `ValueEnds`, `TargetEnds`
are the three loops of `expand_command`; a failure ends the command as
`execute_simple_command` does, or, in a stage of a pipeline, leaves the rest of its
words as they were typed and runs it (`Fail`). A failure inside `$(( ))` is not reported
outwards: `expand_arithmetic` hands the null result of `expand_word` to `arith_eval`,
and the shell dies (`Die`), as it does of the quotient that does not fit. A substituted
command is the output and status it may have; `Killed`, or no process at all, leaves
`$?` alone. A command that ran leaves any status, `Interrupted` among them. The backtick
and the vertical tab have no notation in TLA+ and are the characters named `BT` and
`VT`. `ArithEval` is the recursive descent as a recursive function over the level of the
descent and the result so far, in `Width` bits. `FindClose` and `FindArithClose` say
what their loops find: the first place at which the depth, counted from the left, is
back to zero.

A text is a sequence over `Char`, which lacks only the byte that ends a string;
`WordsAssumption` says that what is typed, stored, printed and in the table of users
is made of texts. TLC gives `Char` all strings but the empty one and evaluates the
assumption.

The reference, in `Phrases` and `Expressions`, is independent of the scan: a word is
written from pieces (text, in either quotes or none, escapes, parameters,
substitutions, expression trees), and `Meaning` says what the pieces come to.
`FieldsByRule` states the rules of the header of `field_split.c` without an order.

### Parser, Aliases, Shell, Control

`Parser` translates each parse function as an operator from a line of tokens and
a place to a tree, a place and a verdict. `Aliases` does the same for
`alias_scan_step`. In `Shell` a process is a record: what `fork` copies
(`running`, `status`, `aliases`, the streams), the stack of C functions that wait
for a result, and what it does next (`do`). Actions are the bodies of those
functions: `ReadLine`, `ParseLine`, `LineDone`, `EndStream` the loops of
`script.c` and `main.c`; `ExecuteLeft`, `ExecuteRight`, `ExecuteBlock`,
`ExecuteSubshell`, `ExecutePipeline`, `ExecuteBackground`, `NodeDone`, `Skip` the
executor; a child is a process of its own, with children of its own. `SignalsRead`
and `SignalsClear` are the two statements of `signals_check`, `Interrupt` the
handler of the prompt. It stays installed, without `SA_RESTART`, while the shell waits:
`WaitInterrupted` and `CommandInterrupted` are such a wait ended by a signal, with the
-1 of `job_wait` for a result, which becomes `$?` and may decide `&&` and `||`; the
children go on. Frames of lines then hold `Anything` for what the line is to come to.
A pipeline runs its first `MaxPipeline` stages (`MAX_PIPELINE`, 256) and drops the rest
silently (`Kept`).

`Shell` takes the parser and the expansion of aliases as operator parameters
(`ParseTokens`, `ExpandAliases`); the configurations of `Control` give them `Parse` and
`AliasExpandTokens`, and the theorems leave them open.

The reference is `Language`: for the tree a line was written from, what runs with which
`$?`, and the state it leaves. A group means what its child means, so the definition is
recursive, and it is written one level at a time: `MeaningByParts` and `LinesByParts`
say what a tree and a sequence of lines do in terms of `Wanted` and `WantedOfLines`, two
parameters that stand for the meaning of the parts. The configurations tie the knot with
`Wanted <- MeaningByParts` and `WantedOfLines <- LinesByParts`, which makes it the
recursive definition; a proof takes the equation as a hypothesis and needs no recursive
operator. Each line and each child carries what it is to come to (`want`), and
`RunsAsWritten` compares.
Words are not expanded here (that is `Words`), an external command is one step
(its fork and wait are `JobControl`'s).

## Runs

| run | instance | states | shows |
|---|---|---|---|
| `job_table` | 2 children, every event | 361 k | the table against itself, the kernel and the terminal; no stage freed unreaped |
| `job_list` | 3 children, pipelines of 3 | 214 k | ids, groups and the pipeline's code when jobs leave the middle of the list |
| `job_script` | 2 children, not interactive | 81 k | no child lost without notification and terminal |
| `job_live` | 2 children, stops, fairness | 136 k | the shell never hangs; finished jobs leave |
| `heredoc_reader` | `ReaderLines`, 5 lines, all inputs | 803 k | reader and lexer agree, every redirection gets its own body |
| `heredoc_mixed` | `MixedLines`, 5 lines, all inputs, fairness | 94 k | bodies when only one of the two sees an operator; the end of the input ends the shell |
| `variables` | `PATH` and a variable, 3 values, 1 command in 3 directories | 797 k | the command cache is invisible (`ImplementsEnvironment`), scopes undone, flags kept |
| `descriptors` | 10 descriptors, 3 stages, 2 nested scopes, 0 and 1 open or not | 1.09 M | nothing leaks from a scope, every pipe ends |
| `words` | words of up to 3 pieces, raw texts of up to 4 characters, small trees, whole commands, expressions that fail inside others | 378 k | words come to what they mean, split by the rules; no command but a stage of a pipeline runs with an ambiguous target; every expansion ends |
| `control` | about 1300 programs: lines of every shape, aliases, sourced files, prompts; 2 interrupts | 107 k | what runs is what the line calls for; the input comes back; aliases are resolved |
| `words_expanded`, `control_newline` | as `words`; groups of two commands | | counterexamples to two comments, see below |

Each runs in about a minute or less.

Why the bounds suffice. `MaxPid` bounds forks in a behaviour. With two children
there is a pipeline of two stages (every order of two reports in one job), or
two jobs (one awaited or continued while the other reports, is removed, or takes
the terminal), and each child takes every path through stop, continue, death and
collection any number of times, as nothing bounds reports. Three are needed
only where three things compare: an id chosen after a removal in the middle, a
last stage reaped between two others. `job_list` has those and leaves stops out;
three children with stops exceed seven million states. The safety theorems
below hold for every number of children and stages.

For `Heredoc` the inputs are all sequences of at most `MaxLines` lines of a set.
Five lines hold a command, a continuation, two bodies with their delimiters and
the next command, so a body can be misplaced within a line or into the next.
`ReaderLines` has, around operators with and without `-`, each kind of quote,
comment, parenthesis and continuation open and closed; `MixedLines` has the
pieces on which reader and lexer differ. Operators and a delimiter inside quotes,
comments and substitutions are in the sets, and so is each line as a possible
body line.

`variables`: one command name in three directories, of which `PATH` lists two, one or
none and `hash -p` names the third, is enough to be cached, stale, shadowed and pinned;
a name that is `PATH`, one that is not and one that is no identifier; an assignment list
with a name twice. Depth 1 under TLC; the theorems hold for any. `descriptors`: ten
descriptors hold 0 to 2, two scopes' copies and one by name, or two pipes; the limit is
reached and `open`, `dup` and `pipe` fail there. Three stages have a first, a middle and
a last. `words`: a boundary of two pieces shows every interaction of neighbours, the
third piece sees the `$?` and the position left by the first two; the raw texts are
every string of up to four of eleven characters with a handler of their own, so every
form that is malformed within four of these characters is there; the backtick, which
only a backslash in double quotes looks at, is not one of them but among the pieces; a
failure inside `$(( ))` takes longer texts, which are in a set of their own (`Nested`);
five bits overflow in one product of literals, and `Least / -1` is among the trees, on
its own and before a failing operand. `control`: trees of depth two or three put every
operator on either side of every other and under every group, with a success, a failure
and an `exit` at each leaf; `lib`, `quit` and `deep` are sourced, the last two ending
the shell from one and two levels down; the alias tables are all pairs of six values,
with a loop, an empty value, a separator and a redirection, under a seen set of 3 and a
budget of 5 (64 and 256 in the code are counted down the same way); the longest
pipelines that these tables make of a line have exactly the seven stages of
`MaxPipeline`. Two interrupts are one that ends a wait and one before or after it.

**Fairness.** Weak fairness of the turns of the wait loops and of the update
loop: the shell runs its own code. Strong fairness of `Notify`: `repl_loop`
notifies at every prompt, and a line holds finitely many commands, so it cannot
be that prompts keep coming and the notification never does. Nothing is assumed
of children or user: a child may run for ever, and the user may never type
again. `FinishedJobsLeave` therefore assumes that lines keep coming, and
`NeverHangs` speaks of jobs with no process left that could move. In
`Heredoc`: weak fairness of parsing, collecting and executing, and of a read
that has nothing left to read; nothing of whoever supplies the lines or the
signals. `Parse` is given by its effect on `pc`, which says the same.
The other modules state no fairness. That an expansion ends is the action property
`EveryStepAdvances`, a measure that falls with every step, which needs none; and
TLC finds no deadlock in any of them but the end of a program.

**What the properties exclude, and why.** `NoChildLost` and `DeathsRecorded` exempt
`strays`, which an action enters only where the code loses track: a wait ended by
`SIGINT`, a continue taken for a death, a child that left its group, a pipeline whose
fork failed. `StatusFromFlags` and `FinishedJobsLeave` exempt a finished job that `fg`
or `bg` marked running. `TerminalFollowsWait` exempts what follows a late `tcsetpgrp` of
a child. `ScannerAgrees` and `OwnBody` exempt text in which reader and lexer are known
to differ (an operator inside `$(`, behind a `#` in the middle of a word, or in an
alias), a line begun with a body left over, one scanned again with a body of it queued
or below a comment; `ScannerAgrees` also one cut by the end of the input and one that
cannot parse, as an operator has no word; `OwnBody` also a group with heredocs inside
and of its own; `NothingLeft` what a failed parse, a substitution or such a second scan
leaves. `TemporariesUndone` exempts a name assigned twice in one prefix, `ExportSticks`
the restoring of a name that had no value, `ScopesUndone` descriptors above 2 that were
redirected by name and scopes begun with 0, 1 or 2 closed or whose copies a redirection
hit, `AliasesResolved` an alias whose value gives its command no word, one cut short by
the seen set or the budget, and what the code does not take for a command position.
`RunsAsWritten` exempts a line one of whose waits a signal ended, and speaks of
pipelines the shell takes whole (`Grammar` of `Language`); `TypeOK` of `Shell` lets such
a wait's -1 be a status. `AmbiguousIsRefused` exempts stages of pipelines. Each
exemption is a behaviour of the code, and those that contradict a text are listed below.

### Where code and comments disagree

With a run:

1. `words_expanded`: a stage of a pipeline whose expansion fails is forked all the
   same, with the failing word and those after it as they were typed: in
   `echo x >$v | cat` with `v` unset, the target is a file named `$v`
   (`exec_pipeline.c:231`, against `exec_pipeline.c:211-212`, and for the target
   against `expander.c:267-269`).
2. `control_newline`: newlines after the assignments of a command are skipped, so
   in a group `A=1` and the command on the next line become one command
   (`parser_command.c:83`, against `parser_list.c:11-13`).

In the models, as the exemptions above or by construction:

* Job control: a continued report counts as a completion, so a job resumed by `bg`
  is shown as Done and dropped while it runs (`job_notify.c:75`, against
  `job_control.h:46`); `fg` or `bg` on a job that finished at that very update
  leaves it Running for ever (`job_continue.c:22`, against `job_control.h:31`);
  `SIGINT` in `waitpid` removes a live job (`job_wait.c:42`, against
  `job_control.h:149-150`); a killed stage's Terminated is overwritten while
  another stage lives (`job_notify.c:53`, against `job_control.h:33-34`); `exit`
  with stopped jobs leaves at once (`builtin_exit.c:57`, against `42sh.h:48`).
* Heredocs: in `( cat <<A ) <<B` the two bodies are swapped (`parser_heredoc.c:262`,
  against `:51-52`); a backslash continuation reads a second body for an operator of an
  earlier line (`input.c:394`, against `parser_heredoc.c:49-51`), and below a line with
  a comment, as in `(w # c` / `w \` / `<<A`, the second scan stops at the comment and
  never sees the operator (`input.c:199-200`, against `input.c:371-378`); a line that
  fails to parse leaves its bodies to the next (`parser.c:35`, against `42sh.h:50`);
  `SIGINT` in a body read by the reader does not abort it (`input.c:237`, against
  `plan/09_signals.md:157-158`), and in the collector never gives status 130
  (`parser_heredoc.c:301`).
* Variables: with one name twice, as in `A=1 A=2 :`, the first temporary value stays
  (`exec_command.c:108`, against `exec_command.c:122`).
* Redirections: a file opened on the very descriptor it is for is closed again, as
  in `cmd 3>f` with 3 free (`redirections.c:115-116`, against
  `plan/05_executor.md`); where 0, 1 or 2 was closed, or a redirection names a
  descriptor the copies lie on, the scope is not undone (`redirections.c:149`).
* Signals: an interrupt at the prompt reaches `$?` at the next prompt only, over the
  status of the line between; one between the two statements of `signals_check` is
  lost.
* Aliases: a command after `{` or after assignments is not expanded; after an alias
  that comes to nothing, the next word is. `source` inside `&&` runs with the
  aliases of before the line, as in every shell.
* Parser: `> f` alone is an error, `<< f` is not; `A=1 (b)` drops the assignment; a
  newline after `&&` or `|` before a group is an error, before a word not.
* Expansion: when an expansion inside `$(( ))` fails, as in
  `echo "$(( $((1/0)) + 1 ))"`, the shell dies of a null pointer
  (`expand_arithmetic.c:161`, against `includes/expander.h:163`; `Die` in `Words`).
  Every literal character outside quotes may be a field boundary, not only what an
  expansion produced: with `IFS=:`, `echo a:b` prints `a b` (`expand_word.c:119`, against
  `field_split.c:6-9`). An unterminated `${a` prints `${{a`; `$((2*(1+2)))` ends at its first
  `))`; a quote inside `$( )` makes
  an empty word a field; `- 5` is a syntax error, `-5` is not; `LLONG_MIN / -1`
  traps; an interrupt during a substitution leaves its status uninitialised
  (`expand_cmdsub.c:176`); with `IFS` empty, an empty expansion is a field.
* Statuses: a wait that a signal ended leaves -1 in `$?` (`job_wait.c:42`,
  `executor.c:131`), which is no status; the job is dropped while it runs.
* Pipelines: stages after the 256th are dropped without a message
  (`exec_pipeline.c:27`).
* `exit` with a negative number that has a 0 among its digits is refused as not
  numeric: `-(LONG_MIN + 0)` overflows, and the build wraps (`builtin_exit.c:43`).

## Proofs

TLAPS checks, for every value of `MaxPid`, `MaxStages`, `Interactive` and
`Outside` that `JobControlAssumption` allows (positive bounds, a Boolean, a set
of known events):

| theorem | property |
|---|---|
| `TypeCorrect` | `TypeOK` |
| `CurrentTracked` | `CurrentIsTracked`: no dangling `current_job` |
| `IdsAreOrdered` | `IdsFollowList`: ids unique and ordered |
| `NotifiedShown` | `NotifiedWasShown`: no end goes unannounced |
| `TerminalOwner` | `TerminalFollowsWait` |
| `GroupsAreJobs` | `GroupIsJob`: a group wait returns stages of its job only |
| `DeathsAreRecorded`, `StopsAreRecorded` | `DeathsRecorded`, `StopsRecorded` |
| `StatusIsDerived` | `StatusFromFlags` |
| `NobodyIsLost` | `NoChildLost` |
| `FreedOnlyWhenFinished` | `FreedWhenFinished`, an action property |
| `WaitResultCorrect` | `WaitResult`, an action property: the code of a job is its last stage's |

None of these is inductive alone, so the argument climbs three invariants.

* `Inv1`: types, the numbering of pids (what is at or past
  `nextPid` is unborn and in no job), every member belongs to a listed job, and
  the wait is for a listed job. Without the numbering a new job could inherit
  members; without the last part `EndForeground` could remove nothing.
* `Inv2` adds the properties about the table, the
  terminal and the groups, with `LeaderLeads`: the leader of a job is in its
  own group while it is a child, which makes a new group number fresh.
  A step that launches nothing is shown to make three moves (of the table, of
  the kernel, of the terminal); one lemma shows the moves keep `Inv2`, another
  does the new job.
* `Inv3` adds what the flags record. Its conjuncts
  need each other: a stage leaves its group only as a stray, so a group found
  empty means every stage is reaped or lost, so the job that is removed then
  frees nobody. Every step has one of five shapes (`StepShape`): a report
  recorded, jobs removed or marked, a job continued, nothing recorded, a
  launch; each shape has its lemma.

`WaitResult` needs besides that the wait statuses the table holds are the kernel's
(`FatesKnown`): a listed stage that is recorded as completed, and was not lost, has the
end it really had. Then whatever report ends `job_wait`, the last stage's record is its
end, or the job has a stopped stage.

`VariablesProofs` does the same for every set of names, values, directories and
commands, every set of prefixes and every depth that `VariablesAssumption` allows:

| theorem | property |
|---|---|
| `TypeCorrect` | `TypeOK`: flags only on variables, in the child's copy too |
| `CacheIsCurrent` | `CacheFollowsPath` |
| `Undone` | `TemporariesUndone` |
| `ExportIsKept` | `ExportSticks`, an action property |
| `Implements` | `ImplementsEnvironment`, the refinement |

The invariant is `IInv`. Types and `CacheFollowsPath` are inductive together; what
`TemporariesUndone` needs is about frames. `SavedInv`: an entry that stands alone
for its name holds the value before, one that will unset its name belongs to a name
that had none. `ApplyInv`: while assignments are applied, a name whose entry is
still to come is untouched, otherwise the entry would save a temporary value.
`UndoInv`: what has been restored stays so, because a later entry is of another
name. `StageInv`: only the innermost frame restores, and nothing runs meanwhile, so
an outer frame's names cannot move under the inner one's restoring without the inner
frame having saved them. Functions on a shell have lemmas of their own
(`SoundVarSet` and so on: a sound shell stays sound), used once for the shell and
once for the child's copy. In the refinement every builtin and restore is a `Set`,
`Unset`, `Export` or `Pin` of `Environment` or a stutter; the one hard step is
`ChildExecs`, where a cached path must be one the abstract command could run
(`FoundIsReachable`, from `CacheFollowsPath`) and a failed search must mean there is
no such file (`NotFoundIsNowhere`). The first directory that has the command is the
least index of a set, which exists by well-founded induction (`WFMin`).

`DescriptorsProofs`, for every number of descriptors and stages, every depth and every
set of redirection lists that `DescriptorsAssumption` allows:

| theorem | property |
|---|---|
| `TypeCorrect` | `TypeOK`: descriptors of pipes and stages exist |
| `PipesEndCorrect` | `PipesEnd`: each end of a pipe is open in one stage at most |
| `StagesConnectedCorrect` | `StagesConnected` |
| `ScopesUndoneCorrect` | `ScopesUndone`, an action property |

A pipeline runs inside scopes, so while pipes are open the shell's table is not what the
scopes left. `Base` is that table without the pipes: no step of a pipeline changes it
(`NewPipeStep`, `CloseStep`: a pipe is opened where nothing was), and the invariant says
of `Base` what it says of scopes. `Kept`: above 2, outside the copies of a scope and of
those inside it, nothing has moved but what was redirected by name, and under a copy
nothing was open. `Copies`: the copies of a scope still hold what 0 to 2 were. `Apart`:
an inner scope's copies lie elsewhere, so its end, which closes them, cannot close an
outer one's; that follows from `Copies`, as an outer copy is open when the inner scope
looks for room. For pipes, `PipesOpen` and `OnlyPipes` say the shell holds exactly the
ends it counts, `Forked` that a stage starts from the shell's table with every pipe
open, `OwnEnds` and `Connected` what is left after it wired and closed. A redirection can
neither change more above 2 than it names nor bring an end of a pipe (`RedirFacts`).

`HeredocProofs`, for every set of lines of whatever length, every number of them and
every kind of input that `HeredocAssumption` allows (operators, quotes and backslashes
stand where a line can have them):

| theorem | property |
|---|---|
| `TypeCorrect` | `TypeOK`: the scanner's depth is never below zero |
| `ScannerAgreesCorrect` | `ScannerAgrees`: the bodies queued are those of the heredocs the lexer reads |
| `OwnBodyCorrect` | `OwnBody`: every redirection gets its own body |
| `NothingLeftCorrect` | `NothingLeft`: no body waits for the next line |

Two things are to be shown: what the reader queues is what the lexer reads, and the
walk of the tree takes it in that order.

The first is about two folds over one text. `Agree` relates a state of the scanner to a
state of the lexer: the same quotes, and the places of the operators pending are those
of the operators read, up to one that has no word. One piece keeps it (`AgreeStep`), so
any text does (`AgreeText`, by induction on the length, which `UpTo` allows without an
operator as parameter: the set of good lengths is a set). What differs is where the
reader stops: at a comment, where the lexer goes on at the next newline, and at a
backslash, after which the joined text is scanned from its start. The invariant
`ReadInv` therefore says of a line in the making that what is queued, followed by what
is pending, is what the lexer has read (`Read`), and of a line cut at a backslash, whose
pending operators were dropped, that what is queued was read first (`Past`, `Begins`).
The second scan finds the rest, and finds all of it, as the queue was empty: lines with
a body already queued are the exemption. An operator whose word is missing at the end
of a line is not pending for the reader, and gets the joint for a word when the line is
scanned again; such a line does not parse whatever follows (`NewlineBroken`, `Worded`).

The second is about `WalkOrder`. Each operator has one key, its own place or that of the
parenthesis that opens its group, so the walk takes each operator once (`WalkLen`), and
on a flat tree the keys grow with the text (`KeyMonotone`), so it takes them in text
order (`WalkFlat`). That the parenthesis exists, and that none is counted below zero
after it, is `OpenerIn`. `WalkInv` says that on a flat tree the queue begins the list of
the operators still to visit, so each takes its own body; and that on any tree no more
bodies are queued than operators are left, so that the walk leaves none. `QueueInv` is
what that comes to between lines: the queue is empty unless a line has spoiled it, and
stays empty under `-c`.

`ShellProofs`, for every program, set of files, external commands and aliases, every
number of processes, and any parser and expansion of aliases (`ShellAssumption`: external
commands end with a code that fits a byte, `is_numeric` accepts integers, a pipeline may
have two stages):

| theorem | property |
|---|---|
| `TypeCorrect` | `TypeOK`: a stack ends at `main` or at its own fork; `$?` and every code returned fit a byte, or are -1 once a signal has ended a wait; an exit code always fits a byte |
| `ReadsInnermostCorrect` | `ReadsInnermost`: the input is the innermost open stream |

`ReadsInnermost` is not inductive: the end of a stream takes the input from the frame of
`shell_run_stream`, so that frame must have held the right one all along. `Nested` says
it did: the innermost of the waiting `shell_run_stream`s saved the stream beneath the
one now read, and each outer one the stream beneath that of the next. A push or pop of
any other frame keeps it (`PushedStack`, `PoppedStack`); a new stream extends the chain
(`PushedStream`), the end of one shortens it. `Fresh` says that before `main` opens
anything there is one stream and no frame but its own, which a script needs, as it reads
that stream without opening another. `TypeOK` rests on `Doing`: what is returned is one
of `Codes`, and who waits, waits for processes that exist, so the code it collects is
one a child ended with, a byte. `Codes` grows with the first interrupt and never shrinks
(`MoreCodes`, `StaysSound`). A forked copy keeps the streams and none of the frames
(`Copied`): it has no stream to give back. Each action changes one process (`Becomes`)
or that and the children it forks (`Forks`), so one lemma per action shows what it
leaves to be `Sound`. Nothing in it says that the right commands run: that is the next
module.

`WordsProofs` takes any characters, commands, outputs and width that `WordsAssumption`
and `ArithmeticAssumption` allow:

| theorem | property |
|---|---|
| `TypeCorrect` | `TypeOK`: no scan leaves its word |
| `AdvanceCorrect` | `EveryStepAdvances`, an action property: every expansion ends, if only with the shell |
| `SplitCorrect` | `SplitsByRule`: the fields are those of the rules, for every buffer and every `IFS` |
| `AmbiguousRefused` | `AmbiguousIsRefused`, an action property: a command that is no stage of a pipeline is refused at a target exactly when the rules do not give one field |

The inductive invariant (`IInv`) says that every scan holds a text, stands in it or at
its end and has a buffer of marked characters, and that the words still to expand are
words of the command that hold texts. It depends on where each handler leaves the
position (`AfterIs`, `BraceIs`, `FindCloseIs`, `FindArithCloseIs`, `TildeTurn`) and on
the evaluator giving a value and an error of the four for every text at all
(`ParseTyped`). Every step has one of four shapes: the last scan goes on in its word, an
expression begins or ends, the next word begins, the expansion stops; each keeps `IInv`
and takes from the measure. An expression that begins moves its characters from the
scan below to its own, less the five that hold it, so that the sum `Left` falls.

The recursive functions of `Words` and `Arithmetic` go by rank: what they are at one
place depends on places of smaller rank only. `Ranked` shows that such an equation has a
solution, so the recursive definition satisfies it, and `RankInduction` gives the
induction. For the evaluator the rank is what is left of the text, then the level.

For the splitting, `Start` says that a field may begin at a place when every byte before
it is behind a further separator, and `CollectsRest` that from there on `collect_fields`
gives the fields the rules number from there. `FieldEnds` is the step: the run
`consume_delimiter` takes holds one hard delimiter, and separates once whatever the
whitespace around it; or it is whitespace between two bytes, and separates once; or it
is whitespace before the end, and separates nothing.

`MeaningProofs` proves that the executor, with its processes, stacks and streams,
implements the language:

| theorem | property |
|---|---|
| `RunsAsWrittenCorrect` | `RunsAsWritten`: a line none of whose waits a signal ended leaves the shell as it should, with the commands run that it calls for, and a child exits with the status of its part |

It assumes that there is a set of trees of which two things hold. `Grammar`: it holds the
parts of each of its trees and whatever the parser finds in the lines of the programs and
files, under any table of aliases that definitions can make (`Tables`), with no pipeline of
more than `MaxPipeline` stages, so that `Kept` drops none (`KeptAll`); and in a line as
it stands the parser finds the tree the line was written from. TLC evaluates that for the
programs of the `control` run, all its tables and `Parser` (`MCGrammar`). It is false of
groups over several lines, which is what `control_newline` shows. `Means`: of these trees
and lines, `Wanted` and `WantedOfLines` satisfy their equations. In the runs they do by
definition; as a hypothesis it excludes what has no meaning, a file that sources itself
for ever.

What a process does next is due to leave some state (`Due`): a tree about to be executed
leaves what it means, a code about to be returned leaves the state with that code as
`$?`, a wait leaves the state with the code the last child is to exit with. Each frame on
the stack turns the state its callee leaves into the one it leaves itself (`Linked`): the
frame of `&&` goes on with its right side or not, the frame of `shell_run_stream` with the
lines it still has to read, the frame of a line only compares. `Chain` says that the links
fit from what is due at the top down to the state the whole program should leave, and the
invariant `MInv` that every process has such a chain. So a step has to be right only at
the top: what it makes due, through the frame it pushes or pops, is what was due before;
the equations of `Language` are what makes it so. `Placed` says what that needs of the
places: who calls whom, that a waiting `shell_run_stream` has a stream of its own, which
nobody reads meanwhile (its lines are part of the chain), that a right side kept in a
frame is a tree of the grammar, that a builtin leaves a table definitions can make. A
child starts a chain of its own, whose only frame remembers what its part should come to;
the parent's chain counts on the code it will exit with (`Ordered`), and a wait is for a
child whose `want` no step changes. A pipeline's last stage is its right side, and each
other one is nobody's wait (`LeftsIs`, `StagesParse`). `repl_loop`
promises nothing between its lines (`MainAlone`), so a signal may set `$?` there. A
signal that ends a wait releases the lines below it from what they were to come to:
`Anything` links to any state (`LinkedToAny`), so the chain holds with whatever the rest
of the line does after the -1.

TLC checked `Inv1`, `Inv2`, `Inv3` and every `IInv` as invariants before they were
proved; `MInv` quantifies over chains of states, so TLC checked only what it implies.

Only model-checked: `ExpandsAsWritten` and `QuotedStays`, of `Phrases`;
`AliasesResolved` of `Control`, and that `Parser` and `Aliases` satisfy `Grammar`; the
liveness properties, `EndOfInputEnds` of `Heredoc` among them (fairness and `ENABLED`
are out of the prover's reach); the absence of deadlock. The meaning of a word or of an
expression follows its pieces or its tree to any depth, which is induction over data;
`Parser`, `Aliases`, `Control` and `Expressions` declare recursive operators, which the
prover cannot use: parsing, the rewriting of a line by aliases, the worth of a tree and
the meaning of a word stay with TLC's bounded inputs. The counterexample runs are what
they are on their instance.

## Not modelled

* `cd`, `pwd`, `echo`, `test`, `type`, `history`, the listings of `set`, `export`,
  `alias`, `hash` and the option parsing of the job builtins: text in, text out, in
  one step; no state but the working directory outlives them.
* The table of operators and the io numbers of the lexer: `Parser` starts from
  tokens, `Heredoc` has the part of the lexer that decides on heredocs.
* History, the tree and token printers, job titles, the debug events: I/O and
  formatting. Libft: library code; its hash table enters as a function.
* In `Shell`, waits that end because the job stopped (128 and the signal; `JobControl`
  has them), and commands that a signal of the keyboard kills, whose statuses are those
  any command may have.
* Allocation failure anywhere; reuse of a pid while its table entry lives; more than
  64 temporary assignments, for which the behaviour is the compiler's; dispositions of
  signals in children beyond the kernel's default.
* The child of a command substitution keeps `interactive` and the parent's job list
  (`expand_cmdsub.c:126`); what it does with them is only its output and status here.

Possible next steps: `Parser` and `Aliases` as functions by rank, like `Parse` of
`Arithmetic`, and their part of `Grammar` proved; `JobControl` shown to implement the
one-step external command that `Shell` assumes.
