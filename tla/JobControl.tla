------------------------------ MODULE JobControl ------------------------------
(***************************************************************************)
(* Job control of 42sh: the shell's job table (srcs/job_control), the      *)
(* launchers and builtins that drive it, the children it forks and the     *)
(* kernel's wait reports and terminal ownership between them.              *)
(*                                                                         *)
(* A job is named by the pid of its first stage.  The shell appends jobs   *)
(* and forks with increasing pids, so list order is pid order; a job's     *)
(* process list is the set of pids p with jobOf[p] = job.                  *)
(*                                                                         *)
(* An operator whose name begins with Bad is not part of the model: it is  *)
(* the definition after it with a plausible slip, which the properties are *)
(* shown to catch.                                                         *)
(***************************************************************************)
EXTENDS Naturals, FiniteSets, FiniteSetsExt

CONSTANTS MaxPid,      \* bound: how many children are ever forked
          MaxStages,   \* bound: stages of a pipeline (code: MAX_PIPELINE)
          Interactive, \* shell->interactive
          Outside      \* the events from outside that may happen

Events == {"stop", "continue", "leave", "interrupt", "fork"}

ASSUME JobControlAssumption ==
    /\ MaxPid \in Nat \ {0}
    /\ MaxStages \in Nat \ {0}
    /\ Interactive \in BOOLEAN
    /\ Outside \subseteq Events

Pids  == 1..MaxPid
None  == 0               \* NULL job, no process group
Shell == 0               \* shell->shell_pgid as owner of the terminal

PStates  == {"unborn", "running", "stopped", "zombie", "reaped"}
Deaths   == {"exit", "killed"}
Reports  == {"none", "stopped", "continued"}
Statuses == {"running", "stopped", "done", "terminated"}
Results  == {"none", "exit", "killed", "failed", "stopped", "error"}

VARIABLES
    \* the children and the kernel
    nextPid,    \* the pid the next fork returns
    pstate,     \* state of each child
    death,      \* how a zombie died
    report,     \* stop or continue event not yet collected by waitpid
    pgrp,       \* process group of each child
    claim,      \* children that have yet to run their own tcsetpgrp
    tty,        \* foreground process group of the terminal
    \* the shell
    jobs,       \* shell->jobs
    jobOf,      \* the job whose process list holds the child
    completed,  \* t_process.completed
    flagged,    \* t_process.stopped
    wstatus,    \* t_process.status
    current,    \* shell->current_job
    pc,         \* what the shell is doing
    waitJob,    \* the job job_wait blocks on
    result,     \* what job_wait or waitpid returned in this step, if it did
    \* history
    told,       \* jobs whose present status has been printed
    strays,     \* live children job control cannot account for
    stolen      \* a child claimed the terminal while not in the foreground

kernel == <<nextPid, pstate, death, report, pgrp, claim>>
table  == <<jobs, jobOf, completed, flagged, wstatus, current, told>>
shell  == <<pc, waitJob, result>>
vars   == <<kernel, tty, table, shell, strays, stolen>>

Job == [id : Pids, status : Statuses, notified : BOOLEAN]

-------------------------------------------------------------------------------
(* The job table.                                                          *)

Jobs       == DOMAIN jobs
Members(h) == {p \in Pids : jobOf[p] = h}
LastStage(h) == Max(Members(h))

\* slips: the first id is not free, ids are counted
BadNextJobIdReused == Max({jobs[h].id : h \in Jobs} \cup {0})
BadNextJobIdCounted == Cardinality(Jobs) + 1
NextJobId == Max({jobs[h].id : h \in Jobs} \cup {0}) + 1

\* slip: one completed stage is taken for all of them
BadRecomputed(h, st, comp, stop) ==
    IF Members(h) \cap comp # {}
    THEN IF st = "terminated" THEN st ELSE "done"
    ELSE IF Members(h) \cap stop # {} THEN "stopped" ELSE "running"

\* job_recompute_status
Recomputed(h, st, comp, stop) ==
    IF Members(h) \subseteq comp
    THEN IF st = "terminated" THEN st ELSE "done"
    ELSE IF Members(h) \cap stop # {} THEN "stopped" ELSE "running"

\* slip: a death by signal does not complete the stage
BadCompletedAfter(p, w) == IF w = "exit" THEN completed \cup {p} ELSE completed

\* slip: a stop is not noted in the stage
BadFlaggedAfter(p, w) == flagged \ {p}

\* job_apply_status: any report that is not a stop counts as a completion
CompletedAfter(p, w) == IF w = "stopped" THEN completed ELSE completed \cup {p}
FlaggedAfter(p, w)   == IF w = "stopped" THEN flagged \cup {p} ELSE flagged \ {p}
StatusAfter(h, p, w) ==
    Recomputed(h, IF w = "killed" THEN "terminated" ELSE jobs[h].status,
               CompletedAfter(p, w), FlaggedAfter(p, w))
\* slip: notified is not cleared
BadJobsAfterNotified(h, p, w) == [jobs EXCEPT ![h].status = StatusAfter(h, p, w)]
JobsAfter(h, p, w) == [jobs EXCEPT ![h].status = StatusAfter(h, p, w),
                                   ![h].notified = FALSE]
WstatusAfter(p, w) == [wstatus EXCEPT ![p] = w]

\* slip: job_remove leaves current_job as it is
BadSetTable(jb, comp, flag, wst, cur, gone) ==
    LET freed == {p \in Pids : jobOf[p] \in gone}
    IN  /\ jobs'      = [h \in DOMAIN jb \ gone |-> jb[h]]
        /\ jobOf'     = [p \in Pids |-> IF p \in freed THEN None ELSE jobOf[p]]
        /\ completed' = comp \ freed
        /\ flagged'   = flag \ freed
        /\ wstatus'   = [p \in Pids |-> IF p \in freed THEN "none" ELSE wst[p]]
        /\ current'   = cur

\* job_remove: the jobs in gone leave the table jb and are freed with their
\* processes; the other arguments are the flags the table has by then
SetTable(jb, comp, flag, wst, cur, gone) ==
    LET freed == {p \in Pids : jobOf[p] \in gone}
    IN  /\ jobs'      = [h \in DOMAIN jb \ gone |-> jb[h]]
        /\ jobOf'     = [p \in Pids |-> IF p \in freed THEN None ELSE jobOf[p]]
        /\ completed' = comp \ freed
        /\ flagged'   = flag \ freed
        /\ wstatus'   = [p \in Pids |-> IF p \in freed THEN "none" ELSE wst[p]]
        /\ current'   = IF cur \in gone THEN None ELSE cur

\* job_apply_status and job_recompute_status on the job of p
ApplyStatus(h, p, w) ==
    /\ SetTable(JobsAfter(h, p, w), CompletedAfter(p, w), FlaggedAfter(p, w),
                WstatusAfter(p, w), current, {})
    /\ told' = IF StatusAfter(h, p, w) = jobs[h].status THEN told ELSE told \ {h}

\* job_find_by_spec: %+, %- and %N; %prefix can name any job of the list
PreviousJob ==
    LET before == {h \in Jobs : h < current}
    IN  IF current = None \/ before = {} THEN None ELSE Max(before)
JobWithId(n) ==
    LET found == {h \in Jobs : jobs[h].id = n}
    IN  IF found = {} THEN None ELSE Min(found)
Resolvable == {current, PreviousJob, None} \cup {JobWithId(n) : n \in 1..MaxPid}

ExitCode(w) == CASE w = "none" -> "exit"       \* calloc'ed status 0
                 [] w \in Deaths -> w
                 [] OTHER -> "failed"          \* get_exit_status: 1

-------------------------------------------------------------------------------
(* The kernel: wait reports and process groups.                            *)

Alive(p)   == pstate[p] \in {"running", "stopped"}
IsChild(p) == pstate[p] \in {"running", "stopped", "zombie"}
Group(g)   == {p \in Pids : IsChild(p) /\ pgrp[p] = g}

\* slip: waitpid without WUNTRACED
BadWaitable(p, wcontinued) ==
    \/ pstate[p] = "zombie"
    \/ wcontinued /\ pstate[p] = "running" /\ report[p] = "continued"

\* what waitpid has to say about p, given the option WCONTINUED or not
Waitable(p, wcontinued) ==
    \/ pstate[p] = "zombie"
    \/ pstate[p] = "stopped" /\ report[p] = "stopped"
    \/ wcontinued /\ pstate[p] = "running" /\ report[p] = "continued"
ReportOf(p) == IF pstate[p] = "zombie" THEN death[p] ELSE report[p]

Collect(p) ==
    /\ IF pstate[p] = "zombie"
       THEN /\ pstate' = [pstate EXCEPT ![p] = "reaped"]
            /\ death'  = [death EXCEPT ![p] = "none"]
            /\ pgrp'   = [pgrp EXCEPT ![p] = None]
       ELSE UNCHANGED <<pstate, death, pgrp>>
    /\ report' = [report EXCEPT ![p] = "none"]
    /\ strays' = IF pstate[p] = "zombie" THEN strays \ {p}
                 ELSE IF report[p] = "continued" /\ jobOf[p] # None
                 THEN strays \cup {p} ELSE strays
    /\ UNCHANGED <<nextPid, claim>>

\* kill(-g, SIGCONT) on a group that has members
ContinueGroup(g) ==
    LET woken == {p \in Group(g) : pstate[p] = "stopped"}
    IN  /\ pstate' = [p \in Pids |-> IF p \in woken THEN "running" ELSE pstate[p]]
        /\ report' = [p \in Pids |-> IF p \in woken THEN "continued" ELSE report[p]]
        /\ UNCHANGED <<nextPid, death, pgrp, claim>>

Born(n) == nextPid..(nextPid + n - 1)

\* fork n stages into the group of the first; a stage that claims runs
\* tcsetpgrp itself once it is scheduled
Fork(n, group, claims) ==
    /\ nextPid + n <= MaxPid + 1
    /\ nextPid' = nextPid + n
    /\ pstate' = [p \in Pids |-> IF p \in Born(n) THEN "running" ELSE pstate[p]]
    /\ pgrp'   = [p \in Pids |-> IF p \in Born(n) THEN group ELSE pgrp[p]]
    /\ claim'  = IF claims THEN claim \cup {nextPid} ELSE claim
    /\ UNCHANGED <<death, report>>

-------------------------------------------------------------------------------
(* The children.  Once the shell has exited nothing more is observed.      *)

Outsider == pc # "exited" /\ UNCHANGED <<table, shell, nextPid>>

\* exec_child, pipe_child, subshell_child: tcsetpgrp(terminal_fd, getpid())
ChildClaims(p) ==
    /\ p \in claim /\ pstate[p] = "running"
    /\ claim' = claim \ {p}
    /\ tty' = p
    /\ stolen' = (stolen \/ ~(pc = "wait" /\ waitJob = p))
    /\ Outsider /\ UNCHANGED <<pstate, death, report, pgrp, strays>>

\* a program exits by itself after its start-up, or is killed at any time
ChildDies(p, d) ==
    /\ IF d = "exit" THEN pstate[p] = "running" /\ p \notin claim ELSE Alive(p)
    /\ pstate' = [pstate EXCEPT ![p] = "zombie"]
    /\ death'  = [death EXCEPT ![p] = d]
    /\ report' = [report EXCEPT ![p] = "none"]
    /\ claim'  = claim \ {p}
    /\ Outsider /\ UNCHANGED <<pgrp, tty, strays, stolen>>

\* Ctrl-Z, SIGSTOP, SIGTTIN
ChildStops(p) ==
    /\ "stop" \in Outside /\ pstate[p] = "running"
    /\ pstate' = [pstate EXCEPT ![p] = "stopped"]
    /\ report' = [report EXCEPT ![p] = "stopped"]
    /\ Outsider /\ UNCHANGED <<death, pgrp, claim, tty, strays, stolen>>

\* a SIGCONT that the shell did not send
ChildContinues(p) ==
    /\ "continue" \in Outside /\ pstate[p] = "stopped"
    /\ pstate' = [pstate EXCEPT ![p] = "running"]
    /\ report' = [report EXCEPT ![p] = "continued"]
    /\ Outsider /\ UNCHANGED <<death, pgrp, claim, tty, strays, stolen>>

\* a later stage calls setsid or setpgid and leaves the job's group
ChildLeavesGroup(p) ==
    /\ "leave" \in Outside /\ pstate[p] = "running" /\ p \notin claim
    /\ pgrp[p] \notin {p, None}
    /\ pgrp' = [pgrp EXCEPT ![p] = p]
    /\ strays' = strays \cup {p}
    /\ Outsider /\ UNCHANGED <<pstate, death, report, claim, tty, stolen>>

-------------------------------------------------------------------------------
(* The shell between two commands: launching jobs.                         *)

\* slip: spawn_pipeline registers the group leader alone
BadAddJob(n) ==
    /\ jobs' = [h \in Jobs \cup {nextPid} |->
                   IF h = nextPid
                   THEN [id |-> NextJobId, status |-> "running", notified |-> FALSE]
                   ELSE jobs[h]]
    /\ jobOf'   = [jobOf EXCEPT ![nextPid] = nextPid]
    /\ current' = nextPid
    /\ UNCHANGED <<completed, flagged, wstatus, told>>

\* job_create and job_add_process for the n stages forked by this step
AddJob(n) ==
    /\ jobs' = [h \in Jobs \cup {nextPid} |->
                   IF h = nextPid
                   THEN [id |-> NextJobId, status |-> "running", notified |-> FALSE]
                   ELSE jobs[h]]
    /\ jobOf'   = [p \in Pids |-> IF p \in Born(n) THEN nextPid ELSE jobOf[p]]
    /\ current' = nextPid
    /\ UNCHANGED <<completed, flagged, wstatus, told>>

\* tcsetpgrp by the shell
GiveTerminal(g) ==
    IF Interactive THEN tty' = g /\ stolen' = FALSE ELSE UNCHANGED <<tty, stolen>>

WaitFor(h) == pc' = "wait" /\ waitJob' = h /\ result' = "none"
Return(r)  == pc' = "idle" /\ waitJob' = None /\ result' = r

\* execute_pipeline, execute_subshell and, when interactive,
\* execute_simple_command, up to the wait in job_launch_foreground
LaunchForeground(n) ==
    /\ pc = "idle"
    /\ Fork(n, nextPid, Interactive)
    /\ AddJob(n)
    /\ GiveTerminal(nextPid)
    /\ WaitFor(nextPid)
    /\ UNCHANGED strays

\* launch_simple_job of a shell that is not interactive: no job, no group
LaunchPlain ==
    /\ pc = "idle" /\ ~Interactive
    /\ Fork(1, None, FALSE)
    /\ pc' = "waitpid" /\ waitJob' = nextPid /\ result' = "none"
    /\ UNCHANGED <<table, tty, strays, stolen>>

PlainReaped(p) ==
    /\ pc = "waitpid" /\ p = waitJob /\ pstate[p] = "zombie"
    /\ Collect(p)
    /\ Return(death[p])
    /\ UNCHANGED <<table, tty, stolen>>

\* execute_background
LaunchBackground ==
    /\ pc = "idle"
    /\ Fork(1, nextPid, FALSE)
    /\ AddJob(1)
    /\ Return("none")
    /\ UNCHANGED <<tty, strays, stolen>>

\* spawn_pipeline fails after k stages: the job is removed, the stages run on
PipelineForkFails(k) ==
    /\ "fork" \in Outside /\ pc = "idle"
    /\ Fork(k, nextPid, Interactive /\ k > 0)
    /\ current' = None                     \* job_create, then job_remove
    /\ strays' = strays \cup Born(k)
    /\ Return("none")
    /\ UNCHANGED <<tty, jobs, jobOf, completed, flagged, wstatus, told, stolen>>

-------------------------------------------------------------------------------
(* job_wait and what its callers do when it returns.                       *)

\* slip: a stopped job is removed like any other
BadEndForeground(h, jb, comp, flag, wst, r) ==
    /\ GiveTerminal(Shell)
    /\ Return(r)
    /\ told' = IF jb[h].status = jobs[h].status THEN told ELSE told \ {h}
    /\ SetTable(jb, comp, flag, wst, current, {h})

\* the terminal comes back; a stopped job is kept, any other is removed
EndForeground(h, jb, comp, flag, wst, r) ==
    /\ GiveTerminal(Shell)
    /\ Return(r)
    /\ told' = IF jb[h].status = jobs[h].status THEN told ELSE told \ {h}
    /\ IF jb[h].status = "stopped"
       THEN SetTable([jb EXCEPT ![h].notified = FALSE], comp, flag, wst, current, {})
       ELSE SetTable(jb, comp, flag, wst, current, {h})

\* slip: the result is the code of the stage reaped last
BadWaitReaped(p) ==
    /\ pc = "wait" /\ p \in Group(waitJob) /\ Waitable(p, FALSE)
    /\ Collect(p)
    /\ LET w  == ReportOf(p)
           st == StatusAfter(waitJob, p, w)
       IN  IF st = "running"
           THEN ApplyStatus(waitJob, p, w) /\ UNCHANGED <<tty, stolen, shell>>
           ELSE EndForeground(waitJob, JobsAfter(waitJob, p, w),
                    CompletedAfter(p, w), FlaggedAfter(p, w), WstatusAfter(p, w),
                    IF st = "stopped" THEN "stopped" ELSE ExitCode(w))

\* one turn of the loop: waitpid(-pgid, WUNTRACED) returned p
WaitReaped(p) ==
    /\ pc = "wait" /\ p \in Group(waitJob) /\ Waitable(p, FALSE)
    /\ Collect(p)
    /\ LET w  == ReportOf(p)
           st == StatusAfter(waitJob, p, w)
       IN  IF st = "running"
           THEN ApplyStatus(waitJob, p, w) /\ UNCHANGED <<tty, stolen, shell>>
           ELSE EndForeground(waitJob, JobsAfter(waitJob, p, w),
                    CompletedAfter(p, w), FlaggedAfter(p, w), WstatusAfter(p, w),
                    IF st = "stopped" THEN "stopped"
                    ELSE ExitCode(WstatusAfter(p, w)[LastStage(waitJob)]))

\* ECHILD: the group has no member left to wait for
WaitNoChild ==
    /\ pc = "wait" /\ Group(waitJob) = {}
    /\ EndForeground(waitJob, jobs, completed, flagged, wstatus,
                     ExitCode(wstatus[LastStage(waitJob)]))
    /\ UNCHANGED <<kernel, strays>>

\* SIGINT reaches the blocked shell: its handler is installed without
\* SA_RESTART, so waitpid fails with EINTR
WaitInterrupted ==
    /\ "interrupt" \in Outside /\ Interactive /\ pc = "wait"
    /\ ~\E p \in Group(waitJob) : Waitable(p, FALSE)
    /\ EndForeground(waitJob, jobs, completed, flagged, wstatus, "error")
    /\ strays' = strays \cup {p \in Members(waitJob) : IsChild(p)}
    /\ UNCHANGED kernel

-------------------------------------------------------------------------------
(* The prompt and the builtins jobs, fg, bg and kill, all of which first   *)
(* run job_update_statuses to the end.                                     *)

StartUpdate ==
    /\ pc = "idle" /\ pc' = "update" /\ result' = "none"
    /\ UNCHANGED <<kernel, tty, table, waitJob, strays, stolen>>

\* waitpid(-1, WNOHANG | WUNTRACED | WCONTINUED) returned p
UpdateReaped(p) ==
    /\ pc = "update" /\ IsChild(p) /\ Waitable(p, TRUE)
    /\ Collect(p)
    /\ IF jobOf[p] = None THEN UNCHANGED table
       ELSE ApplyStatus(jobOf[p], p, ReportOf(p))
    /\ UNCHANGED <<tty, shell, stolen>>

Updated == pc = "update" /\ ~\E p \in Pids : IsChild(p) /\ Waitable(p, TRUE)

\* slip: killed jobs are not dropped
BadFinished(h) == jobs[h].status = "done"

\* repl_loop: job_notify, before the next line is read
Finished(h) == jobs[h].status \in {"done", "terminated"}
Notify ==
    /\ Updated /\ Interactive
    /\ LET gone == {h \in Jobs : Finished(h)}
           news == {h \in Jobs : jobs[h].status # "running" /\ ~jobs[h].notified}
       IN  /\ SetTable([h \in Jobs |-> [jobs[h] EXCEPT !.notified = @ \/ h \in news]],
                       completed, flagged, wstatus, current, gone)
           /\ told' = (told \cup news) \ gone
    /\ Return("none")
    /\ UNCHANGED <<kernel, tty, strays, stolen>>

\* builtin_jobs
ListJobs ==
    /\ Updated
    /\ jobs' = [h \in Jobs |-> [jobs[h] EXCEPT !.notified = TRUE]]
    /\ told' = Jobs
    /\ Return("none")
    /\ UNCHANGED <<kernel, tty, jobOf, completed, flagged, wstatus, current,
                   strays, stolen>>

\* fg, bg or kill with a spec that resolves to nothing
NoSuchJob ==
    /\ Updated /\ None \in Resolvable
    /\ Return("none")
    /\ UNCHANGED <<kernel, tty, table, strays, stolen>>

\* slip: the stopped flags survive fg and bg
BadMarkRunning(h) ==
    /\ jobs' = [jobs EXCEPT ![h].status = "running", ![h].notified = FALSE]
    /\ told' = IF jobs[h].status = "running" THEN told ELSE told \ {h}
    /\ current' = h
    /\ UNCHANGED <<jobOf, completed, flagged, wstatus>>

\* mark_running, and current_job = job in fg and bg
MarkRunning(h) ==
    /\ jobs' = [jobs EXCEPT ![h].status = "running", ![h].notified = FALSE]
    /\ told' = IF jobs[h].status = "running" THEN told ELSE told \ {h}
    /\ flagged' = flagged \ Members(h)
    /\ current' = h
    /\ UNCHANGED <<jobOf, completed, wstatus>>

\* slip: the terminal is not taken back when SIGCONT finds nobody
BadContinueForeground(h) ==
    /\ Updated /\ h \in Resolvable \ {None}
    /\ MarkRunning(h)
    /\ GiveTerminal(h)
    /\ IF Group(h) = {}
       THEN Return("none") /\ UNCHANGED kernel
       ELSE WaitFor(h) /\ ContinueGroup(h)
    /\ UNCHANGED strays

\* job_continue_foreground: the group has gone, or the shell waits for it
ContinueForeground(h) ==
    /\ Updated /\ h \in Resolvable \ {None}
    /\ MarkRunning(h)
    /\ IF Group(h) = {}
       THEN GiveTerminal(Shell) /\ Return("none") /\ UNCHANGED kernel
       ELSE GiveTerminal(h) /\ WaitFor(h) /\ ContinueGroup(h)
    /\ UNCHANGED strays

\* job_continue_background
ContinueBackground(h) ==
    /\ Updated /\ h \in Resolvable \ {None}
    /\ MarkRunning(h)
    /\ IF Group(h) = {} THEN UNCHANGED kernel ELSE ContinueGroup(h)
    /\ Return("none")
    /\ UNCHANGED <<tty, strays, stolen>>

\* kill -CONT %spec; any other signal takes effect as ChildStops or ChildDies
KillJob(h) ==
    /\ Updated /\ h \in Resolvable \ {None}
    /\ IF Group(h) = {} THEN UNCHANGED kernel ELSE ContinueGroup(h)
    /\ Return("none")
    /\ UNCHANGED <<tty, table, strays, stolen>>

\* exit or end of input: shell_cleanup, job_control_cleanup
ShellExits ==
    /\ pc = "idle" /\ pc' = "exited" /\ result' = "none"
    /\ SetTable(jobs, completed, flagged, wstatus, None, Jobs)
    /\ told' = {}
    /\ UNCHANGED <<kernel, tty, waitJob, strays, stolen>>

Exited == pc = "exited" /\ UNCHANGED vars

-------------------------------------------------------------------------------

Init ==
    /\ nextPid = 1
    /\ pstate = [p \in Pids |-> "unborn"]
    /\ death = [p \in Pids |-> "none"]
    /\ report = [p \in Pids |-> "none"]
    /\ pgrp = [p \in Pids |-> None]
    /\ claim = {}
    /\ tty = Shell                          \* job_control_init
    /\ jobs = [h \in {} |-> None]
    /\ jobOf = [p \in Pids |-> None]
    /\ completed = {}
    /\ flagged = {}
    /\ wstatus = [p \in Pids |-> "none"]
    /\ current = None
    /\ pc = "idle"
    /\ waitJob = None
    /\ result = "none"
    /\ told = {}
    /\ strays = {}
    /\ stolen = FALSE

Children ==
    \E p \in Pids :
        \/ ChildClaims(p) \/ ChildStops(p) \/ ChildContinues(p)
        \/ ChildLeavesGroup(p)
        \/ \E d \in Deaths : ChildDies(p, d)

Command ==
    \/ \E n \in 1..MaxStages : LaunchForeground(n)
    \/ LaunchPlain \/ LaunchBackground \/ StartUpdate \/ ShellExits
    \/ \E k \in 0..(MaxStages - 1) : PipelineForkFails(k)

Waiting == WaitNoChild \/ \E p \in Pids : PlainReaped(p) \/ WaitReaped(p)

Update ==
    \/ Notify \/ ListJobs \/ NoSuchJob
    \/ \E p \in Pids : UpdateReaped(p)
    \/ \E h \in Jobs : \/ ContinueForeground(h) \/ ContinueBackground(h)
                       \/ KillJob(h)

Next == Children \/ Command \/ Waiting \/ WaitInterrupted \/ Update \/ Exited

Spec == Init /\ [][Next]_vars

-------------------------------------------------------------------------------
(* Safety.                                                                 *)

KernelTypeOK ==
    /\ nextPid \in 1..(MaxPid + 1)
    /\ pstate \in [Pids -> PStates]
    /\ death \in [Pids -> Deaths \cup {"none"}]
    /\ report \in [Pids -> Reports]
    /\ pgrp \in [Pids -> Pids \cup {None}]
    /\ claim \subseteq Pids
    /\ tty \in Pids \cup {Shell}
    /\ strays \subseteq Pids
    /\ stolen \in BOOLEAN

TableTypeOK ==
    /\ Jobs \subseteq Pids
    /\ jobs \in [Jobs -> Job]
    /\ jobOf \in [Pids -> Pids \cup {None}]
    /\ completed \subseteq Pids
    /\ flagged \subseteq Pids
    /\ wstatus \in [Pids -> Deaths \cup Reports]
    /\ current \in Pids \cup {None}
    /\ told \subseteq Pids

ShellTypeOK ==
    /\ pc \in {"idle", "update", "wait", "waitpid", "exited"}
    /\ waitJob \in Pids \cup {None}
    /\ result \in Results

\* Every variable stays in its range: the fields of t_job and t_process, and
\* the states the kernel keeps for a child.
TypeOK == KernelTypeOK /\ TableTypeOK /\ ShellTypeOK

\* Ids grow along shell->jobs whatever was removed before, so no two jobs
\* share an id and %N names one job (next_job_id, job_find_by_id).
IdsFollowList == \A g, h \in Jobs : g < h => jobs[g].id < jobs[h].id

\* shell->current_job never points at a job that job_remove or job_notify freed.
CurrentIsTracked == current \in Jobs \cup {None}

\* The aggregate status is what job_recompute_status derives from the flags of
\* the stages, except for a finished job that fg or bg marked running.
StatusFromFlags ==
    \A h \in Jobs :
        \/ jobs[h].status = Recomputed(h, jobs[h].status, completed, flagged)
        \/ Members(h) \subseteq completed /\ jobs[h].status = "running"

\* A child the shell has not reaped yet is in the table, unless its wait was
\* interrupted, its SIGCONT report was taken for its death, it left the job's
\* group or its pipeline could not be forked to the end.
NoChildLost ==
    \A p \in Pids : IsChild(p) => jobOf[p] \in Jobs \/ p \in strays
                                  \/ pc = "exited" \/ p = waitJob

\* Once the kernel has given up a child, the only record of its death is the
\* completed flag: it is set for every reaped child still in the table, and set
\* for a live one only after the SIGCONT confusion (job_apply_status).
DeathsRecorded ==
    \A p \in Pids : jobOf[p] # None =>
        /\ pstate[p] = "reaped" => p \in completed
        /\ p \in completed => pstate[p] = "reaped" \/ p \in strays

\* Between two reports the stopped flag of a stage agrees with the kernel: no
\* stop is lost when fg, bg, job_wait and job_update_statuses take turns.
StopsRecorded ==
    \A p \in Pids :
        jobOf[p] # None /\ p \notin strays /\ Alive(p) /\ report[p] = "none"
            => (p \in flagged <=> pstate[p] = "stopped")

\* waitpid(-pgid) in job_wait returns stages of the job it waits for only, so
\* job_apply_status always finds the pid there.
GroupIsJob ==
    \A p \in Pids : IsChild(p) /\ pgrp[p] \in Jobs => jobOf[p] = pgrp[p]

\* The terminal belongs to the awaited job while the shell waits and to the
\* shell at any other time, unless a child's own late tcsetpgrp took it.
TerminalFollowsWait ==
    Interactive /\ ~stolen =>
        tty = IF pc = "wait" THEN waitJob ELSE Shell

\* A job marked notified was last shown to the user with its present status,
\* so job_notify never drops a job whose end was not announced.
NotifiedWasShown ==
    \A h \in Jobs : jobs[h].notified => h \in told

-------------------------------------------------------------------------------
(* What a step may do.                                                     *)

\* how the stage died: still a zombie in the kernel, or reaped into the table
Fate(p) == IF pstate[p] = "zombie" THEN death[p] ELSE wstatus[p]

\* When the wait for a job ends with an exit code, it is the code of the last
\* stage of the pipeline, whichever stage was reaped last; when it ends because
\* the job stopped, the job stays in the table with the stop still to be shown.
WaitResult ==
    [][pc = "wait" /\ pc' = "idle" =>
        /\ result' \in Deaths /\ LastStage(waitJob) \notin strays
              => result' = Fate(LastStage(waitJob))
        /\ result' = "stopped"
              => waitJob \in Jobs' /\ ~jobs'[waitJob].notified]_vars

\* Job control frees an entry only when every stage has been reaped, or lost
\* in a way NoChildLost names, or when the shell exits.
FreedWhenFinished ==
    [][\A h \in Jobs : h \notin Jobs' /\ pc' # "exited" =>
        \A p \in Members(h) : pstate'[p] = "reaped" \/ p \in strays']_vars

-------------------------------------------------------------------------------
(* Liveness.                                                               *)

\* The shell keeps running its own code; it comes back to the prompt after
\* every line, however many commands a line holds.  Nothing is assumed of the
\* children or of the user.
Fairness ==
    /\ WF_vars(Waiting)
    /\ WF_vars(Update)
    /\ SF_vars(Notify)
FairSpec == Spec /\ Fairness

\* no member of the group can make the shell wait
Quiet(h) == \A p \in Group(h) : pstate[p] # "running"

\* The shell never blocks for ever on a foreground job whose processes have all
\* stopped or died: no stop or death is missed between launch, fg and job_wait.
NeverHangs ==
    \A h \in Pids : []<>~(pc = "wait" /\ waitJob = h /\ Quiet(h))

\* A job whose stages are all dead leaves the table, as long as the user keeps
\* entering lines, unless fg or bg marked it running after its end.
Over(h) == h \in Jobs /\ \A p \in Members(h) : ~Alive(p)
Ghost(h) == h \in Jobs /\ Members(h) \subseteq completed /\ jobs[h].status = "running"
FinishedJobsLeave ==
    []<>(pc = "update") => \A h \in Pids : Over(h) ~> (h \notin Jobs \/ Ghost(h))

===============================================================================
