--------------------------- MODULE JobControlProofs ---------------------------
(***************************************************************************)
(* Proofs about JobControl, for every value of its constants.              *)
(***************************************************************************)
EXTENDS JobControl, WellFoundedInduction, TLAPS

-------------------------------------------------------------------------------
(* The maximum of a bounded set of naturals.                               *)

Below == {ss \in Nat \X Nat : ss[1] < ss[2]}

\* A set of natural numbers that is not empty has a least element.
LEMMA LeastNatural ==
    ASSUME NEW T, T \subseteq Nat, T # {}
    PROVE  \E x \in T : \A y \in T : x <= y
<1>1. IsWellFoundedOn(Below, Nat)
  BY NatLessThanWellFounded DEF OpToRel, Below
<1>2. PICK x \in T : \A y \in T : ~(<<y, x>> \in Below)
  BY <1>1, WFMin
<1>3. ASSUME NEW y \in T PROVE x <= y
  <2>1. x \in Nat /\ y \in Nat
    OBVIOUS
  <2>2. ~(y < x)
    BY <1>2, <2>1 DEF Below
  <2> QED
    BY <2>1, <2>2
<1> QED
  BY <1>3

\* Max of a bounded set of naturals that is not empty is its greatest element.
LEMMA MaxIsGreatest ==
    ASSUME NEW S, S \subseteq Nat, S # {},
           NEW n \in Nat, \A x \in S : x <= n
    PROVE  Max(S) \in S /\ \A x \in S : x <= Max(S)
<1> DEFINE Bounds == {b \in Nat : \A x \in S : x <= b}
<1>1. PICK b \in Bounds : \A c \in Bounds : b <= c
  <2>1. Bounds \subseteq Nat /\ n \in Bounds
    OBVIOUS
  <2> HIDE DEF Bounds
  <2> QED
    BY <2>1, LeastNatural
<1>2. b \in S
  <2>1. SUFFICES ASSUME b \notin S PROVE FALSE
    OBVIOUS
  <2>2. b \in Nat /\ \A x \in S : x \in Nat /\ x <= b /\ x # b
    BY <1>1, <2>1
  <2>3. PICK y \in S : TRUE
    OBVIOUS
  <2>4. b - 1 \in Bounds
    BY <2>2, <2>3
  <2> QED
    BY <2>2, <2>4, <1>1
<1>3. \A x \in S : b >= x
  BY <1>1, <1>2
<1> QED
  BY <1>2, <1>3 DEF Max

-------------------------------------------------------------------------------
(* The inductive invariant behind the types.                               *)

\* Children and jobs are numbered in the order of their creation: nothing is
\* known of a pid before fork returns it, and a job's id is at most its pid.
Numbering ==
    /\ \A p \in Pids : p >= nextPid => pstate[p] = "unborn" /\ jobOf[p] = None
    /\ \A p \in Pids : pgrp[p] < nextPid
    /\ \A h \in Jobs : h < nextPid /\ jobs[h].id <= h

\* What the shell blocks on exists.
WaitTracked ==
    /\ pc = "wait" => waitJob \in Jobs
    /\ pc = "waitpid" => waitJob \in Pids /\ jobOf[waitJob] = None

\* A process is on the list of a job that is in the table.
MembersListed == \A p \in Pids : jobOf[p] \in Jobs \cup {None}

Inv1 == TypeOK /\ Numbering /\ MembersListed /\ WaitTracked

\* job_recompute_status always stores one of the four t_job_status values.
LEMMA StatusTyped ==
    ASSUME NEW h, NEW st \in Statuses, NEW comp, NEW stop
    PROVE  Recomputed(h, st, comp, stop) \in Statuses
BY DEF Recomputed, Statuses

\* next_job_id: the new id is greater than every id in use, and no greater
\* than the pid of the new job.
LEMMA NextJobIdFresh ==
    ASSUME Inv1
    PROVE  /\ NextJobId \in Nat
           /\ NextJobId >= 1
           /\ NextJobId <= nextPid
           /\ \A h \in Jobs : jobs[h].id < NextJobId
<1> DEFINE Ids == {jobs[h].id : h \in Jobs} \cup {0}
<1>1. Ids \subseteq Nat /\ Ids # {} /\ 0 \in Ids
  BY DEF Inv1, TypeOK, TableTypeOK, Job, Pids
<1>2. nextPid - 1 \in Nat /\ nextPid \in Nat
  BY JobControlAssumption DEF Inv1, TypeOK, KernelTypeOK
<1>3. \A x \in Ids : x <= nextPid - 1
  BY <1>2 DEF Inv1, TypeOK, TableTypeOK, Numbering, Job, Pids
<1>4. \A h \in Jobs : jobs[h].id \in Ids
  OBVIOUS
<1>5. NextJobId = Max(Ids) + 1
  BY DEF NextJobId
<1> HIDE DEF Ids
<1>6. Max(Ids) \in Ids /\ \A x \in Ids : x <= Max(Ids)
  BY <1>1, <1>2, <1>3, MaxIsGreatest
<1>7. Max(Ids) \in Nat /\ Max(Ids) <= nextPid - 1
  BY <1>1, <1>3, <1>6
<1>8. \A h \in Jobs : jobs[h].id \in Nat /\ jobs[h].id <= Max(Ids)
  BY <1>1, <1>4, <1>6
<1> QED
  BY <1>2, <1>5, <1>7, <1>8

\* Arguments that SetTable accepts.
TableArgs(jb, comp, flag, wst, cur) ==
    /\ DOMAIN jb = Jobs
    /\ jb \in [Jobs -> Job]
    /\ \A h \in Jobs : jb[h].id = jobs[h].id
    /\ comp \subseteq Pids
    /\ flag \subseteq Pids
    /\ wst \in [Pids -> Deaths \cup Reports]
    /\ cur \in Pids \cup {None}

\* What job_remove and the updates of the flags leave of the table.
LEMMA SetTableTyped ==
    ASSUME TypeOK,
           NEW jb, NEW comp, NEW flag, NEW wst, NEW cur, NEW gone,
           TableArgs(jb, comp, flag, wst, cur),
           SetTable(jb, comp, flag, wst, cur, gone),
           told' \subseteq Pids
    PROVE  /\ TableTypeOK'
           /\ Jobs' = Jobs \ gone
           /\ \A h \in Jobs' : jobs'[h] = jb[h] /\ jobs'[h].id = jobs[h].id
           /\ \A p \in Pids : jobOf'[p] = IF jobOf[p] \in gone THEN None ELSE jobOf[p]
<1>1. Jobs' = Jobs \ gone /\ \A h \in Jobs' : jobs'[h] = jb[h]
  BY DEF SetTable, Jobs, TableArgs
<1>2. jobs' \in [Jobs' -> Job] /\ Jobs' \subseteq Pids
  BY <1>1 DEF SetTable, Jobs, TypeOK, TableTypeOK, TableArgs
<1>3. jobOf' \in [Pids -> Pids \cup {None}]
  BY DEF SetTable, TypeOK, TableTypeOK
<1>4. completed' \subseteq Pids /\ flagged' \subseteq Pids
  BY DEF SetTable, TableArgs
<1>5. wstatus' \in [Pids -> Deaths \cup Reports]
  BY DEF SetTable, Reports, TableArgs
<1>6. current' \in Pids \cup {None}
  BY DEF SetTable, TableArgs
<1>7. \A p \in Pids : jobOf'[p] = IF jobOf[p] \in gone THEN None ELSE jobOf[p]
  BY DEF SetTable
<1>8. \A h \in Jobs' : jobs'[h].id = jobs[h].id
  BY <1>1 DEF TableArgs
<1> QED
  BY <1>1, <1>2, <1>3, <1>4, <1>5, <1>6, <1>7, <1>8 DEF TableTypeOK

\* job_apply_status and job_recompute_status keep the types and the ids.
LEMMA ApplyTyped ==
    ASSUME TypeOK, NEW h \in Jobs, NEW p \in Pids, NEW w \in Deaths \cup Reports
    PROVE  /\ DOMAIN JobsAfter(h, p, w) = Jobs
           /\ JobsAfter(h, p, w) \in [Jobs -> Job]
           /\ \A g \in Jobs : JobsAfter(h, p, w)[g].id = jobs[g].id
           /\ \A g \in Jobs \ {h} : JobsAfter(h, p, w)[g] = jobs[g]
           /\ JobsAfter(h, p, w)[h].status = StatusAfter(h, p, w)
           /\ CompletedAfter(p, w) \in SUBSET Pids
           /\ FlaggedAfter(p, w) \in SUBSET Pids
           /\ WstatusAfter(p, w) \in [Pids -> Deaths \cup Reports]
           /\ StatusAfter(h, p, w) \in Statuses
<1>1. StatusAfter(h, p, w) \in Statuses
  <2>1. (IF w = "killed" THEN "terminated" ELSE jobs[h].status) \in Statuses
    BY DEF TypeOK, TableTypeOK, Job, Statuses
  <2> QED
    BY <2>1, StatusTyped DEF StatusAfter
<1>2. jobs \in [Jobs -> Job] /\ jobs[h] \in Job
  BY DEF TypeOK, TableTypeOK
<1>3. /\ JobsAfter(h, p, w) \in [Jobs -> Job]
      /\ DOMAIN JobsAfter(h, p, w) = Jobs
      /\ \A g \in Jobs : JobsAfter(h, p, w)[g].id = jobs[g].id
      /\ \A g \in Jobs \ {h} : JobsAfter(h, p, w)[g] = jobs[g]
      /\ JobsAfter(h, p, w)[h].status = StatusAfter(h, p, w)
  BY <1>1, <1>2 DEF JobsAfter, Job
<1>4. CompletedAfter(p, w) \in SUBSET Pids /\ FlaggedAfter(p, w) \in SUBSET Pids
  BY DEF CompletedAfter, FlaggedAfter, TypeOK, TableTypeOK
<1>5. WstatusAfter(p, w) \in [Pids -> Deaths \cup Reports]
  BY DEF WstatusAfter, TypeOK, TableTypeOK
<1> QED
  BY <1>1, <1>3, <1>4, <1>5

\* What every step but a fork leaves of the numbering: no pid is born, and the
\* table only loses entries.
Steady ==
    /\ nextPid' = nextPid
    /\ \A p \in Pids : pstate[p] = "unborn" => pstate'[p] = "unborn"
    /\ \A p \in Pids : pgrp'[p] = pgrp[p] \/ pgrp'[p] < nextPid
    /\ Jobs' \subseteq Jobs
    /\ \A h \in Jobs' : jobs'[h].id = jobs[h].id
    /\ \A p \in Pids : jobOf'[p] = jobOf[p] \/ jobOf'[p] = None

\* A step that forks nothing and gives no child to a job keeps the numbering of
\* pids: what was unborn and unlisted from nextPid on still is.
LEMMA SteadyNumbering ==
    ASSUME TypeOK, Numbering, Steady
    PROVE  Numbering'
<1>1. \A p \in Pids : p >= nextPid' => pstate'[p] = "unborn" /\ jobOf'[p] = None
  BY DEF Numbering, Steady
<1>2. \A p \in Pids : pgrp'[p] < nextPid'
  BY DEF Numbering, Steady
<1>3. \A h \in Jobs' : h < nextPid' /\ jobs'[h].id <= h
  BY DEF Numbering, Steady
<1> QED
  BY <1>1, <1>2, <1>3 DEF Numbering

\* waitpid, kill and the children keep the kernel's types.
LEMMA CollectTyped ==
    ASSUME TypeOK, Numbering, NEW p \in Pids, Collect(p),
           tty' \in Pids \cup {Shell}, stolen' \in BOOLEAN
    PROVE  /\ KernelTypeOK'
           /\ nextPid' = nextPid
           /\ \A q \in Pids : pstate[q] = "unborn" => pstate'[q] = "unborn"
           /\ \A q \in Pids : pgrp'[q] = pgrp[q] \/ pgrp'[q] < nextPid
<1>1. KernelTypeOK
  BY DEF TypeOK
<1>2. nextPid' = nextPid /\ claim' = claim /\ strays' \subseteq Pids
  BY <1>1 DEF Collect, KernelTypeOK
<1>3. report' \in [Pids -> Reports]
  BY <1>1 DEF Collect, KernelTypeOK, Reports
<1>4. CASE pstate[p] = "zombie"
  <2>1. /\ pstate' = [pstate EXCEPT ![p] = "reaped"]
        /\ death' = [death EXCEPT ![p] = "none"]
        /\ pgrp' = [pgrp EXCEPT ![p] = None]
    BY <1>4 DEF Collect
  <2>2. /\ pstate' \in [Pids -> PStates] /\ death' \in [Pids -> Deaths \cup {"none"}]
        /\ \A q \in Pids : pstate[q] = "unborn" => pstate'[q] = "unborn"
    BY <1>1, <1>4, <2>1 DEF KernelTypeOK, PStates
  <2>3. 0 < nextPid
    BY <1>1, JobControlAssumption DEF KernelTypeOK
  <2>4. /\ pgrp' \in [Pids -> Pids \cup {None}]
        /\ \A q \in Pids : pgrp'[q] = pgrp[q] \/ pgrp'[q] < nextPid
    BY <1>1, <2>1, <2>3 DEF KernelTypeOK, None
  <2> QED
    BY <1>1, <1>2, <1>3, <2>2, <2>4 DEF KernelTypeOK
<1>5. CASE pstate[p] # "zombie"
  <2>1. UNCHANGED <<pstate, death, pgrp>>
    BY <1>5 DEF Collect
  <2> QED
    BY <1>1, <1>2, <1>3, <2>1 DEF KernelTypeOK
<1> QED
  BY <1>4, <1>5

\* kill(-pgid, SIGCONT) leaves every child where it was born and in its group.
LEMMA ContinueGroupTyped ==
    ASSUME TypeOK, NEW g, ContinueGroup(g),
           tty' \in Pids \cup {Shell}, stolen' \in BOOLEAN, strays' = strays
    PROVE  /\ KernelTypeOK'
           /\ nextPid' = nextPid
           /\ \A q \in Pids : pstate[q] = "unborn" => pstate'[q] = "unborn"
           /\ \A q \in Pids : pgrp'[q] = pgrp[q]
BY DEF TypeOK, KernelTypeOK, ContinueGroup, PStates, Reports

\* Forking n children in one group leaves a well-typed process table.
LEMMA ForkTyped ==
    ASSUME TypeOK, NEW n \in Nat, NEW group \in Pids \cup {None},
           NEW claims \in BOOLEAN, claims => n > 0, Fork(n, group, claims),
           tty' \in Pids \cup {Shell}, stolen' \in BOOLEAN, strays' \subseteq Pids
    PROVE  KernelTypeOK'
<1>1. nextPid \in Nat /\ MaxPid \in Nat /\ nextPid >= 1
  BY JobControlAssumption DEF TypeOK, KernelTypeOK
<1>2. nextPid' \in 1..(MaxPid + 1)
  BY <1>1 DEF Fork
<1>3. pstate' \in [Pids -> PStates] /\ pgrp' \in [Pids -> Pids \cup {None}]
  BY DEF Fork, TypeOK, KernelTypeOK, PStates
<1>4. claim' \subseteq Pids
  BY <1>1 DEF Fork, Pids, TypeOK, KernelTypeOK
<1> QED
  BY <1>2, <1>3, <1>4 DEF Fork, TypeOK, KernelTypeOK

\* Giving the terminal away keeps its types.
LEMMA TerminalTyped ==
    ASSUME TypeOK, NEW g \in Pids \cup {Shell}, GiveTerminal(g)
    PROVE  tty' \in Pids \cup {Shell} /\ stolen' \in BOOLEAN
BY DEF TypeOK, KernelTypeOK, GiveTerminal

-------------------------------------------------------------------------------
(* Each action keeps the types, the numbering and what the shell waits for. *)

\* What the children do by themselves keeps Inv1.
LEMMA ChildrenInv1 ==
    ASSUME Inv1, Children
    PROVE  Inv1'
<1>1. UNCHANGED <<table, shell, nextPid>>
  BY DEF Children, ChildClaims, ChildDies, ChildStops, ChildContinues,
         ChildLeavesGroup, Outsider
<1>2. TableTypeOK' /\ ShellTypeOK' /\ MembersListed' /\ WaitTracked'
  BY <1>1 DEF Inv1, TypeOK, TableTypeOK, ShellTypeOK, MembersListed, WaitTracked,
              Jobs, table, shell
<1>3. PICK p \in Pids :
         \/ ChildClaims(p) \/ ChildStops(p) \/ ChildContinues(p)
         \/ ChildLeavesGroup(p)
         \/ \E d \in Deaths : ChildDies(p, d)
  BY DEF Children
<1>4. CASE \E d \in Deaths : ChildDies(p, d)
  <2>1. PICK d \in Deaths : ChildDies(p, d)
    BY <1>4
  <2>2. KernelTypeOK' /\ Steady
    BY <2>1, <1>1 DEF ChildDies, Inv1, TypeOK, KernelTypeOK, Steady, Jobs, table,
                      PStates, Reports, Alive
  <2> QED
    BY <1>2, <2>2, SteadyNumbering DEF Inv1, TypeOK
<1>5. CASE ChildClaims(p)
  <2>1. KernelTypeOK' /\ Steady
    BY <1>1, <1>5 DEF ChildClaims, Inv1, TypeOK, KernelTypeOK, Steady, Jobs, table
  <2> QED
    BY <1>2, <2>1, SteadyNumbering DEF Inv1, TypeOK
<1>6. CASE ChildStops(p)
  <2>1. KernelTypeOK' /\ Steady
    BY <1>1, <1>6 DEF ChildStops, Inv1, TypeOK, KernelTypeOK, Steady, Jobs, table,
                      PStates, Reports
  <2> QED
    BY <1>2, <2>1, SteadyNumbering DEF Inv1, TypeOK
<1>7. CASE ChildContinues(p)
  <2>1. KernelTypeOK' /\ Steady
    BY <1>1, <1>7 DEF ChildContinues, Inv1, TypeOK, KernelTypeOK, Steady, Jobs,
                      table, PStates, Reports
  <2> QED
    BY <1>2, <2>1, SteadyNumbering DEF Inv1, TypeOK
<1>8. CASE ChildLeavesGroup(p)
  <2>1. p < nextPid
    <3>1. ~(p >= nextPid)
      BY <1>8 DEF ChildLeavesGroup, Inv1, Numbering
    <3>2. p \in Nat /\ nextPid \in Nat
      BY JobControlAssumption DEF Inv1, TypeOK, KernelTypeOK, Pids
    <3> QED
      BY <3>1, <3>2
  <2>2. KernelTypeOK' /\ Steady
    BY <1>1, <1>8, <2>1 DEF ChildLeavesGroup, Inv1, TypeOK, KernelTypeOK, Steady,
                            Jobs, table
  <2> QED
    BY <1>2, <2>2, SteadyNumbering DEF Inv1, TypeOK
<1> QED
  BY <1>3, <1>4, <1>5, <1>6, <1>7, <1>8

\* job_create and job_add_process: the new job takes a fresh id, the others
\* keep theirs.
LEMMA AddJobTyped ==
    ASSUME Inv1, NEW n \in Nat \ {0}, nextPid \in Pids, AddJob(n)
    PROVE  /\ TableTypeOK'
           /\ Jobs' = Jobs \cup {nextPid} /\ nextPid \notin Jobs
           /\ jobs'[nextPid].id = NextJobId
           /\ \A h \in Jobs : jobs'[h] = jobs[h]
           /\ \A p \in Pids : p \notin Born(n) => jobOf'[p] = jobOf[p]
           /\ MembersListed'
           /\ current' = nextPid
<1>1. NextJobId \in Pids
  BY NextJobIdFresh, JobControlAssumption DEF Pids
<1>2. nextPid \notin Jobs
  BY JobControlAssumption DEF Inv1, Numbering, Pids
<1> DEFINE new == [id |-> NextJobId, status |-> "running", notified |-> FALSE]
<1>3. new \in Job /\ new.id = NextJobId
  BY <1>1 DEF Job, Statuses
<1>4. jobs' = [h \in Jobs \cup {nextPid} |-> IF h = nextPid THEN new ELSE jobs[h]]
  BY DEF AddJob
<1> HIDE DEF new
<1>5. Jobs' = Jobs \cup {nextPid}
  BY <1>4 DEF Jobs
<1>6. jobs'[nextPid].id = NextJobId /\ \A h \in Jobs : jobs'[h] = jobs[h]
  BY <1>2, <1>3, <1>4
<1>7. jobs' \in [Jobs' -> Job] /\ Jobs' \subseteq Pids
  BY <1>3, <1>4, <1>5 DEF Inv1, TypeOK, TableTypeOK
<1>8. jobOf' = [p \in Pids |-> IF p \in Born(n) THEN nextPid ELSE jobOf[p]]
  BY DEF AddJob
<1>9. /\ jobOf' \in [Pids -> Pids \cup {None}]
      /\ \A p \in Pids : p \notin Born(n) => jobOf'[p] = jobOf[p]
  BY <1>8 DEF Inv1, TypeOK, TableTypeOK
<1>10. /\ current' = nextPid
       /\ UNCHANGED <<completed, flagged, wstatus, told>>
  BY DEF AddJob
<1>11. TableTypeOK'
  BY <1>7, <1>9, <1>10 DEF Inv1, TypeOK, TableTypeOK
<1>12. MembersListed'
  BY <1>5, <1>8 DEF Inv1, MembersListed
<1> QED
  BY <1>2, <1>5, <1>6, <1>9, <1>10, <1>11, <1>12

\* A fork numbers its children from nextPid on.
LEMMA ForkNumbers ==
    ASSUME Inv1, NEW n \in Nat, NEW group, NEW claims, Fork(n, group, claims),
           group = None \/ group = nextPid
    PROVE  /\ nextPid \in Nat \ {0} /\ nextPid' \in Nat
           /\ nextPid' = nextPid + n
           /\ \A p \in Pids : p \in Born(n) => p < nextPid'
           /\ \A p \in Pids : p >= nextPid' =>
                 p \notin Born(n) /\ pstate'[p] = "unborn" /\ jobOf[p] = None
           /\ \A p \in Pids : pgrp'[p] < nextPid'
<1>1. nextPid \in Nat \ {0} /\ nextPid' = nextPid + n /\ Pids \subseteq Nat
  BY JobControlAssumption DEF Inv1, TypeOK, KernelTypeOK, Fork, Pids
<1>2. \A p \in Pids : p \in Born(n) <=> nextPid <= p /\ p <= nextPid + n - 1
  BY <1>1 DEF Born
<1>3. \A p \in Pids : p \in Born(n) => p < nextPid' /\ n > 0
  BY <1>1, <1>2
<1>4. \A p \in Pids : p >= nextPid' => p \notin Born(n) /\ p >= nextPid
  BY <1>1, <1>2
<1>5. \A p \in Pids : p >= nextPid' => pstate'[p] = "unborn" /\ jobOf[p] = None
  BY <1>4 DEF Fork, Inv1, Numbering
<1>6. ASSUME NEW p \in Pids PROVE pgrp[p] \in Nat /\ pgrp[p] < nextPid
  <2>1. pgrp \in [Pids -> Pids \cup {None}]
    BY DEF Inv1, TypeOK, KernelTypeOK
  <2>2. pgrp[p] < nextPid
    BY DEF Inv1, Numbering
  <2>3. pgrp[p] \in Pids \cup {None}
    BY <2>1
  <2>4. pgrp[p] \in Nat
    BY <2>3, JobControlAssumption DEF None, Pids
  <2> QED
    BY <2>2, <2>4
<1>7. ASSUME NEW p \in Pids PROVE pgrp'[p] < nextPid'
  <2>1. CASE p \in Born(n)
    <3>1. pgrp'[p] = group
      BY <2>1 DEF Fork
    <3> QED
      BY <1>1, <1>3, <2>1, <3>1 DEF None
  <2>2. CASE p \notin Born(n)
    <3>1. pgrp'[p] = pgrp[p]
      BY <2>2 DEF Fork
    <3> QED
      BY <1>1, <1>6, <3>1
  <2> QED
    BY <2>1, <2>2
<1> QED
  BY <1>1, <1>3, <1>4, <1>5, <1>7

\* execute_pipeline keeps Inv1.
LEMMA LaunchForegroundInv1 ==
    ASSUME Inv1, NEW n \in 1..MaxStages, LaunchForeground(n)
    PROVE  Inv1'
<1>1. /\ Fork(n, nextPid, Interactive) /\ AddJob(n) /\ GiveTerminal(nextPid)
      /\ WaitFor(nextPid) /\ strays' = strays
  BY DEF LaunchForeground
<1>2. n \in Nat \ {0}
  BY JobControlAssumption
<1>3. nextPid \in Pids
  BY <1>1, <1>2, JobControlAssumption DEF Fork, Inv1, TypeOK, KernelTypeOK, Pids
<1>4. /\ nextPid \in Nat \ {0} /\ nextPid' \in Nat /\ nextPid' = nextPid + n
      /\ \A p \in Pids : p >= nextPid' =>
            p \notin Born(n) /\ pstate'[p] = "unborn" /\ jobOf[p] = None
      /\ \A p \in Pids : pgrp'[p] < nextPid'
  BY <1>1, <1>2, ForkNumbers
<1>5. KernelTypeOK'
  <2>1. tty' \in Pids \cup {Shell} /\ stolen' \in BOOLEAN
    BY <1>1, <1>3, TerminalTyped DEF Inv1
  <2>2. strays' \subseteq Pids /\ Interactive \in BOOLEAN
    BY <1>1, JobControlAssumption DEF Inv1, TypeOK, KernelTypeOK
  <2> QED
    BY <1>1, <1>2, <1>3, <2>1, <2>2, ForkTyped DEF Inv1
<1>6. /\ TableTypeOK' /\ Jobs' = Jobs \cup {nextPid} /\ nextPid \notin Jobs
      /\ jobs'[nextPid].id = NextJobId /\ \A h \in Jobs : jobs'[h] = jobs[h]
      /\ \A p \in Pids : p \notin Born(n) => jobOf'[p] = jobOf[p]
      /\ MembersListed'
  BY <1>1, <1>2, <1>3, AddJobTyped
<1>7. Numbering'
  <2>1. \A h \in Jobs' : h < nextPid' /\ jobs'[h].id <= h
    <3>1. nextPid < nextPid' /\ jobs'[nextPid].id <= nextPid
      BY <1>2, <1>4, <1>6, NextJobIdFresh
    <3>2. ASSUME NEW h \in Jobs PROVE h < nextPid' /\ jobs'[h].id <= h
      BY <1>2, <1>3, <1>4, <1>6
         DEF Inv1, Numbering, TypeOK, TableTypeOK, Pids
    <3> QED
      BY <1>6, <3>1, <3>2
  <2>2. \A p \in Pids : p >= nextPid' => pstate'[p] = "unborn" /\ jobOf'[p] = None
    BY <1>4, <1>6
  <2> QED
    BY <1>4, <2>1, <2>2 DEF Numbering
<1>8. ShellTypeOK' /\ WaitTracked'
  BY <1>1, <1>3, <1>6 DEF WaitFor, ShellTypeOK, WaitTracked, Results
<1> QED
  BY <1>5, <1>6, <1>7, <1>8 DEF Inv1, TypeOK

\* launch_simple_job without job control keeps Inv1.
LEMMA LaunchPlainInv1 ==
    ASSUME Inv1, LaunchPlain
    PROVE  Inv1'
<1>1. /\ Fork(1, None, FALSE)
      /\ pc' = "waitpid" /\ waitJob' = nextPid /\ result' = "none"
      /\ UNCHANGED <<table, tty, strays, stolen>>
  BY DEF LaunchPlain
<1>2. nextPid \in Pids
  BY <1>1, JobControlAssumption DEF Fork, Inv1, TypeOK, KernelTypeOK, Pids
<1>3. /\ nextPid \in Nat \ {0} /\ nextPid' \in Nat /\ nextPid' = nextPid + 1
      /\ \A p \in Pids : p >= nextPid' =>
            p \notin Born(1) /\ pstate'[p] = "unborn" /\ jobOf[p] = None
      /\ \A p \in Pids : pgrp'[p] < nextPid'
  BY <1>1, ForkNumbers
<1>4. KernelTypeOK'
  BY <1>1, ForkTyped DEF Inv1, TypeOK, KernelTypeOK
<1>5. TableTypeOK' /\ Jobs' = Jobs /\ MembersListed'
  BY <1>1 DEF Inv1, TypeOK, TableTypeOK, MembersListed, table, Jobs
<1>6. Numbering'
  <2>1. \A h \in Jobs' : h < nextPid' /\ jobs'[h].id <= h
    BY <1>1, <1>3, <1>5 DEF Inv1, Numbering, TypeOK, TableTypeOK, Pids, table
  <2>2. \A p \in Pids : p >= nextPid' => pstate'[p] = "unborn" /\ jobOf'[p] = None
    BY <1>1, <1>3 DEF table
  <2> QED
    BY <1>3, <2>1, <2>2 DEF Numbering
<1>7. jobOf'[nextPid] = None
  BY <1>1, <1>2, <1>3 DEF Inv1, Numbering, table
<1>8. ShellTypeOK' /\ WaitTracked'
  BY <1>1, <1>2, <1>7 DEF ShellTypeOK, WaitTracked, Results
<1> QED
  BY <1>4, <1>5, <1>6, <1>8 DEF Inv1, TypeOK

\* execute_background keeps Inv1.
LEMMA LaunchBackgroundInv1 ==
    ASSUME Inv1, LaunchBackground
    PROVE  Inv1'
<1>1. /\ Fork(1, nextPid, FALSE) /\ AddJob(1) /\ Return("none")
      /\ UNCHANGED <<tty, strays, stolen>>
  BY DEF LaunchBackground
<1>2. nextPid \in Pids
  BY <1>1, JobControlAssumption DEF Fork, Inv1, TypeOK, KernelTypeOK, Pids
<1>3. /\ nextPid \in Nat \ {0} /\ nextPid' \in Nat /\ nextPid' = nextPid + 1
      /\ \A p \in Pids : p >= nextPid' =>
            p \notin Born(1) /\ pstate'[p] = "unborn" /\ jobOf[p] = None
      /\ \A p \in Pids : pgrp'[p] < nextPid'
  BY <1>1, ForkNumbers
<1>4. KernelTypeOK'
  BY <1>1, <1>2, ForkTyped DEF Inv1, TypeOK, KernelTypeOK
<1>5. /\ TableTypeOK' /\ Jobs' = Jobs \cup {nextPid} /\ nextPid \notin Jobs
      /\ jobs'[nextPid].id = NextJobId /\ \A h \in Jobs : jobs'[h] = jobs[h]
      /\ \A p \in Pids : p \notin Born(1) => jobOf'[p] = jobOf[p]
      /\ MembersListed'
  BY <1>1, <1>2, AddJobTyped
<1>6. Numbering'
  <2>1. \A h \in Jobs' : h < nextPid' /\ jobs'[h].id <= h
    <3>1. nextPid < nextPid' /\ jobs'[nextPid].id <= nextPid
      BY <1>3, <1>5, NextJobIdFresh
    <3>2. ASSUME NEW h \in Jobs PROVE h < nextPid' /\ jobs'[h].id <= h
      BY <1>2, <1>3, <1>5
         DEF Inv1, Numbering, TypeOK, TableTypeOK, Pids
    <3> QED
      BY <1>5, <3>1, <3>2
  <2>2. \A p \in Pids : p >= nextPid' => pstate'[p] = "unborn" /\ jobOf'[p] = None
    BY <1>3, <1>5
  <2> QED
    BY <1>3, <2>1, <2>2 DEF Numbering
<1>7. ShellTypeOK' /\ WaitTracked'
  BY <1>1 DEF Return, ShellTypeOK, WaitTracked, Results
<1> QED
  BY <1>4, <1>5, <1>6, <1>7 DEF Inv1, TypeOK

\* What every step but a fork leaves of the kernel.
KernelSteady ==
    /\ KernelTypeOK'
    /\ nextPid' = nextPid
    /\ \A p \in Pids : pstate[p] = "unborn" => pstate'[p] = "unborn"
    /\ \A p \in Pids : pgrp'[p] = pgrp[p] \/ pgrp'[p] < nextPid

\* A step of the kernel that leaves the table alone keeps what is said of it.
LEMMA TableKept ==
    ASSUME Inv1, KernelSteady, UNCHANGED table
    PROVE  TableTypeOK' /\ Numbering' /\ MembersListed' /\ Jobs' = Jobs
<1>1. TableTypeOK' /\ MembersListed' /\ Jobs' = Jobs
  BY DEF Inv1, TypeOK, TableTypeOK, MembersListed, Jobs, table
<1>2. Steady
  BY <1>1 DEF KernelSteady, Steady, table
<1> QED
  BY <1>1, <1>2, SteadyNumbering DEF Inv1

\* A rewrite of the table, with the jobs in gone removed, keeps what is said of it.
LEMMA TableStep ==
    ASSUME Inv1, KernelSteady,
           NEW jb, NEW comp, NEW flag, NEW wst, NEW cur, NEW gone,
           TableArgs(jb, comp, flag, wst, cur),
           SetTable(jb, comp, flag, wst, cur, gone),
           told' \subseteq Pids
    PROVE  /\ TableTypeOK' /\ Numbering' /\ MembersListed'
           /\ Jobs' = Jobs \ gone
           /\ \A h \in Jobs' : jobs'[h] = jb[h]
<1>1. /\ TableTypeOK'
      /\ Jobs' = Jobs \ gone
      /\ \A h \in Jobs' : jobs'[h] = jb[h] /\ jobs'[h].id = jobs[h].id
      /\ \A p \in Pids : jobOf'[p] = IF jobOf[p] \in gone THEN None ELSE jobOf[p]
  BY SetTableTyped DEF Inv1
<1>2. MembersListed'
  BY <1>1 DEF Inv1, MembersListed
<1>3. Steady
  BY <1>1 DEF KernelSteady, Steady
<1> QED
  BY <1>1, <1>2, <1>3, SteadyNumbering DEF Inv1

\* job_apply_status through apply_wait_result.
LEMMA ApplyArgs ==
    ASSUME TypeOK, NEW h \in Jobs, NEW p \in Pids, NEW w \in Deaths \cup Reports
    PROVE  TableArgs(JobsAfter(h, p, w), CompletedAfter(p, w), FlaggedAfter(p, w),
                     WstatusAfter(p, w), current)
<1>1. current \in Pids \cup {None}
  BY DEF TypeOK, TableTypeOK
<1> QED
  BY <1>1, ApplyTyped DEF TableArgs

\* apply_wait_result changes one job and removes none.
LEMMA ApplyStep ==
    ASSUME Inv1, KernelSteady, NEW h \in Jobs, NEW p \in Pids,
           NEW w \in Deaths \cup Reports, ApplyStatus(h, p, w)
    PROVE  /\ TableTypeOK' /\ Numbering' /\ MembersListed' /\ Jobs' = Jobs
           /\ \A g \in Jobs : jobs'[g] = JobsAfter(h, p, w)[g]
<1>1. /\ SetTable(JobsAfter(h, p, w), CompletedAfter(p, w), FlaggedAfter(p, w),
                  WstatusAfter(p, w), current, {})
      /\ told' \subseteq Pids
  BY DEF ApplyStatus, Inv1, TypeOK, TableTypeOK
<1>2. TableArgs(JobsAfter(h, p, w), CompletedAfter(p, w), FlaggedAfter(p, w),
                WstatusAfter(p, w), current)
  BY ApplyArgs DEF Inv1
<1> QED
  BY <1>1, <1>2, TableStep

\* get_exit_status is defined on every wait status.
LEMMA ExitCodeTyped ==
    ASSUME NEW w
    PROVE  ExitCode(w) \in Results
BY DEF ExitCode, Deaths, Results

\* A report of waitpid is a wait status.
LEMMA ReportTyped ==
    ASSUME TypeOK, NEW p \in Pids
    PROVE  ReportOf(p) \in Deaths \cup Reports
BY DEF TypeOK, KernelTypeOK, ReportOf, Reports

\* waitpid collecting a report is a steady step of the kernel.
LEMMA CollectSteady ==
    ASSUME Inv1, NEW p \in Pids, Collect(p),
           tty' \in Pids \cup {Shell}, stolen' \in BOOLEAN
    PROVE  KernelSteady
BY CollectTyped DEF Inv1, KernelSteady

\* Continuing a group, or finding it empty, is a steady step of the kernel.
LEMMA ContinueGroupSteady ==
    ASSUME Inv1, NEW g, IF Group(g) = {} THEN UNCHANGED kernel ELSE ContinueGroup(g),
           tty' \in Pids \cup {Shell}, stolen' \in BOOLEAN, strays' = strays
    PROVE  KernelSteady
<1>1. CASE Group(g) = {}
  BY <1>1 DEF Inv1, TypeOK, KernelTypeOK, KernelSteady, kernel
<1>2. CASE Group(g) # {}
  BY <1>2, ContinueGroupTyped DEF Inv1, KernelSteady
<1> QED
  BY <1>1, <1>2

\* A step that leaves the kernel's variables alone is a steady one.
LEMMA KernelKept ==
    ASSUME Inv1, UNCHANGED kernel,
           tty' \in Pids \cup {Shell}, stolen' \in BOOLEAN, strays' \subseteq Pids
    PROVE  KernelSteady
BY DEF Inv1, TypeOK, KernelTypeOK, KernelSteady, kernel

\* Returning to the prompt leaves no job waited for.
LEMMA ReturnTyped ==
    ASSUME NEW r \in Results, Return(r)
    PROVE  ShellTypeOK' /\ WaitTracked'
BY DEF Return, ShellTypeOK, WaitTracked

\* A flag of one job set or cleared leaves a table that SetTable accepts.
LEMMA NotifiedArgs ==
    ASSUME NEW jb, NEW comp, NEW flag, NEW wst, NEW cur,
           TableArgs(jb, comp, flag, wst, cur), NEW h, NEW b \in BOOLEAN
    PROVE  TableArgs([jb EXCEPT ![h].notified = b], comp, flag, wst, cur)
BY DEF TableArgs, Job

\* The table as it stands is a legal argument of SetTable.
LEMMA CurrentArgs ==
    ASSUME TypeOK
    PROVE  TableArgs(jobs, completed, flagged, wstatus, current)
BY DEF TypeOK, TableTypeOK, TableArgs, Jobs

\* The end of a foreground wait keeps Inv1.
LEMMA EndForegroundInv1 ==
    ASSUME Inv1, pc = "wait", KernelSteady,
           NEW jb, NEW comp, NEW flag, NEW wst, NEW r \in Results,
           TableArgs(jb, comp, flag, wst, current),
           EndForeground(waitJob, jb, comp, flag, wst, r)
    PROVE  Inv1'
<1>1. told' \subseteq Pids
  BY DEF EndForeground, Inv1, TypeOK, TableTypeOK
<1>2. ShellTypeOK' /\ WaitTracked'
  BY ReturnTyped DEF EndForeground
<1>3. TableTypeOK' /\ Numbering' /\ MembersListed'
  <2>1. CASE jb[waitJob].status = "stopped"
    <3>1. SetTable([jb EXCEPT ![waitJob].notified = FALSE],
                   comp, flag, wst, current, {})
      BY <2>1 DEF EndForeground
    <3>2. TableArgs([jb EXCEPT ![waitJob].notified = FALSE],
                    comp, flag, wst, current)
      BY NotifiedArgs
    <3> QED
      BY <1>1, <3>1, <3>2, TableStep
  <2>2. CASE jb[waitJob].status # "stopped"
    <3>1. SetTable(jb, comp, flag, wst, current, {waitJob})
      BY <2>2 DEF EndForeground
    <3> QED
      BY <1>1, <3>1, TableStep
  <2> QED
    BY <2>1, <2>2
<1> QED
  BY <1>2, <1>3 DEF KernelSteady, Inv1, TypeOK

\* A report collected by job_wait keeps Inv1.
LEMMA WaitReapedInv1 ==
    ASSUME Inv1, NEW p \in Pids, WaitReaped(p)
    PROVE  Inv1'
<1> DEFINE w == ReportOf(p)
<1>1. w \in Deaths \cup Reports
  BY ReportTyped DEF Inv1
<1>2. pc = "wait" /\ waitJob \in Jobs /\ Collect(p)
  BY DEF WaitReaped, Inv1, WaitTracked
<1> HIDE DEF w
<1>3. CASE StatusAfter(waitJob, p, w) = "running"
  <2>1. ApplyStatus(waitJob, p, w) /\ UNCHANGED <<tty, stolen, shell>>
    BY <1>3 DEF WaitReaped, w
  <2>2. KernelSteady
    <3>1. tty' \in Pids \cup {Shell} /\ stolen' \in BOOLEAN
      BY <2>1 DEF Inv1, TypeOK, KernelTypeOK
    <3> QED
      BY <1>2, <3>1, CollectSteady
  <2>3. TableTypeOK' /\ Numbering' /\ MembersListed' /\ Jobs' = Jobs
    BY <1>1, <1>2, <2>1, <2>2, ApplyStep
  <2>4. ShellTypeOK' /\ WaitTracked'
    BY <1>2, <2>1, <2>3 DEF Inv1, TypeOK, ShellTypeOK, WaitTracked, shell
  <2> QED
    BY <2>2, <2>3, <2>4 DEF KernelSteady, Inv1, TypeOK
<1>4. CASE StatusAfter(waitJob, p, w) # "running"
  <2>1. PICK r : /\ EndForeground(waitJob, JobsAfter(waitJob, p, w),
                       CompletedAfter(p, w), FlaggedAfter(p, w), WstatusAfter(p, w), r)
                 /\ r \in Results
    <3>1. (IF StatusAfter(waitJob, p, w) = "stopped" THEN "stopped"
           ELSE ExitCode(WstatusAfter(p, w)[LastStage(waitJob)])) \in Results
      BY ExitCodeTyped DEF Results
    <3> QED
      BY <1>4, <3>1 DEF WaitReaped, w
  <2>2. GiveTerminal(Shell)
    BY <2>1 DEF EndForeground
  <2>3. tty' \in Pids \cup {Shell} /\ stolen' \in BOOLEAN
    BY <2>2, TerminalTyped DEF Inv1
  <2>4. KernelSteady
    BY <1>2, <2>3, CollectSteady
  <2>5. TableArgs(JobsAfter(waitJob, p, w), CompletedAfter(p, w),
                  FlaggedAfter(p, w), WstatusAfter(p, w), current)
    BY <1>1, <1>2, ApplyArgs DEF Inv1
  <2> QED
    BY <1>2, <2>1, <2>4, <2>5, EndForegroundInv1
<1> QED
  BY <1>3, <1>4

\* job_wait giving up on ECHILD or EINTR keeps Inv1.
LEMMA WaitEndsInv1 ==
    ASSUME Inv1, WaitNoChild \/ WaitInterrupted
    PROVE  Inv1'
<1>1. PICK r : /\ EndForeground(waitJob, jobs, completed, flagged, wstatus, r)
               /\ r \in Results
  BY ExitCodeTyped DEF WaitNoChild, WaitInterrupted, Results
<1>2. pc = "wait" /\ UNCHANGED kernel /\ strays' \subseteq Pids
  BY DEF WaitNoChild, WaitInterrupted, Members, Inv1, TypeOK, KernelTypeOK
<1>3. GiveTerminal(Shell)
  BY <1>1 DEF EndForeground
<1>4. tty' \in Pids \cup {Shell} /\ stolen' \in BOOLEAN
  BY <1>3, TerminalTyped DEF Inv1
<1>5. KernelSteady
  BY <1>2, <1>4, KernelKept
<1>6. TableArgs(jobs, completed, flagged, wstatus, current)
  BY CurrentArgs DEF Inv1
<1> QED
  BY <1>1, <1>2, <1>5, <1>6, EndForegroundInv1

\* launch_simple_job collecting its child keeps Inv1.
LEMMA PlainReapedInv1 ==
    ASSUME Inv1, NEW p \in Pids, PlainReaped(p)
    PROVE  Inv1'
<1>1. /\ Collect(p) /\ Return(death[p]) /\ UNCHANGED <<table, tty, stolen>>
      /\ death[p] \in Results
  BY DEF PlainReaped, Inv1, TypeOK, KernelTypeOK, Deaths, Results
<1>2. KernelSteady
  BY <1>1, CollectSteady DEF Inv1, TypeOK, KernelTypeOK
<1> QED
  BY <1>1, <1>2, TableKept, ReturnTyped DEF KernelSteady, Inv1, TypeOK

\* A fork that fails in spawn_pipeline keeps Inv1.
LEMMA PipelineForkFailsInv1 ==
    ASSUME Inv1, NEW k \in 0..(MaxStages - 1), PipelineForkFails(k)
    PROVE  Inv1'
<1>1. /\ Fork(k, nextPid, Interactive /\ k > 0) /\ Return("none")
      /\ current' = None /\ strays' = strays \cup Born(k)
      /\ UNCHANGED <<tty, jobs, jobOf, completed, flagged, wstatus, told, stolen>>
  BY DEF PipelineForkFails
<1>2. k \in Nat
  BY JobControlAssumption
<1>3. /\ nextPid \in Nat \ {0} /\ nextPid' \in Nat /\ nextPid' = nextPid + k
      /\ \A p \in Pids : p >= nextPid' =>
            p \notin Born(k) /\ pstate'[p] = "unborn" /\ jobOf[p] = None
      /\ \A p \in Pids : pgrp'[p] < nextPid'
  BY <1>1, <1>2, ForkNumbers
<1>4. TableTypeOK' /\ MembersListed' /\ Jobs' = Jobs
  BY <1>1 DEF Inv1, TypeOK, TableTypeOK, MembersListed, Jobs
<1>5. nextPid' <= MaxPid + 1 /\ MaxPid \in Nat
  BY <1>1, <1>3, JobControlAssumption DEF Fork
<1>6. strays' \subseteq Pids
  BY <1>1, <1>2, <1>3, <1>5 DEF Inv1, TypeOK, KernelTypeOK, Born, Pids
<1>7. KernelTypeOK'
  <2>1. tty' \in Pids \cup {Shell} /\ stolen' \in BOOLEAN
    BY <1>1 DEF Inv1, TypeOK, KernelTypeOK
  <2>2. CASE k = 0
    <3>1. Born(k) = {}
      BY <1>3, <2>2 DEF Born
    <3>2. pstate' \in [Pids -> PStates] /\ pgrp' \in [Pids -> Pids \cup {None}]
      BY <1>1, <3>1 DEF Fork, Inv1, TypeOK, KernelTypeOK
    <3>3. UNCHANGED <<claim, death, report>> /\ nextPid' = nextPid
      BY <1>1, <1>3, <2>2 DEF Fork
    <3> QED
      BY <1>6, <2>1, <3>2, <3>3 DEF Inv1, TypeOK, KernelTypeOK
  <2>3. CASE k # 0
    <3>1. nextPid \in Pids /\ k > 0
      BY <1>2, <1>3, <1>5, <2>3 DEF Pids
    <3>2. (Interactive /\ k > 0) \in BOOLEAN
      BY JobControlAssumption
    <3> QED
      BY <1>1, <1>2, <1>6, <2>1, <3>1, <3>2, ForkTyped DEF Inv1
  <2> QED
    BY <2>2, <2>3
<1>8. Numbering'
  <2>1. \A h \in Jobs' : h < nextPid' /\ jobs'[h].id <= h
    <3>1. ASSUME NEW h \in Jobs PROVE h < nextPid'
      BY <1>2, <1>3 DEF Inv1, Numbering, TypeOK, TableTypeOK, Pids
    <3> QED
      BY <1>1, <1>4, <3>1 DEF Inv1, Numbering
  <2>2. \A p \in Pids : p >= nextPid' => pstate'[p] = "unborn" /\ jobOf'[p] = None
    BY <1>1, <1>3
  <2> QED
    BY <1>3, <2>1, <2>2 DEF Numbering
<1>9. ShellTypeOK' /\ WaitTracked'
  BY <1>1, ReturnTyped DEF Results
<1> QED
  BY <1>4, <1>7, <1>8, <1>9 DEF Inv1, TypeOK

\* Entering job_update_statuses keeps Inv1.
LEMMA StartUpdateInv1 ==
    ASSUME Inv1, StartUpdate
    PROVE  Inv1'
<1>1. /\ pc' = "update" /\ result' = "none" /\ waitJob' = waitJob
      /\ UNCHANGED <<kernel, tty, table, strays, stolen>>
  BY DEF StartUpdate
<1>2. KernelSteady
  BY <1>1, KernelKept DEF Inv1, TypeOK, KernelTypeOK
<1>3. ShellTypeOK' /\ WaitTracked'
  BY <1>1 DEF Inv1, TypeOK, ShellTypeOK, WaitTracked, Results
<1> QED
  BY <1>1, <1>2, <1>3, TableKept DEF KernelSteady, Inv1, TypeOK

\* A report collected by job_update_statuses keeps Inv1.
LEMMA UpdateReapedInv1 ==
    ASSUME Inv1, NEW p \in Pids, UpdateReaped(p)
    PROVE  Inv1'
<1>1. pc = "update" /\ Collect(p) /\ UNCHANGED <<tty, shell, stolen>>
  BY DEF UpdateReaped
<1>2. KernelSteady
  BY <1>1, CollectSteady DEF Inv1, TypeOK, KernelTypeOK
<1>3. TableTypeOK' /\ Numbering' /\ MembersListed'
  <2>1. CASE jobOf[p] = None
    BY <1>2, <2>1, TableKept DEF UpdateReaped
  <2>2. CASE jobOf[p] # None
    <3>1. jobOf[p] \in Jobs /\ ReportOf(p) \in Deaths \cup Reports
      BY <2>2, ReportTyped DEF Inv1, MembersListed
    <3> QED
      BY <1>2, <2>2, <3>1, ApplyStep DEF UpdateReaped
  <2> QED
    BY <2>1, <2>2
<1>4. ShellTypeOK' /\ WaitTracked'
  BY <1>1 DEF Inv1, TypeOK, ShellTypeOK, WaitTracked, shell
<1> QED
  BY <1>2, <1>3, <1>4 DEF KernelSteady, Inv1, TypeOK

\* job_notify, with every removal it makes, keeps Inv1.
LEMMA NotifyInv1 ==
    ASSUME Inv1, Notify
    PROVE  Inv1'
<1> DEFINE gone == {h \in Jobs : Finished(h)}
           news == {h \in Jobs : jobs[h].status # "running" /\ ~jobs[h].notified}
           jb == [h \in Jobs |-> [jobs[h] EXCEPT !.notified = @ \/ h \in news]]
<1>1. /\ SetTable(jb, completed, flagged, wstatus, current, gone)
      /\ told' = (told \cup news) \ gone
      /\ Return("none") /\ UNCHANGED <<kernel, tty, strays, stolen>>
  BY DEF Notify
<1>2. \A h \in Jobs : (jobs[h].notified \/ h \in news) \in BOOLEAN
  BY DEF Inv1, TypeOK, TableTypeOK, Job
<1>3. jb \in [Jobs -> Job] /\ \A h \in Jobs : jb[h].id = jobs[h].id
  BY <1>2 DEF Inv1, TypeOK, TableTypeOK, Job
<1>4. told' \subseteq Pids
  BY <1>1 DEF Inv1, TypeOK, TableTypeOK
<1> HIDE DEF jb, gone, news
<1>5. TableArgs(jb, completed, flagged, wstatus, current)
  BY <1>3, CurrentArgs DEF Inv1, TableArgs
<1>6. KernelSteady
  BY <1>1, KernelKept DEF Inv1, TypeOK, KernelTypeOK
<1>7. TableTypeOK' /\ Numbering' /\ MembersListed'
  BY <1>1, <1>4, <1>5, <1>6, TableStep
<1>8. ShellTypeOK' /\ WaitTracked'
  BY <1>1, ReturnTyped DEF Results
<1> QED
  BY <1>6, <1>7, <1>8 DEF KernelSteady, Inv1, TypeOK

\* The jobs builtin keeps Inv1.
LEMMA ListJobsInv1 ==
    ASSUME Inv1, ListJobs
    PROVE  Inv1'
<1>1. /\ jobs' = [h \in Jobs |-> [jobs[h] EXCEPT !.notified = TRUE]]
      /\ told' = Jobs /\ Return("none")
      /\ UNCHANGED <<kernel, tty, jobOf, completed, flagged, wstatus, current,
                     strays, stolen>>
  BY DEF ListJobs
<1>2. KernelSteady
  BY <1>1, KernelKept DEF Inv1, TypeOK, KernelTypeOK
<1>3. Jobs' = Jobs /\ jobs' \in [Jobs -> Job] /\ \A h \in Jobs : jobs'[h].id = jobs[h].id
  BY <1>1 DEF Jobs, Inv1, TypeOK, TableTypeOK, Job
<1>4. TableTypeOK' /\ MembersListed'
  BY <1>1, <1>3 DEF Inv1, TypeOK, TableTypeOK, MembersListed
<1>5. Steady
  BY <1>1, <1>2, <1>3 DEF KernelSteady, Steady
<1>6. Numbering'
  BY <1>5, SteadyNumbering DEF Inv1
<1>7. ShellTypeOK' /\ WaitTracked'
  BY <1>1, ReturnTyped DEF Results
<1> QED
  BY <1>2, <1>4, <1>6, <1>7 DEF KernelSteady, Inv1, TypeOK

\* fg, bg and kill on an unknown job keep Inv1.
LEMMA NoSuchJobInv1 ==
    ASSUME Inv1, NoSuchJob
    PROVE  Inv1'
<1>1. Return("none") /\ UNCHANGED <<kernel, tty, table, strays, stolen>>
  BY DEF NoSuchJob
<1>2. KernelSteady
  BY <1>1, KernelKept DEF Inv1, TypeOK, KernelTypeOK
<1>3. ShellTypeOK' /\ WaitTracked'
  BY <1>1, ReturnTyped DEF Results
<1> QED
  BY <1>1, <1>2, <1>3, TableKept DEF KernelSteady, Inv1, TypeOK

\* fg and bg mark a job of the table running: ids and lists stay.
LEMMA MarkRunningStep ==
    ASSUME Inv1, KernelSteady, NEW h \in Jobs, MarkRunning(h)
    PROVE  TableTypeOK' /\ Numbering' /\ MembersListed' /\ Jobs' = Jobs
<1>1. /\ jobs' = [jobs EXCEPT ![h].status = "running", ![h].notified = FALSE]
      /\ told' \subseteq Pids
      /\ flagged' \subseteq Pids
      /\ current' = h
      /\ UNCHANGED <<jobOf, completed, wstatus>>
  BY DEF MarkRunning, Inv1, TypeOK, TableTypeOK
<1>2. Jobs' = Jobs /\ jobs' \in [Jobs -> Job] /\ \A g \in Jobs : jobs'[g].id = jobs[g].id
  BY <1>1 DEF Jobs, Inv1, TypeOK, TableTypeOK, Job, Statuses
<1>3. TableTypeOK' /\ MembersListed'
  BY <1>1, <1>2 DEF Inv1, TypeOK, TableTypeOK, MembersListed
<1>4. Steady
  BY <1>1, <1>2 DEF KernelSteady, Steady
<1> QED
  BY <1>2, <1>3, <1>4, SteadyNumbering DEF Inv1

\* fg keeps Inv1.
LEMMA ContinueForegroundInv1 ==
    ASSUME Inv1, NEW h \in Jobs, ContinueForeground(h)
    PROVE  Inv1'
<1>1. MarkRunning(h) /\ strays' = strays
  BY DEF ContinueForeground
<1>2. IF Group(h) = {} THEN UNCHANGED kernel ELSE ContinueGroup(h)
  BY DEF ContinueForeground
<1>3. tty' \in Pids \cup {Shell} /\ stolen' \in BOOLEAN
  <2>1. GiveTerminal(Shell) \/ GiveTerminal(h)
    BY DEF ContinueForeground
  <2>2. h \in Pids
    BY DEF Inv1, TypeOK, TableTypeOK
  <2> QED
    BY <2>1, <2>2, TerminalTyped DEF Inv1
<1>4. KernelSteady
  BY <1>1, <1>2, <1>3, ContinueGroupSteady
<1>5. TableTypeOK' /\ Numbering' /\ MembersListed' /\ Jobs' = Jobs
  BY <1>1, <1>4, MarkRunningStep
<1>6. ShellTypeOK' /\ WaitTracked'
  <2>1. Return("none") \/ WaitFor(h)
    BY DEF ContinueForeground
  <2>2. CASE Return("none")
    BY <2>2, ReturnTyped DEF Results
  <2>3. CASE WaitFor(h)
    BY <1>5, <2>3 DEF WaitFor, ShellTypeOK, WaitTracked, Results, TableTypeOK
  <2> QED
    BY <2>1, <2>2, <2>3
<1> QED
  BY <1>4, <1>5, <1>6 DEF KernelSteady, Inv1, TypeOK

\* bg keeps Inv1.
LEMMA ContinueBackgroundInv1 ==
    ASSUME Inv1, NEW h \in Jobs, ContinueBackground(h)
    PROVE  Inv1'
<1>1. /\ MarkRunning(h) /\ Return("none") /\ UNCHANGED <<tty, strays, stolen>>
      /\ IF Group(h) = {} THEN UNCHANGED kernel ELSE ContinueGroup(h)
  BY DEF ContinueBackground
<1>2. tty' \in Pids \cup {Shell} /\ stolen' \in BOOLEAN
  BY <1>1 DEF Inv1, TypeOK, KernelTypeOK
<1>3. KernelSteady
  BY <1>1, <1>2, ContinueGroupSteady
<1>4. TableTypeOK' /\ Numbering' /\ MembersListed'
  BY <1>1, <1>3, MarkRunningStep
<1>5. ShellTypeOK' /\ WaitTracked'
  BY <1>1, ReturnTyped DEF Results
<1> QED
  BY <1>3, <1>4, <1>5 DEF KernelSteady, Inv1, TypeOK

\* kill on a job keeps Inv1.
LEMMA KillJobInv1 ==
    ASSUME Inv1, NEW h \in Jobs, KillJob(h)
    PROVE  Inv1'
<1>1. /\ Return("none") /\ UNCHANGED <<tty, table, strays, stolen>>
      /\ IF Group(h) = {} THEN UNCHANGED kernel ELSE ContinueGroup(h)
  BY DEF KillJob
<1>2. tty' \in Pids \cup {Shell} /\ stolen' \in BOOLEAN
  BY <1>1 DEF Inv1, TypeOK, KernelTypeOK
<1>3. KernelSteady
  BY <1>1, <1>2, ContinueGroupSteady
<1>4. ShellTypeOK' /\ WaitTracked'
  BY <1>1, ReturnTyped DEF Results
<1> QED
  BY <1>1, <1>3, <1>4, TableKept DEF KernelSteady, Inv1, TypeOK

\* job_control_cleanup keeps Inv1.
LEMMA ShellExitsInv1 ==
    ASSUME Inv1, ShellExits
    PROVE  Inv1'
<1>1. /\ pc' = "exited" /\ result' = "none" /\ waitJob' = waitJob
      /\ SetTable(jobs, completed, flagged, wstatus, None, Jobs)
      /\ told' = {}
      /\ UNCHANGED <<kernel, tty, strays, stolen>>
  BY DEF ShellExits
<1>2. KernelSteady
  BY <1>1, KernelKept DEF Inv1, TypeOK, KernelTypeOK
<1>3. TableArgs(jobs, completed, flagged, wstatus, None)
  BY CurrentArgs DEF Inv1, TableArgs
<1>4. told' \subseteq Pids
  BY <1>1
<1>5. TableTypeOK' /\ Numbering' /\ MembersListed'
  BY <1>1, <1>2, <1>3, <1>4, TableStep
<1>6. ShellTypeOK' /\ WaitTracked'
  BY <1>1 DEF Inv1, TypeOK, ShellTypeOK, WaitTracked, Results
<1> QED
  BY <1>2, <1>5, <1>6 DEF KernelSteady, Inv1, TypeOK

-------------------------------------------------------------------------------

\* Inv1 holds when job_control_init returns.
LEMMA InitInv1 ==
    ASSUME Init
    PROVE  Inv1
<1>1. KernelTypeOK
  <2>1. nextPid \in 1..(MaxPid + 1)
    BY JobControlAssumption DEF Init
  <2>2. /\ pstate \in [Pids -> PStates]
        /\ death \in [Pids -> Deaths \cup {"none"}]
        /\ report \in [Pids -> Reports]
        /\ pgrp \in [Pids -> Pids \cup {None}]
    BY DEF Init, PStates, Reports
  <2> QED
    BY <2>1, <2>2 DEF Init, KernelTypeOK
<1>2. Jobs = {} /\ jobs \in [Jobs -> Job]
  BY DEF Init, Jobs
<1>3. TableTypeOK
  BY <1>2 DEF Init, TableTypeOK, Reports
<1>4. ShellTypeOK /\ WaitTracked /\ MembersListed
  BY DEF Init, ShellTypeOK, WaitTracked, MembersListed, Results
<1>5. Numbering
  BY <1>2, JobControlAssumption DEF Init, Numbering, None
<1> QED
  BY <1>1, <1>3, <1>4, <1>5 DEF Inv1, TypeOK

\* Inv1 speaks of the present state only.
LEMMA StutterInv1 ==
    ASSUME Inv1, UNCHANGED vars
    PROVE  Inv1'
<1>1. KernelSteady
  BY KernelKept DEF Inv1, TypeOK, KernelTypeOK, vars, kernel
<1>2. ShellTypeOK' /\ UNCHANGED table
  BY DEF Inv1, TypeOK, ShellTypeOK, vars, shell
<1>3. TableTypeOK' /\ Numbering' /\ MembersListed' /\ Jobs' = Jobs
  BY <1>1, <1>2, TableKept
<1>4. WaitTracked'
  BY <1>3 DEF Inv1, WaitTracked, vars, shell, table
<1> QED
  BY <1>1, <1>2, <1>3, <1>4 DEF KernelSteady, Inv1, TypeOK

\* Every step keeps Inv1: one case for each action of Next.
LEMMA StepInv1 ==
    ASSUME Inv1, [Next]_vars
    PROVE  Inv1'
<1>1. CASE Children
  BY <1>1, ChildrenInv1
<1>2. CASE Command
  BY <1>2, LaunchForegroundInv1, LaunchPlainInv1, LaunchBackgroundInv1,
     StartUpdateInv1, ShellExitsInv1, PipelineForkFailsInv1 DEF Command
<1>3. CASE Waiting \/ WaitInterrupted
  BY <1>3, WaitEndsInv1, PlainReapedInv1, WaitReapedInv1 DEF Waiting
<1>4. CASE Update
  BY <1>4, NotifyInv1, ListJobsInv1, NoSuchJobInv1, UpdateReapedInv1,
     ContinueForegroundInv1, ContinueBackgroundInv1, KillJobInv1 DEF Update
<1>5. CASE Exited \/ UNCHANGED vars
  BY <1>5, StutterInv1 DEF Exited
<1> QED
  BY <1>1, <1>2, <1>3, <1>4, <1>5 DEF Next

\* The strengthened invariant holds in every reachable state.
THEOREM Inv1Holds == Spec => []Inv1
  BY InitInv1, StepInv1, PTL DEF Spec

\* Every field of the job table and of the kernel's process table stays in its
\* range, whatever the children do and however the commands are ordered.
THEOREM TypeCorrect == Spec => []TypeOK
<1>1. Inv1 => TypeOK
  BY DEF Inv1
<1> QED
  BY <1>1, Inv1Holds, PTL

-------------------------------------------------------------------------------
(* The safety invariants, from the type invariant.                         *)

\* A job's leader heads its own process group as long as it can be waited for.
LeaderLeads == \A h \in Jobs : IsChild(h) => pgrp[h] = h

Inv2 ==
    /\ Inv1
    /\ CurrentIsTracked
    /\ IdsFollowList
    /\ NotifiedWasShown
    /\ TerminalFollowsWait
    /\ LeaderLeads
    /\ GroupIsJob

-------------------------------------------------------------------------------
(* What the steps that fork nothing have in common.                        *)

\* The table loses jobs, and keeps ids, lists and what the user was told.
TableMove ==
    /\ Jobs' \subseteq Jobs
    /\ \A h \in Jobs' : jobs'[h].id = jobs[h].id
    /\ \A h \in Jobs' : jobs'[h].notified => h \in told'
    /\ \A p \in Pids : jobOf'[p] = IF jobOf[p] \in Jobs' THEN jobOf[p] ELSE None
    /\ current' \in Jobs' \cup {None}

\* No child is born, and none enters the group of another.
KernelMove ==
    /\ \A p \in Pids : IsChild(p)' => IsChild(p)
    /\ \A p \in Pids : IsChild(p)' =>
          \/ pgrp'[p] = pgrp[p]
          \/ pgrp'[p] = p /\ pgrp[p] # p

\* A step that leaves the table alone is a table move.
LEMMA TableUnmoved ==
    ASSUME Inv2, UNCHANGED table
    PROVE  TableMove
<1>1. Jobs' = Jobs /\ UNCHANGED <<jobs, jobOf, current, told>>
  BY DEF table, Jobs
<1>2. \A p \in Pids : jobOf[p] \in Jobs \cup {None}
  BY DEF Inv2, Inv1, MembersListed
<1> QED
  BY <1>1, <1>2 DEF TableMove, Inv2, NotifiedWasShown, CurrentIsTracked

\* Any use of SetTable that resets notified where it hides something.
LEMMA SetTableMove ==
    ASSUME Inv2, NEW jb, NEW comp, NEW flag, NEW wst, NEW cur, NEW gone,
           TableArgs(jb, comp, flag, wst, cur), cur \in Jobs \cup {None},
           SetTable(jb, comp, flag, wst, cur, gone), gone \subseteq Jobs,
           \A h \in Jobs \ gone : jb[h].notified => h \in told'
    PROVE  TableMove
<1>1. Jobs' = Jobs \ gone /\ \A h \in Jobs' : jobs'[h] = jb[h]
  BY DEF SetTable, Jobs, TableArgs
<1>2. \A p \in Pids : jobOf'[p] = IF jobOf[p] \in gone THEN None ELSE jobOf[p]
  BY DEF SetTable
<1>3. \A p \in Pids : jobOf[p] \in Jobs \cup {None}
  BY DEF Inv2, Inv1, MembersListed
<1>4. None \notin Jobs
  BY DEF Inv2, Inv1, TypeOK, TableTypeOK, None, Pids
<1>5. current' \in Jobs' \cup {None}
  BY <1>1 DEF SetTable
<1> QED
  BY <1>1, <1>2, <1>3, <1>4, <1>5 DEF TableMove, TableArgs

\* apply_wait_result is a table move.
LEMMA ApplyMove ==
    ASSUME Inv2, NEW h \in Jobs, NEW p \in Pids, NEW w \in Deaths \cup Reports,
           ApplyStatus(h, p, w)
    PROVE  TableMove
<1>1. TableArgs(JobsAfter(h, p, w), CompletedAfter(p, w), FlaggedAfter(p, w),
                WstatusAfter(p, w), current)
  BY ApplyArgs DEF Inv2, Inv1
<1>2. \A g \in Jobs : JobsAfter(h, p, w)[g].notified => g \in told'
  BY DEF ApplyStatus, JobsAfter, Inv2, Inv1, TypeOK, TableTypeOK, Job,
         NotifiedWasShown
<1>3. SetTable(JobsAfter(h, p, w), CompletedAfter(p, w), FlaggedAfter(p, w),
               WstatusAfter(p, w), current, {})
  BY DEF ApplyStatus
<1> QED
  BY <1>1, <1>2, <1>3, SetTableMove DEF Inv2, CurrentIsTracked

\* The end of a foreground wait is a table move.
LEMMA EndForegroundMove ==
    ASSUME Inv2, waitJob \in Jobs,
           NEW jb, NEW comp, NEW flag, NEW wst, NEW r,
           TableArgs(jb, comp, flag, wst, current),
           \A h \in Jobs \ {waitJob} : jb[h].notified => h \in told,
           EndForeground(waitJob, jb, comp, flag, wst, r)
    PROVE  TableMove
<1>1. told \ {waitJob} \subseteq told'
  BY DEF EndForeground
<1>2. current \in Jobs \cup {None}
  BY DEF Inv2, CurrentIsTracked
<1>3. CASE jb[waitJob].status = "stopped"
  <2> DEFINE kept == [jb EXCEPT ![waitJob].notified = FALSE]
  <2>1. SetTable(kept, comp, flag, wst, current, {})
    BY <1>3 DEF EndForeground
  <2>2. TableArgs(kept, comp, flag, wst, current)
    BY NotifiedArgs
  <2>3. \A h \in Jobs : kept[h].notified => h \in told'
    BY <1>1 DEF TableArgs, Job
  <2> HIDE DEF kept
  <2> QED
    BY <1>2, <2>1, <2>2, <2>3, SetTableMove
<1>4. CASE jb[waitJob].status # "stopped"
  <2>1. SetTable(jb, comp, flag, wst, current, {waitJob})
    BY <1>4 DEF EndForeground
  <2>2. \A h \in Jobs \ {waitJob} : jb[h].notified => h \in told'
    BY <1>1
  <2> QED
    BY <1>2, <2>1, <2>2, SetTableMove
<1> QED
  BY <1>3, <1>4

\* mark_running is a table move: it makes its job the current one.
LEMMA MarkRunningMove ==
    ASSUME Inv2, NEW h \in Jobs, MarkRunning(h)
    PROVE  TableMove
<1>1. /\ jobs' = [jobs EXCEPT ![h].status = "running", ![h].notified = FALSE]
      /\ told \ {h} \subseteq told' /\ current' = h /\ jobOf' = jobOf
  BY DEF MarkRunning
<1>2. jobs \in [Jobs -> Job] /\ Jobs' = Jobs
  BY <1>1 DEF Jobs, Inv2, Inv1, TypeOK, TableTypeOK
<1>3. \A g \in Jobs : jobs'[g].id = jobs[g].id
  BY <1>1, <1>2 DEF Job
<1>4. \A g \in Jobs : jobs'[g].notified => g \in told'
  BY <1>1, <1>2 DEF Job, Inv2, NotifiedWasShown
<1>5. \A p \in Pids : jobOf[p] \in Jobs \cup {None}
  BY DEF Inv2, Inv1, MembersListed
<1> QED
  BY <1>1, <1>2, <1>3, <1>4, <1>5 DEF TableMove

-------------------------------------------------------------------------------

\* Children that stay as they are make a kernel move.
LEMMA KernelUnmoved ==
    ASSUME UNCHANGED <<pstate, pgrp>>
    PROVE  KernelMove
BY DEF KernelMove, IsChild

\* waitpid collecting a report is a kernel move.
LEMMA CollectMove ==
    ASSUME TypeOK, NEW p \in Pids, Collect(p)
    PROVE  KernelMove
<1>1. pstate \in [Pids -> PStates] /\ pgrp \in [Pids -> Pids \cup {None}]
  BY DEF TypeOK, KernelTypeOK
<1>2. CASE pstate[p] = "zombie"
  <2>1. pstate' = [pstate EXCEPT ![p] = "reaped"] /\ pgrp' = [pgrp EXCEPT ![p] = None]
    BY <1>2 DEF Collect
  <2> QED
    BY <1>1, <2>1 DEF KernelMove, IsChild
<1>3. CASE pstate[p] # "zombie"
  BY <1>3, KernelUnmoved DEF Collect
<1> QED
  BY <1>2, <1>3

\* Continuing a group is a kernel move.
LEMMA ContinueGroupMove ==
    ASSUME TypeOK, NEW g,
           IF Group(g) = {} THEN UNCHANGED kernel ELSE ContinueGroup(g)
    PROVE  KernelMove
<1>1. CASE Group(g) = {}
  BY <1>1, KernelUnmoved DEF kernel
<1>2. CASE Group(g) # {}
  <2>1. pgrp' = pgrp /\ \A p \in Pids : pstate'[p] # pstate[p] => pstate[p] = "stopped"
    BY <1>2 DEF ContinueGroup
  <2> QED
    BY <2>1 DEF KernelMove, IsChild
<1> QED
  BY <1>1, <1>2

\* Whatever a child does by itself is a kernel move.
LEMMA ChildrenMove ==
    ASSUME TypeOK, Children
    PROVE  KernelMove
<1>1. PICK p \in Pids :
         \/ ChildClaims(p) \/ ChildStops(p) \/ ChildContinues(p)
         \/ ChildLeavesGroup(p)
         \/ \E d \in Deaths : ChildDies(p, d)
  BY DEF Children
<1>2. pstate \in [Pids -> PStates] /\ pgrp \in [Pids -> Pids \cup {None}]
  BY DEF TypeOK, KernelTypeOK
<1>3. CASE ChildClaims(p)
  BY <1>3, KernelUnmoved DEF ChildClaims
<1>4. CASE ChildStops(p)
  BY <1>2, <1>4 DEF ChildStops, KernelMove, IsChild
<1>5. CASE ChildContinues(p)
  BY <1>2, <1>5 DEF ChildContinues, KernelMove, IsChild
<1>6. CASE ChildLeavesGroup(p)
  BY <1>2, <1>6 DEF ChildLeavesGroup, KernelMove, IsChild
<1>7. CASE \E d \in Deaths : ChildDies(p, d)
  BY <1>2, <1>7 DEF ChildDies, KernelMove, IsChild, Alive
<1> QED
  BY <1>1, <1>3, <1>4, <1>5, <1>6, <1>7

-------------------------------------------------------------------------------
(* Each action that forks nothing.                                         *)

Moves == TableMove /\ KernelMove /\ TerminalFollowsWait'

\* Handing the terminal to the job that is then waited for, or back to the
\* shell, keeps TerminalFollowsWait.
LEMMA GivenTerminal ==
    ASSUME Inv2, NEW g, GiveTerminal(g),
           g = IF pc' = "wait" THEN waitJob' ELSE Shell
    PROVE  TerminalFollowsWait'
BY DEF GiveTerminal, TerminalFollowsWait

\* So does leaving the terminal and the wait alone.
LEMMA KeptTerminal ==
    ASSUME Inv2, UNCHANGED <<tty, stolen>>,
           \/ pc' # "wait" /\ pc # "wait"
           \/ UNCHANGED <<pc, waitJob>>
    PROVE  TerminalFollowsWait'
BY DEF Inv2, TerminalFollowsWait

\* A step of a child moves neither the table nor the shell's terminal.
LEMMA ChildrenMoves ==
    ASSUME Inv2, Children
    PROVE  Moves
<1>1. UNCHANGED table /\ UNCHANGED <<pc, waitJob>>
  BY DEF Children, ChildClaims, ChildDies, ChildStops, ChildContinues,
         ChildLeavesGroup, Outsider, shell
<1>2. TerminalFollowsWait'
  <2>1. CASE UNCHANGED <<tty, stolen>>
    BY <1>1, <2>1, KeptTerminal
  <2>2. CASE \E p \in Pids : ChildClaims(p)
    BY <1>1, <2>2 DEF ChildClaims, Inv2, TerminalFollowsWait
  <2> QED
    BY <2>1, <2>2 DEF Children, ChildDies, ChildStops, ChildContinues,
                      ChildLeavesGroup
<1> QED
  BY <1>1, <1>2, TableUnmoved, ChildrenMove DEF Moves, Inv2, Inv1

\* A report collected by job_wait makes the three moves.
LEMMA WaitReapedMoves ==
    ASSUME Inv2, NEW p \in Pids, WaitReaped(p)
    PROVE  Moves
<1> DEFINE w == ReportOf(p)
<1>1. w \in Deaths \cup Reports
  BY ReportTyped DEF Inv2, Inv1
<1>2. pc = "wait" /\ waitJob \in Jobs /\ Collect(p)
  BY DEF WaitReaped, Inv2, Inv1, WaitTracked
<1>3. KernelMove
  BY <1>2, CollectMove DEF Inv2, Inv1
<1> HIDE DEF w
<1>4. CASE StatusAfter(waitJob, p, w) = "running"
  <2>1. ApplyStatus(waitJob, p, w) /\ UNCHANGED <<tty, stolen, pc, waitJob>>
    BY <1>4 DEF WaitReaped, w, shell
  <2>2. TableMove
    BY <1>1, <1>2, <2>1, ApplyMove
  <2>3. TerminalFollowsWait'
    BY <2>1, KeptTerminal
  <2> QED
    BY <1>3, <2>2, <2>3 DEF Moves
<1>5. CASE StatusAfter(waitJob, p, w) # "running"
  <2>1. PICK r : EndForeground(waitJob, JobsAfter(waitJob, p, w),
                    CompletedAfter(p, w), FlaggedAfter(p, w), WstatusAfter(p, w), r)
    BY <1>5 DEF WaitReaped, w
  <2>2. TableArgs(JobsAfter(waitJob, p, w), CompletedAfter(p, w),
                  FlaggedAfter(p, w), WstatusAfter(p, w), current)
    BY <1>1, <1>2, ApplyArgs DEF Inv2, Inv1
  <2>3. \A h \in Jobs \ {waitJob} : JobsAfter(waitJob, p, w)[h].notified => h \in told
    BY DEF JobsAfter, Inv2, NotifiedWasShown, Inv1, TypeOK, TableTypeOK
  <2>4. TableMove
    BY <1>2, <2>1, <2>2, <2>3, EndForegroundMove
  <2>5. GiveTerminal(Shell) /\ pc' = "idle"
    BY <2>1 DEF EndForeground, Return
  <2>6. TerminalFollowsWait'
    BY <2>5, GivenTerminal
  <2> QED
    BY <1>3, <2>4, <2>6 DEF Moves
<1> QED
  BY <1>4, <1>5

\* job_wait giving up makes the three moves.
LEMMA WaitEndsMoves ==
    ASSUME Inv2, WaitNoChild \/ WaitInterrupted
    PROVE  Moves
<1>1. PICK r : EndForeground(waitJob, jobs, completed, flagged, wstatus, r)
  BY DEF WaitNoChild, WaitInterrupted
<1>2. waitJob \in Jobs /\ UNCHANGED <<pstate, pgrp>>
  BY DEF WaitNoChild, WaitInterrupted, Inv2, Inv1, WaitTracked, kernel
<1>3. TableArgs(jobs, completed, flagged, wstatus, current)
  BY CurrentArgs DEF Inv2, Inv1
<1>4. TableMove
  BY <1>1, <1>2, <1>3, EndForegroundMove DEF Inv2, NotifiedWasShown
<1>5. GiveTerminal(Shell) /\ pc' = "idle"
  BY <1>1 DEF EndForeground, Return
<1>6. TerminalFollowsWait'
  BY <1>5, GivenTerminal
<1> QED
  BY <1>2, <1>4, <1>6, KernelUnmoved DEF Moves

\* launch_simple_job collecting its child makes the three moves.
LEMMA PlainReapedMoves ==
    ASSUME Inv2, NEW p \in Pids, PlainReaped(p)
    PROVE  Moves
<1>1. /\ Collect(p) /\ UNCHANGED table /\ UNCHANGED <<tty, stolen>>
      /\ pc # "wait" /\ pc' # "wait"
  BY DEF PlainReaped, Return
<1> QED
  BY <1>1, TableUnmoved, CollectMove, KeptTerminal DEF Moves, Inv2, Inv1

\* A report collected by job_update_statuses makes the three moves.
LEMMA UpdateReapedMoves ==
    ASSUME Inv2, NEW p \in Pids, UpdateReaped(p)
    PROVE  Moves
<1>1. Collect(p) /\ UNCHANGED <<tty, stolen>> /\ UNCHANGED <<pc, waitJob>>
  BY DEF UpdateReaped, shell
<1>2. TableMove
  <2>1. CASE jobOf[p] = None
    BY <2>1, TableUnmoved DEF UpdateReaped
  <2>2. CASE jobOf[p] # None
    <3>1. jobOf[p] \in Jobs /\ ReportOf(p) \in Deaths \cup Reports
      BY <2>2, ReportTyped DEF Inv2, Inv1, MembersListed
    <3> QED
      BY <2>2, <3>1, ApplyMove DEF UpdateReaped
  <2> QED
    BY <2>1, <2>2
<1> QED
  BY <1>1, <1>2, CollectMove, KeptTerminal DEF Moves, Inv2, Inv1

\* job_notify makes the three moves: it marks notified only what it printed.
LEMMA NotifyMoves ==
    ASSUME Inv2, Notify
    PROVE  Moves
<1> DEFINE gone == {h \in Jobs : Finished(h)}
           news == {h \in Jobs : jobs[h].status # "running" /\ ~jobs[h].notified}
           jb == [h \in Jobs |-> [jobs[h] EXCEPT !.notified = @ \/ h \in news]]
<1>1. /\ SetTable(jb, completed, flagged, wstatus, current, gone)
      /\ told' = (told \cup news) \ gone
      /\ UNCHANGED <<pstate, pgrp>> /\ UNCHANGED <<tty, stolen>>
      /\ pc # "wait" /\ pc' # "wait"
  BY DEF Notify, Updated, Return, kernel
<1>2. \A h \in Jobs : (jobs[h].notified \/ h \in news) \in BOOLEAN
  BY DEF Inv2, Inv1, TypeOK, TableTypeOK, Job
<1>3. /\ jb \in [Jobs -> Job]
      /\ \A h \in Jobs : jb[h].id = jobs[h].id
      /\ \A h \in Jobs : jb[h].notified = (jobs[h].notified \/ h \in news)
  BY <1>2 DEF Inv2, Inv1, TypeOK, TableTypeOK, Job
<1>4. gone \subseteq Jobs
  OBVIOUS
<1> HIDE DEF jb, gone, news
<1>5. TableArgs(jb, completed, flagged, wstatus, current)
  BY <1>3, CurrentArgs DEF Inv2, Inv1, TableArgs
<1>6. \A h \in Jobs \ gone : jb[h].notified => h \in told'
  BY <1>1, <1>3 DEF Inv2, NotifiedWasShown
<1>7. TableMove
  BY <1>1, <1>4, <1>5, <1>6, SetTableMove DEF Inv2, CurrentIsTracked
<1> QED
  BY <1>1, <1>7, KernelUnmoved, KeptTerminal DEF Moves

\* The jobs builtin makes the three moves: it prints every job it marks.
LEMMA ListJobsMoves ==
    ASSUME Inv2, ListJobs
    PROVE  Moves
<1>1. /\ jobs' = [h \in Jobs |-> [jobs[h] EXCEPT !.notified = TRUE]]
      /\ told' = Jobs /\ UNCHANGED <<jobOf, current>>
      /\ UNCHANGED <<pstate, pgrp>> /\ UNCHANGED <<tty, stolen>>
      /\ pc # "wait" /\ pc' # "wait"
  BY DEF ListJobs, Updated, Return, kernel
<1>2. Jobs' = Jobs /\ \A h \in Jobs : jobs'[h].id = jobs[h].id
  BY <1>1 DEF Jobs, Inv2, Inv1, TypeOK, TableTypeOK, Job
<1>3. \A p \in Pids : jobOf[p] \in Jobs \cup {None}
  BY DEF Inv2, Inv1, MembersListed
<1>4. TableMove
  BY <1>1, <1>2, <1>3 DEF TableMove, Inv2, CurrentIsTracked
<1> QED
  BY <1>1, <1>4, KernelUnmoved, KeptTerminal DEF Moves

\* fg makes the three moves.
LEMMA ContinueForegroundMoves ==
    ASSUME Inv2, NEW h \in Jobs, ContinueForeground(h)
    PROVE  Moves
<1>1. MarkRunning(h) /\ IF Group(h) = {} THEN UNCHANGED kernel ELSE ContinueGroup(h)
  BY DEF ContinueForeground
<1>2. TerminalFollowsWait'
  <2>1. CASE Group(h) = {}
    <3>1. GiveTerminal(Shell) /\ pc' = "idle"
      BY <2>1 DEF ContinueForeground, Return
    <3> QED
      BY <3>1, GivenTerminal
  <2>2. CASE Group(h) # {}
    <3>1. GiveTerminal(h) /\ pc' = "wait" /\ waitJob' = h
      BY <2>2 DEF ContinueForeground, WaitFor
    <3> QED
      BY <3>1, GivenTerminal
  <2> QED
    BY <2>1, <2>2
<1> QED
  BY <1>1, <1>2, MarkRunningMove, ContinueGroupMove DEF Moves, Inv2, Inv1

\* bg, kill and the builtins' error paths make the three moves.
LEMMA OtherBuiltinsMove ==
    ASSUME Inv2, NoSuchJob \/ \E h \in Jobs : ContinueBackground(h) \/ KillJob(h)
    PROVE  Moves
<1>1. UNCHANGED <<tty, stolen>> /\ pc # "wait" /\ pc' # "wait"
  BY DEF NoSuchJob, ContinueBackground, KillJob, Updated, Return
<1>2. TerminalFollowsWait'
  BY <1>1, KeptTerminal
<1>3. CASE NoSuchJob
  <2>1. UNCHANGED table /\ UNCHANGED <<pstate, pgrp>>
    BY <1>3 DEF NoSuchJob, kernel
  <2> QED
    BY <1>2, <2>1, TableUnmoved, KernelUnmoved DEF Moves
<1>4. ASSUME NEW h \in Jobs, ContinueBackground(h) PROVE Moves
  <2>1. MarkRunning(h) /\ IF Group(h) = {} THEN UNCHANGED kernel ELSE ContinueGroup(h)
    BY <1>4 DEF ContinueBackground
  <2> QED
    BY <1>2, <2>1, MarkRunningMove, ContinueGroupMove DEF Moves, Inv2, Inv1
<1>5. ASSUME NEW h \in Jobs, KillJob(h) PROVE Moves
  <2>1. UNCHANGED table /\ IF Group(h) = {} THEN UNCHANGED kernel ELSE ContinueGroup(h)
    BY <1>5 DEF KillJob
  <2> QED
    BY <1>2, <2>1, TableUnmoved, ContinueGroupMove DEF Moves, Inv2, Inv1
<1> QED
  BY <1>3, <1>4, <1>5

\* Entering the prompt and leaving the shell make the three moves.
LEMMA PromptMoves ==
    ASSUME Inv2, StartUpdate \/ ShellExits
    PROVE  Moves
<1>1. /\ UNCHANGED <<pstate, pgrp>> /\ UNCHANGED <<tty, stolen>>
      /\ pc # "wait" /\ pc' # "wait"
  BY DEF StartUpdate, ShellExits, kernel
<1>2. CASE StartUpdate
  BY <1>1, <1>2, TableUnmoved, KernelUnmoved, KeptTerminal DEF Moves, StartUpdate
<1>3. CASE ShellExits
  <2>1. SetTable(jobs, completed, flagged, wstatus, None, Jobs)
    BY <1>3 DEF ShellExits
  <2>2. TableArgs(jobs, completed, flagged, wstatus, None)
    BY CurrentArgs DEF Inv2, Inv1, TableArgs
  <2>3. TableMove
    BY <2>1, <2>2, SetTableMove
  <2> QED
    BY <1>1, <2>3, KernelUnmoved, KeptTerminal DEF Moves
<1> QED
  BY <1>2, <1>3

\* Doing nothing makes the three moves.
LEMMA StutterMoves ==
    ASSUME Inv2, UNCHANGED vars
    PROVE  Moves
<1>1. /\ UNCHANGED table /\ UNCHANGED <<pstate, pgrp>>
      /\ UNCHANGED <<tty, stolen>> /\ UNCHANGED <<pc, waitJob>>
  BY DEF vars, kernel, shell
<1> QED
  BY <1>1, TableUnmoved, KernelUnmoved, KeptTerminal DEF Moves

\* The invariants that a step without a fork preserves.
LEMMA MovesInv2 ==
    ASSUME Inv2, Inv1', Moves
    PROVE  Inv2'
<1>1. CurrentIsTracked' /\ NotifiedWasShown' /\ TerminalFollowsWait'
  BY DEF Moves, TableMove, CurrentIsTracked, NotifiedWasShown
<1>2. IdsFollowList'
  BY DEF Moves, TableMove, Inv2, IdsFollowList
<1>3. LeaderLeads'
  <2>1. \A h \in Jobs' : h \in Jobs /\ h \in Pids
    BY DEF Moves, TableMove, Inv2, Inv1, TypeOK, TableTypeOK
  <2> QED
    BY <2>1 DEF Moves, KernelMove, Inv2, LeaderLeads
<1>4. GroupIsJob'
  <2> SUFFICES ASSUME NEW p \in Pids, IsChild(p)', pgrp'[p] \in Jobs'
               PROVE  jobOf'[p] = pgrp'[p]
    BY DEF GroupIsJob
  <2>1. IsChild(p) /\ pgrp'[p] \in Jobs
    BY DEF Moves, KernelMove, TableMove
  <2>2. pgrp'[p] = pgrp[p]
    BY <2>1 DEF Moves, KernelMove, Inv2, LeaderLeads
  <2>3. jobOf[p] = pgrp[p]
    BY <2>1, <2>2 DEF Inv2, GroupIsJob
  <2> QED
    BY <2>2, <2>3 DEF Moves, TableMove
<1> QED
  BY <1>1, <1>2, <1>3, <1>4 DEF Inv2

-------------------------------------------------------------------------------
(* The actions that fork.                                                  *)

\* A fork leaves the children there were alone, and their groups are older than
\* the new one.
LEMMA ForkMoves ==
    ASSUME Inv2, NEW n \in Nat, NEW group, NEW claims, Fork(n, group, claims)
    PROVE  /\ \A p \in Pids : p \notin Born(n) =>
                 pgrp'[p] = pgrp[p] /\ pstate'[p] = pstate[p]
           /\ \A p \in Pids : p \in Born(n) => pgrp'[p] = group /\ p >= nextPid
           /\ \A p \in Pids : pgrp[p] # nextPid
           /\ \A h \in Jobs : h \notin Born(n) /\ h # nextPid /\ h < nextPid
           /\ \A h \in Jobs : h \in Pids
<1>1. nextPid \in Nat /\ Pids \subseteq Nat
  BY JobControlAssumption DEF Inv2, Inv1, TypeOK, KernelTypeOK, Pids
<1>2. \A h \in Jobs : h \in Pids /\ h < nextPid
  BY DEF Inv2, Inv1, TypeOK, TableTypeOK, Numbering
<1>3. \A p \in Pids : p \in Born(n) => p >= nextPid
  BY <1>1 DEF Born
<1>4. ASSUME NEW h \in Jobs PROVE h \notin Born(n) /\ h # nextPid
  <2>1. h \in Nat /\ h < nextPid /\ h \in Pids
    BY <1>1, <1>2
  <2> QED
    BY <1>1, <1>3, <2>1
<1>5. \A p \in Pids : pgrp[p] # nextPid
  BY <1>1 DEF Inv2, Inv1, Numbering
<1>6. /\ \A p \in Pids : p \notin Born(n) =>
            pgrp'[p] = pgrp[p] /\ pstate'[p] = pstate[p]
      /\ \A p \in Pids : p \in Born(n) => pgrp'[p] = group
  BY DEF Fork
<1> QED
  BY <1>2, <1>3, <1>4, <1>5, <1>6

\* job_create and job_add_process on freshly forked children keep Inv2: the new
\* job has the greatest id and the greatest leader.
LEMMA NewJobInv2 ==
    ASSUME Inv2, Inv1', NEW n \in Nat \ {0}, NEW claims, nextPid \in Pids,
           Fork(n, nextPid, claims), AddJob(n), TerminalFollowsWait'
    PROVE  Inv2'
<1>1. /\ Jobs' = Jobs \cup {nextPid} /\ nextPid \notin Jobs
      /\ jobs'[nextPid].id = NextJobId
      /\ \A h \in Jobs : jobs'[h] = jobs[h]
      /\ \A p \in Pids : p \notin Born(n) => jobOf'[p] = jobOf[p]
      /\ current' = nextPid
  BY AddJobTyped DEF Inv2
<1>2. /\ \A p \in Pids : p \notin Born(n) =>
            pgrp'[p] = pgrp[p] /\ pstate'[p] = pstate[p]
      /\ \A p \in Pids : p \in Born(n) => pgrp'[p] = nextPid /\ p >= nextPid
      /\ \A p \in Pids : pgrp[p] # nextPid
      /\ \A h \in Jobs : h \notin Born(n) /\ h # nextPid /\ h < nextPid
      /\ \A h \in Jobs : h \in Pids
  BY ForkMoves
<1>3. nextPid \in Born(n) /\ nextPid \in Nat
  BY JobControlAssumption DEF Born, Inv2, Inv1, TypeOK, KernelTypeOK
<1>4. CurrentIsTracked'
  BY <1>1 DEF CurrentIsTracked
<1>5. NotifiedWasShown'
  <2>1. jobs'[nextPid].notified = FALSE /\ told' = told
    BY DEF AddJob
  <2> QED
    BY <1>1, <2>1 DEF Inv2, NotifiedWasShown
<1>6. IdsFollowList'
  <2> SUFFICES ASSUME NEW g \in Jobs', NEW h \in Jobs', g < h
               PROVE  jobs'[g].id < jobs'[h].id
    BY DEF IdsFollowList
  <2>1. CASE h = nextPid
    <3>1. g \in Jobs
      BY <1>1, <1>3, <2>1
    <3>2. jobs[g].id < NextJobId
      BY <3>1, NextJobIdFresh DEF Inv2
    <3> QED
      BY <1>1, <2>1, <3>1, <3>2
  <2>2. CASE h # nextPid
    <3>1. h \in Jobs /\ h < nextPid /\ h \in Nat
      BY <1>1, <1>2, <2>2, JobControlAssumption DEF Pids
    <3>2. g # nextPid
      BY <1>3, <3>1
    <3> QED
      BY <1>1, <3>1, <3>2 DEF Inv2, IdsFollowList
  <2> QED
    BY <2>1, <2>2
<1>7. LeaderLeads'
  BY <1>1, <1>2, <1>3 DEF Inv2, LeaderLeads, IsChild
<1>8. GroupIsJob'
  <2> SUFFICES ASSUME NEW p \in Pids, IsChild(p)', pgrp'[p] \in Jobs'
               PROVE  jobOf'[p] = pgrp'[p]
    BY DEF GroupIsJob
  <2>1. CASE p \in Born(n)
    BY <1>2, <2>1 DEF AddJob
  <2>2. CASE p \notin Born(n)
    <3>1. pgrp'[p] = pgrp[p] /\ IsChild(p) /\ pgrp[p] \in Jobs
      BY <1>1, <1>2, <2>2 DEF IsChild
    <3> QED
      BY <1>1, <2>2, <3>1 DEF Inv2, GroupIsJob
  <2> QED
    BY <2>1, <2>2
<1> QED
  BY <1>4, <1>5, <1>6, <1>7, <1>8 DEF Inv2

\* A fork that adds no job: a plain command, or a pipeline that is given up.
LEMMA NoJobInv2 ==
    ASSUME Inv2, Inv1', NEW n \in Nat, NEW group, NEW claims,
           group = None \/ group = nextPid, Fork(n, group, claims),
           UNCHANGED <<jobs, jobOf, told>>, current' \in {current, None},
           TerminalFollowsWait'
    PROVE  Inv2'
<1>1. Jobs' = Jobs
  BY DEF Jobs
<1>2. /\ \A p \in Pids : p \notin Born(n) =>
            pgrp'[p] = pgrp[p] /\ pstate'[p] = pstate[p]
      /\ \A p \in Pids : p \in Born(n) => pgrp'[p] = group
      /\ \A h \in Jobs : h \notin Born(n) /\ h # nextPid /\ h \in Pids
  BY ForkMoves
<1>3. CurrentIsTracked' /\ NotifiedWasShown' /\ IdsFollowList'
  BY <1>1 DEF Inv2, CurrentIsTracked, NotifiedWasShown, IdsFollowList
<1>4. LeaderLeads'
  BY <1>1, <1>2 DEF Inv2, LeaderLeads, IsChild
<1>5. GroupIsJob'
  <2> SUFFICES ASSUME NEW p \in Pids, IsChild(p)', pgrp'[p] \in Jobs
               PROVE  jobOf'[p] = pgrp'[p]
    BY <1>1 DEF GroupIsJob
  <2>1. None \notin Jobs
    BY <1>2 DEF None, Pids
  <2>2. p \notin Born(n)
    BY <1>2, <2>1
  <2>3. pgrp'[p] = pgrp[p] /\ IsChild(p)
    BY <1>2, <2>2 DEF IsChild
  <2> QED
    BY <2>3 DEF Inv2, GroupIsJob
<1> QED
  BY <1>3, <1>4, <1>5 DEF Inv2

\* Every command the executor dispatches keeps Inv2.
LEMMA CommandInv2 ==
    ASSUME Inv2, Inv1', Command
    PROVE  Inv2'
<1>1. ASSUME NEW n \in 1..MaxStages, LaunchForeground(n) PROVE Inv2'
  <2>1. /\ Fork(n, nextPid, Interactive) /\ AddJob(n)
        /\ GiveTerminal(nextPid) /\ pc' = "wait" /\ waitJob' = nextPid
    BY <1>1 DEF LaunchForeground, WaitFor
  <2>2. n \in Nat \ {0}
    BY JobControlAssumption
  <2>3. nextPid \in Pids
    BY <2>1, <2>2, JobControlAssumption
       DEF Fork, Inv2, Inv1, TypeOK, KernelTypeOK, Pids
  <2>4. TerminalFollowsWait'
    BY <2>1, GivenTerminal
  <2> QED
    BY <2>1, <2>2, <2>3, <2>4, NewJobInv2
<1>2. CASE LaunchBackground
  <2>1. /\ Fork(1, nextPid, FALSE) /\ AddJob(1) /\ UNCHANGED <<tty, stolen>>
        /\ pc # "wait" /\ pc' # "wait"
    BY <1>2 DEF LaunchBackground, Return
  <2>2. nextPid \in Pids
    BY <2>1, JobControlAssumption DEF Fork, Inv2, Inv1, TypeOK, KernelTypeOK, Pids
  <2>3. TerminalFollowsWait'
    BY <2>1, KeptTerminal
  <2>4. 1 \in Nat \ {0}
    OBVIOUS
  <2> QED
    BY <2>1, <2>2, <2>3, <2>4, NewJobInv2
<1>3. CASE LaunchPlain
  <2>1. /\ Fork(1, None, FALSE) /\ UNCHANGED <<jobs, jobOf, told>>
        /\ current' \in {current, None}
        /\ UNCHANGED <<tty, stolen>> /\ pc # "wait" /\ pc' # "wait"
    BY <1>3 DEF LaunchPlain, table
  <2>2. TerminalFollowsWait'
    BY <2>1, KeptTerminal
  <2> QED
    BY <2>1, <2>2, NoJobInv2
<1>4. ASSUME NEW k \in 0..(MaxStages - 1), PipelineForkFails(k) PROVE Inv2'
  <2>1. /\ Fork(k, nextPid, Interactive /\ k > 0) /\ UNCHANGED <<jobs, jobOf, told>>
        /\ current' \in {current, None}
        /\ UNCHANGED <<tty, stolen>> /\ pc # "wait" /\ pc' # "wait"
    BY <1>4 DEF PipelineForkFails, Return
  <2>2. k \in Nat
    BY JobControlAssumption
  <2>3. TerminalFollowsWait'
    BY <2>1, KeptTerminal
  <2> QED
    BY <2>1, <2>2, <2>3, NoJobInv2
<1>5. CASE StartUpdate \/ ShellExits
  BY <1>5, PromptMoves, MovesInv2
<1> QED
  BY <1>1, <1>2, <1>3, <1>4, <1>5 DEF Command

\* Inv2 holds when job_control_init returns.
LEMMA InitInv2 ==
    ASSUME Init
    PROVE  Inv2
<1>1. Inv1 /\ Jobs = {}
  BY InitInv1 DEF Init, Jobs
<1> QED
  BY <1>1 DEF Init, Inv2, CurrentIsTracked, IdsFollowList, NotifiedWasShown,
              TerminalFollowsWait, LeaderLeads, GroupIsJob

\* Every step keeps Inv2.
LEMMA StepInv2 ==
    ASSUME Inv2, Inv1', [Next]_vars
    PROVE  Inv2'
<1>1. CASE Children
  BY <1>1, ChildrenMoves, MovesInv2
<1>2. CASE Command
  BY <1>2, CommandInv2
<1>3. CASE Waiting \/ WaitInterrupted
  BY <1>3, WaitEndsMoves, PlainReapedMoves, WaitReapedMoves, MovesInv2 DEF Waiting
<1>4. CASE Update
  BY <1>4, NotifyMoves, ListJobsMoves, UpdateReapedMoves, ContinueForegroundMoves,
     OtherBuiltinsMove, MovesInv2 DEF Update
<1>5. CASE Exited \/ UNCHANGED vars
  BY <1>5, StutterMoves, MovesInv2 DEF Exited
<1> QED
  BY <1>1, <1>2, <1>3, <1>4, <1>5 DEF Next

\* In every reachable state the job table is consistent with itself, with the
\* terminal and with the process groups: Inv2 is an invariant of the shell.
THEOREM Inv2Holds == Spec => []Inv2
BY Inv1Holds, InitInv2, StepInv2, PTL DEF Spec

\* shell->current_job never dangles: every path that frees a job clears it.
THEOREM CurrentTracked == Spec => []CurrentIsTracked
<1>1. Inv2 => CurrentIsTracked
  BY DEF Inv2
<1> QED
  BY <1>1, Inv2Holds, PTL

\* Job ids grow along the list for any history of launches and removals, so an
\* id names one job.
THEOREM IdsAreOrdered == Spec => []IdsFollowList
<1>1. Inv2 => IdsFollowList
  BY DEF Inv2
<1> QED
  BY <1>1, Inv2Holds, PTL

\* No job is dropped with its end unannounced: a set notified flag means that
\* the status was printed.
THEOREM NotifiedShown == Spec => []NotifiedWasShown
<1>1. Inv2 => NotifiedWasShown
  BY DEF Inv2
<1> QED
  BY <1>1, Inv2Holds, PTL

\* The terminal is the awaited job's while the shell waits, the shell's
\* otherwise, unless a child took it late.
THEOREM TerminalOwner == Spec => []TerminalFollowsWait
<1>1. Inv2 => TerminalFollowsWait
  BY DEF Inv2
<1> QED
  BY <1>1, Inv2Holds, PTL

\* A waitable child in a job's process group is on that job's list: what
\* job_wait reaps by group, job_apply_status finds by pid.
THEOREM GroupsAreJobs == Spec => []GroupIsJob
<1>1. Inv2 => GroupIsJob
  BY DEF Inv2
<1> QED
  BY <1>1, Inv2Holds, PTL

-------------------------------------------------------------------------------
(* The job table records what happened to the children: their deaths and   *)
(* stops, the status of the jobs, and that nobody is lost.                 *)


\* The flags of a process are fields of an entry on some job's list.
FlagsListed == \A p \in completed \cup flagged : jobOf[p] # None

\* The first stage is on its job's list.
LeaderListed == \A h \in Jobs : jobOf[h] = h

\* A stage stays in its job's group unless it left it by itself.
MembersInGroup ==
    \A p \in Pids : jobOf[p] # None /\ IsChild(p) =>
        pgrp[p] = jobOf[p] \/ p \in strays

\* Away from the waits there is nothing to wait for.
WaitsForNone == ~(pc \in {"wait", "waitpid"}) => waitJob = None

Inv3 ==
    /\ Inv2
    /\ FlagsListed
    /\ LeaderListed
    /\ MembersInGroup
    /\ WaitsForNone
    /\ DeathsRecorded
    /\ StopsRecorded
    /\ StatusFromFlags
    /\ NoChildLost

-------------------------------------------------------------------------------
(* Waitpid reports a stage and its job is updated, perhaps removed.        *)

Reaps(p, jb, gone) ==
    /\ Waitable(p, TRUE) /\ Collect(p) /\ jobOf[p] \in Jobs
    /\ SetTable(jb, CompletedAfter(p, ReportOf(p)), FlaggedAfter(p, ReportOf(p)),
                WstatusAfter(p, ReportOf(p)), current, gone)
    /\ DOMAIN jb = Jobs
    /\ \A g \in Jobs : jb[g].status = JobsAfter(jobOf[p], p, ReportOf(p))[g].status
    /\ gone \subseteq {jobOf[p]}
    /\ gone # {} => ~(StatusAfter(jobOf[p], p, ReportOf(p)) \in {"running", "stopped"})
    /\ \/ UNCHANGED <<pc, waitJob>>
       \/ waitJob = jobOf[p] /\ pc' = "idle" /\ waitJob' = None

\* What a report says and does, and that it concerns one child only.
LEMMA CollectCases ==
    ASSUME TypeOK, NEW p \in Pids, Waitable(p, TRUE), Collect(p)
    PROVE  /\ \/ pstate[p] = "zombie" /\ pstate'[p] = "reaped" /\ ReportOf(p) # "stopped"
              \/ /\ pstate[p] = "stopped" /\ pstate'[p] = "stopped"
                 /\ ReportOf(p) = "stopped" /\ report'[p] = "none" /\ pgrp'[p] = pgrp[p]
                 /\ p \in strays' <=> p \in strays
              \/ /\ pstate[p] = "running" /\ pstate'[p] = "running"
                 /\ ReportOf(p) = "continued" /\ pgrp'[p] = pgrp[p]
                 /\ jobOf[p] # None => p \in strays'
                 /\ p \in strays => p \in strays'
           /\ \A q \in Pids \ {p} :
                 /\ pstate'[q] = pstate[q] /\ report'[q] = report[q]
                 /\ pgrp'[q] = pgrp[q] /\ (q \in strays' <=> q \in strays)
<1>1. /\ pstate \in [Pids -> PStates] /\ pgrp \in [Pids -> Pids \cup {None}]
      /\ death \in [Pids -> Deaths \cup {"none"}] /\ report \in [Pids -> Reports]
  BY DEF TypeOK, KernelTypeOK
<1>2. report' = [report EXCEPT ![p] = "none"]
  BY DEF Collect
<1>3. CASE pstate[p] = "zombie"
  <2>1. /\ pstate' = [pstate EXCEPT ![p] = "reaped"]
        /\ pgrp' = [pgrp EXCEPT ![p] = None] /\ strays' = strays \ {p}
    BY <1>3 DEF Collect
  <2>2. ReportOf(p) # "stopped"
    BY <1>1, <1>3 DEF ReportOf, Deaths
  <2> QED
    BY <1>1, <1>2, <1>3, <2>1, <2>2
<1>4. CASE pstate[p] # "zombie"
  <2>1. /\ UNCHANGED <<pstate, pgrp>>
        /\ strays' = IF report[p] = "continued" /\ jobOf[p] # None
                     THEN strays \cup {p} ELSE strays
    BY <1>4 DEF Collect
  <2>2. \/ pstate[p] = "stopped" /\ report[p] = "stopped"
        \/ pstate[p] = "running" /\ report[p] = "continued"
    BY <1>4 DEF Waitable
  <2>3. ReportOf(p) = report[p]
    BY <1>4 DEF ReportOf
  <2> QED
    BY <1>1, <1>2, <2>1, <2>2, <2>3
<1> QED
  BY <1>3, <1>4

\* The lists after SetTable, process by process.
LEMMA ListsAfter ==
    ASSUME Inv2, NEW jb, NEW comp, NEW flag, NEW wst, NEW cur, NEW gone,
           DOMAIN jb = Jobs, gone \subseteq Jobs,
           SetTable(jb, comp, flag, wst, cur, gone)
    PROVE  /\ Jobs' = Jobs \ gone
           /\ \A h \in Jobs' : jobs'[h] = jb[h]
           /\ \A p \in Pids : jobOf'[p] = IF jobOf[p] \in gone THEN None ELSE jobOf[p]
           /\ \A p \in Pids : jobOf'[p] # None => jobOf'[p] = jobOf[p] /\ jobOf[p] \in Jobs'
           /\ \A p \in Pids : p \in completed' <=> p \in comp /\ jobOf[p] \notin gone
           /\ \A p \in Pids : p \in flagged' <=> p \in flag /\ jobOf[p] \notin gone
           /\ \A h \in Jobs' : Members(h)' = Members(h)
           /\ completed' \subseteq comp /\ flagged' \subseteq flag
<1>1. Jobs' = Jobs \ gone /\ \A h \in Jobs' : jobs'[h] = jb[h]
  BY DEF SetTable, Jobs
<1>2. \A p \in Pids : jobOf'[p] = IF jobOf[p] \in gone THEN None ELSE jobOf[p]
  BY DEF SetTable
<1>3. \A p \in Pids : jobOf[p] \in Jobs \cup {None}
  BY DEF Inv2, Inv1, MembersListed
<1>4. \A p \in Pids : jobOf'[p] # None => jobOf'[p] = jobOf[p] /\ jobOf[p] \in Jobs'
  BY <1>1, <1>2, <1>3
<1>5. None \notin Jobs
  BY DEF Inv2, Inv1, TypeOK, TableTypeOK, None, Pids
<1>6. ASSUME NEW h \in Jobs' PROVE Members(h)' = Members(h)
  <2>1. h \in Jobs /\ h \notin gone /\ h # None
    BY <1>1, <1>5
  <2>2. \A p \in Pids : jobOf'[p] = h <=> jobOf[p] = h
    BY <1>2, <2>1
  <2> QED
    BY <2>2 DEF Members
<1>7. /\ \A p \in Pids : p \in completed' <=> p \in comp /\ jobOf[p] \notin gone
      /\ \A p \in Pids : p \in flagged' <=> p \in flag /\ jobOf[p] \notin gone
      /\ completed' \subseteq comp /\ flagged' \subseteq flag
  BY DEF SetTable
<1> QED
  BY <1>1, <1>2, <1>4, <1>6, <1>7

\* The aggregate status of a job depends on the flags of its own stages.
LEMMA RecomputedLocal ==
    ASSUME NEW h, NEW st, NEW c1, NEW f1, NEW c2, NEW f2,
           \A p \in Members(h) : (p \in c1 <=> p \in c2) /\ (p \in f1 <=> p \in f2)
    PROVE  Recomputed(h, st, c1, f1) = Recomputed(h, st, c2, f2)
<1>1. Members(h) \subseteq c1 <=> Members(h) \subseteq c2
  OBVIOUS
<1>2. Members(h) \cap f1 # {} <=> Members(h) \cap f2 # {}
  OBVIOUS
<1> QED
  BY <1>1, <1>2 DEF Recomputed

\* A recomputed status is stable.
LEMMA RecomputedStable ==
    ASSUME NEW h, NEW st, NEW c, NEW f
    PROVE  /\ Recomputed(h, Recomputed(h, st, c, f), c, f) = Recomputed(h, st, c, f)
           /\ Recomputed(h, st, c, f) \notin {"running", "stopped"} => Members(h) \subseteq c
BY DEF Recomputed

\* A status that comes from the flags still does when the lists and the flags of
\* the job stay as they are.
FromFlags(h, st, comp, flag) ==
    \/ st = Recomputed(h, st, comp, flag)
    \/ Members(h) \subseteq comp /\ st = "running"

\* The status of a job depends on the flags of its own stages only.
LEMMA FromFlagsLocal ==
    ASSUME NEW h, NEW st, NEW c1, NEW f1, NEW c2, NEW f2,
           \A p \in Members(h) : (p \in c1 <=> p \in c2) /\ (p \in f1 <=> p \in f2),
           FromFlags(h, st, c1, f1)
    PROVE  FromFlags(h, st, c2, f2)
<1>1. Recomputed(h, st, c1, f1) = Recomputed(h, st, c2, f2)
  BY RecomputedLocal
<1>2. Members(h) \subseteq c1 <=> Members(h) \subseteq c2
  OBVIOUS
<1> QED
  BY <1>1, <1>2 DEF FromFlags

\* A status derived from the new flags is the one a recomputation would give, or
\* belongs to a finished job that fg or bg marked running.
LEMMA StatusOfOne ==
    ASSUME NEW h, Members(h)' = Members(h),
           FromFlags(h, jobs'[h].status, completed', flagged')
    PROVE  \/ jobs'[h].status = Recomputed(h, jobs[h].status, completed, flagged)'
           \/ Members(h)' \subseteq completed' /\ jobs'[h].status = "running"
<1>1. Recomputed(h, jobs[h].status, completed, flagged)' =
      Recomputed(h, jobs'[h].status, completed', flagged')
  BY DEF Recomputed
<1> QED
  BY <1>1 DEF FromFlags

\* StatusFromFlags after a step that moves no stage from job to job.
LEMMA StatusFromFlagsAgain ==
    ASSUME \A h \in Jobs' : /\ Members(h)' = Members(h)
                            /\ FromFlags(h, jobs'[h].status, completed', flagged')
    PROVE  StatusFromFlags'
BY StatusOfOne DEF StatusFromFlags

\* The parts of Inv3 beyond Inv2.
Records ==
    /\ FlagsListed /\ LeaderListed /\ MembersInGroup /\ WaitsForNone
    /\ DeathsRecorded /\ StopsRecorded /\ StatusFromFlags /\ NoChildLost

\* Recording what waitpid reported of a listed child keeps Records.
LEMMA ReapsRecords ==
    ASSUME Inv3, NEW p \in Pids, NEW jb, NEW gone, Reaps(p, jb, gone)
    PROVE  Records'
<1> DEFINE w == ReportOf(p)
           h == jobOf[p]
           comp == CompletedAfter(p, w)
           flag == FlaggedAfter(p, w)
<1>1. /\ \/ pstate[p] = "zombie" /\ pstate'[p] = "reaped" /\ w # "stopped"
         \/ /\ pstate[p] = "stopped" /\ pstate'[p] = "stopped"
            /\ w = "stopped" /\ report'[p] = "none" /\ pgrp'[p] = pgrp[p]
            /\ p \in strays' <=> p \in strays
         \/ /\ pstate[p] = "running" /\ pstate'[p] = "running"
            /\ w = "continued" /\ pgrp'[p] = pgrp[p]
            /\ jobOf[p] # None => p \in strays'
            /\ p \in strays => p \in strays'
      /\ \A q \in Pids \ {p} :
            /\ pstate'[q] = pstate[q] /\ report'[q] = report[q]
            /\ pgrp'[q] = pgrp[q] /\ (q \in strays' <=> q \in strays)
  BY CollectCases DEF Reaps, Inv3, Inv2, Inv1
<1>2. h \in Jobs /\ h # None /\ gone \subseteq Jobs /\ gone \subseteq {h}
  BY DEF Reaps, Inv3, Inv2, Inv1, TypeOK, TableTypeOK, None, Pids
<1>3. /\ Jobs' = Jobs \ gone
      /\ \A g \in Jobs' : jobs'[g] = jb[g]
      /\ \A q \in Pids : jobOf'[q] = IF jobOf[q] \in gone THEN None ELSE jobOf[q]
      /\ \A q \in Pids : jobOf'[q] # None => jobOf'[q] = jobOf[q] /\ jobOf[q] \in Jobs'
      /\ \A q \in Pids : q \in completed' <=> q \in comp /\ jobOf[q] \notin gone
      /\ \A q \in Pids : q \in flagged' <=> q \in flag /\ jobOf[q] \notin gone
      /\ \A g \in Jobs' : Members(g)' = Members(g)
      /\ completed' \subseteq comp /\ flagged' \subseteq flag
  BY <1>2, ListsAfter DEF Reaps, Inv3
<1>4. /\ \A q \in Pids \ {p} : (q \in comp <=> q \in completed)
                            /\ (q \in flag <=> q \in flagged)
      /\ w # "stopped" => p \in comp /\ p \notin flag
      /\ w = "stopped" => p \in flag /\ (p \in comp <=> p \in completed)
      /\ comp \subseteq completed \cup {p} /\ flag \subseteq flagged \cup {p}
  BY DEF CompletedAfter, FlaggedAfter
<1>5. /\ \A g \in Jobs \ {h} : jb[g].status = jobs[g].status
      /\ jb[h].status = StatusAfter(h, p, w)
  BY <1>2, ApplyTyped, ReportTyped DEF Reaps, Inv3, Inv2, Inv1
<1>6. gone # {} => gone = {h} /\ Members(h) \subseteq comp
  <2> DEFINE st == IF w = "killed" THEN "terminated" ELSE jobs[h].status
  <2>1. StatusAfter(h, p, w) = Recomputed(h, st, comp, flag)
    BY DEF StatusAfter
  <2> HIDE DEF st, comp, flag, w, h
  <2>2. gone # {} => Recomputed(h, st, comp, flag) \notin {"running", "stopped"}
    BY <2>1 DEF Reaps, h, w
  <2> QED
    BY <1>2, <2>2, RecomputedStable
<1>7. /\ \A q \in Pids : jobOf[q] \in Jobs \cup {None} /\ completed \subseteq Pids
      /\ flagged \subseteq Pids
  BY DEF Inv3, Inv2, Inv1, MembersListed, TypeOK, TableTypeOK
<1> HIDE DEF w, comp, flag
<1>8. FlagsListed'
  <2> SUFFICES ASSUME NEW q \in completed' \cup flagged' PROVE jobOf'[q] # None
    BY DEF FlagsListed
  <2>1. q \in Pids /\ jobOf[q] # None
    BY <1>2, <1>3, <1>4, <1>7 DEF Inv3, FlagsListed, h
  <2> QED
    BY <1>3, <2>1
<1>9. LeaderListed'
  BY <1>3 DEF Inv3, LeaderListed, Inv2, Inv1, TypeOK, TableTypeOK
<1>10. MembersInGroup'
  <2> SUFFICES ASSUME NEW q \in Pids, jobOf'[q] # None, IsChild(q)'
               PROVE  pgrp'[q] = jobOf'[q] \/ q \in strays'
    BY DEF MembersInGroup
  <2>1. jobOf'[q] = jobOf[q]
    BY <1>3
  <2>2. CASE q = p
    BY <1>1, <2>1, <2>2 DEF Inv3, MembersInGroup, IsChild
  <2>3. CASE q # p
    BY <1>1, <2>1, <2>3 DEF Inv3, MembersInGroup, IsChild
  <2> QED
    BY <2>2, <2>3
<1>11. WaitsForNone'
  BY DEF Reaps, Inv3, WaitsForNone
<1>12. DeathsRecorded'
  <2> SUFFICES ASSUME NEW q \in Pids, jobOf'[q] # None
               PROVE  /\ pstate'[q] = "reaped" => q \in completed'
                      /\ q \in completed' => pstate'[q] = "reaped" \/ q \in strays'
    BY DEF DeathsRecorded
  <2>1. jobOf'[q] = jobOf[q] /\ jobOf[q] \notin gone /\ jobOf[q] # None
    BY <1>3
  <2>2. q \in completed' <=> q \in comp
    BY <1>3, <2>1
  <2>3. /\ pstate[q] = "reaped" => q \in completed
        /\ q \in completed => pstate[q] = "reaped" \/ q \in strays
    BY <2>1 DEF Inv3, DeathsRecorded
  <2>4. CASE q = p
    BY <1>1, <1>4, <2>1, <2>2, <2>3, <2>4
  <2>5. CASE q # p
    BY <1>1, <1>4, <2>1, <2>2, <2>3, <2>5
  <2> QED
    BY <2>4, <2>5
<1>13. StopsRecorded'
  <2> SUFFICES ASSUME NEW q \in Pids, jobOf'[q] # None, q \notin strays',
                      Alive(q)', report'[q] = "none"
               PROVE  q \in flagged' <=> pstate'[q] = "stopped"
    BY DEF StopsRecorded
  <2>1. jobOf[q] \notin gone /\ jobOf[q] # None
    BY <1>3
  <2>2. q \in flagged' <=> q \in flag
    BY <1>3, <2>1
  <2>3. CASE q = p
    BY <1>1, <1>4, <2>1, <2>2, <2>3 DEF Alive
  <2>4. CASE q # p
    <3>1. q \notin strays /\ Alive(q) /\ report[q] = "none" /\ pstate'[q] = pstate[q]
      BY <1>1, <2>4 DEF Alive
    <3>2. q \in flagged <=> pstate[q] = "stopped"
      BY <2>1, <3>1 DEF Inv3, StopsRecorded
    <3> QED
      BY <1>4, <2>2, <2>4, <3>1, <3>2
  <2> QED
    BY <2>3, <2>4
<1>14. StatusFromFlags'
  <2> SUFFICES ASSUME NEW g \in Jobs'
               PROVE  FromFlags(g, jobs'[g].status, completed', flagged')
    BY <1>3, StatusFromFlagsAgain
  <2>1. g \in Jobs /\ g \notin gone /\ jobs'[g].status = jb[g].status /\ g # None
    BY <1>3 DEF Inv3, Inv2, Inv1, TypeOK, TableTypeOK, None, Pids
  <2>2. \A q \in Members(g) : (q \in comp <=> q \in completed')
                           /\ (q \in flag <=> q \in flagged')
    BY <1>3, <2>1 DEF Members
  <2>3. FromFlags(g, jb[g].status, comp, flag)
    <3>1. CASE g = h
      <4> DEFINE st == IF w = "killed" THEN "terminated" ELSE jobs[g].status
      <4>1. jb[g].status = Recomputed(g, st, comp, flag)
        BY <1>5, <3>1 DEF StatusAfter, w, comp, flag
      <4> HIDE DEF st
      <4> QED
        BY <4>1, RecomputedStable DEF FromFlags
    <3>2. CASE g # h
      <4>1. FromFlags(g, jobs[g].status, completed, flagged)
        BY <2>1 DEF Inv3, StatusFromFlags, FromFlags
      <4>2. \A q \in Members(g) : (q \in completed <=> q \in comp)
                               /\ (q \in flagged <=> q \in flag)
        BY <1>4, <3>2 DEF Members, h
      <4>3. jb[g].status = jobs[g].status
        BY <1>5, <2>1, <3>2
      <4> QED
        BY <4>1, <4>2, <4>3, FromFlagsLocal
    <3> QED
      BY <3>1, <3>2
  <2> QED
    BY <2>1, <2>2, <2>3, FromFlagsLocal
<1>15. NoChildLost'
  <2> SUFFICES ASSUME NEW q \in Pids, IsChild(q)', q \notin strays',
                      pc' # "exited", q # waitJob'
               PROVE  jobOf'[q] \in Jobs'
    BY DEF NoChildLost
  <2>1. CASE q = p
    <3>1. w = "stopped" /\ p \notin strays
      BY <1>1, <1>2, <2>1 DEF IsChild, h
    <3>2. gone = {}
      <4>1. SUFFICES ASSUME gone # {} PROVE FALSE
        OBVIOUS
      <4>2. p \in comp
        BY <1>6, <4>1 DEF Members, h
      <4>3. p \in completed
        BY <1>4, <3>1, <4>2
      <4> QED
        BY <1>1, <1>2, <3>1, <4>3 DEF Inv3, DeathsRecorded, h
    <3> QED
      BY <1>2, <1>3, <2>1, <3>2 DEF h
  <2>2. CASE q # p
    <3>1. IsChild(q) /\ q \notin strays
      BY <1>1, <2>2 DEF IsChild
    <3>2. jobOf[q] \in Jobs
      <4>1. pc # "exited" /\ (q = waitJob => q = h)
        BY <1>2 DEF Reaps, Inv3, WaitsForNone, h
      <4>2. CASE q = h
        BY <1>2, <4>2 DEF Inv3, LeaderListed
      <4>3. CASE q # h
        BY <3>1, <4>1, <4>3 DEF Inv3, NoChildLost
      <4> QED
        BY <4>2, <4>3
    <3>3. jobOf[q] \notin gone
      <4>1. SUFFICES ASSUME jobOf[q] \in gone PROVE FALSE
        OBVIOUS
      <4>2. q \in Members(h) /\ q \in comp
        BY <1>6, <4>1 DEF Members
      <4>3. q \in completed
        BY <1>4, <2>2, <4>2
      <4>4. jobOf[q] # None
        BY <1>2, <4>1
      <4> QED
        BY <3>1, <4>3, <4>4 DEF Inv3, DeathsRecorded, IsChild
    <3> QED
      BY <1>3, <3>2, <3>3
  <2> QED
    BY <2>1, <2>2
<1> QED
  BY <1>8, <1>9, <1>10, <1>11, <1>12, <1>13, <1>14, <1>15 DEF Records

-------------------------------------------------------------------------------
(* Nothing happens to the children; some jobs may leave the table.         *)

Settles(gone) ==
    /\ gone \subseteq Jobs /\ Jobs' = Jobs \ gone
    /\ \A h \in Jobs' : jobs'[h].status = jobs[h].status
    /\ \A q \in Pids : jobOf'[q] = IF jobOf[q] \in gone THEN None ELSE jobOf[q]
    /\ \A q \in Pids : q \in completed' <=> q \in completed /\ jobOf[q] \notin gone
    /\ \A q \in Pids : q \in flagged' <=> q \in flagged /\ jobOf[q] \notin gone
    /\ completed' \subseteq Pids /\ flagged' \subseteq Pids
    /\ UNCHANGED <<pstate, report, pgrp>> /\ strays \subseteq strays'
    /\ \A q \in Pids : jobOf[q] \in gone /\ IsChild(q) =>
          q \in strays' \/ pc' = "exited"
    /\ pc = "exited" => pc' = "exited"
    /\ ~(pc' \in {"wait", "waitpid"}) => waitJob' = None
    /\ waitJob' = waitJob \/ waitJob \in Jobs

\* Removing jobs and marking others notified keeps Records.
LEMMA SettlesRecords ==
    ASSUME Inv3, NEW gone, Settles(gone)
    PROVE  Records'
<1>1. /\ Jobs' = Jobs \ gone /\ gone \subseteq Jobs
      /\ \A h \in Jobs' : jobs'[h].status = jobs[h].status
      /\ \A q \in Pids : jobOf'[q] = IF jobOf[q] \in gone THEN None ELSE jobOf[q]
      /\ \A q \in Pids : q \in completed' <=> q \in completed /\ jobOf[q] \notin gone
      /\ \A q \in Pids : q \in flagged' <=> q \in flagged /\ jobOf[q] \notin gone
      /\ completed' \subseteq Pids /\ flagged' \subseteq Pids
  BY DEF Settles
<1>2. UNCHANGED <<pstate, report, pgrp>> /\ strays \subseteq strays'
  BY DEF Settles
<1>3. None \notin Jobs /\ Jobs \subseteq Pids
  BY DEF Inv3, Inv2, Inv1, TypeOK, TableTypeOK, None, Pids
<1>4. \A q \in Pids : jobOf'[q] # None => jobOf'[q] = jobOf[q] /\ jobOf[q] \notin gone
  BY <1>1
<1>5. FlagsListed' /\ LeaderListed' /\ WaitsForNone'
  BY <1>1, <1>3 DEF Inv3, FlagsListed, LeaderListed, WaitsForNone, Settles
<1>6. MembersInGroup'
  BY <1>2, <1>4 DEF Inv3, MembersInGroup, IsChild
<1>7. DeathsRecorded'
  BY <1>1, <1>2, <1>4 DEF Inv3, DeathsRecorded
<1>8. StopsRecorded'
  BY <1>1, <1>2, <1>4 DEF Inv3, StopsRecorded, Alive
<1>9. StatusFromFlags'
  <2> SUFFICES ASSUME NEW h \in Jobs'
               PROVE  /\ Members(h)' = Members(h)
                      /\ FromFlags(h, jobs'[h].status, completed', flagged')
    BY StatusFromFlagsAgain
  <2>1. h \in Jobs /\ h \notin gone /\ h # None
    BY <1>1, <1>3
  <2>2. Members(h)' = Members(h)
    <3>1. \A p \in Pids : jobOf'[p] = h <=> jobOf[p] = h
      BY <1>1, <2>1
    <3> QED
      BY <3>1 DEF Members
  <2>3. FromFlags(h, jobs[h].status, completed, flagged)
    BY <2>1 DEF Inv3, StatusFromFlags, FromFlags
  <2>4. \A p \in Members(h) : (p \in completed <=> p \in completed')
                           /\ (p \in flagged <=> p \in flagged')
    BY <1>1, <2>1 DEF Members
  <2>5. FromFlags(h, jobs[h].status, completed', flagged')
    BY <2>3, <2>4, FromFlagsLocal
  <2> QED
    BY <1>1, <2>2, <2>5
<1>10. NoChildLost'
  <2> SUFFICES ASSUME NEW q \in Pids, IsChild(q)', q \notin strays',
                      pc' # "exited", q # waitJob'
               PROVE  jobOf'[q] \in Jobs'
    BY DEF NoChildLost
  <2>1. IsChild(q) /\ q \notin strays /\ pc # "exited"
    BY <1>2 DEF IsChild, Settles
  <2>2. jobOf[q] \in Jobs
    <3>1. CASE q = waitJob
      BY <3>1 DEF Settles, Inv3, LeaderListed
    <3>2. CASE q # waitJob
      BY <2>1, <3>2 DEF Inv3, NoChildLost
    <3> QED
      BY <3>1, <3>2
  <2>3. jobOf[q] \notin gone
    BY <2>1 DEF Settles
  <2> QED
    BY <1>1, <2>2, <2>3
<1> QED
  BY <1>5, <1>6, <1>7, <1>8, <1>9, <1>10 DEF Records

\* When the table is untouched only the kernel and the shell's place matter.
LEMMA NothingSettles ==
    ASSUME Inv3, UNCHANGED <<jobOf, completed, flagged>>, Jobs' = Jobs,
           \A h \in Jobs : jobs'[h].status = jobs[h].status,
           UNCHANGED <<pstate, report, pgrp, strays>>,
           pc = "exited" => pc' = "exited",
           ~(pc' \in {"wait", "waitpid"}) => waitJob' = None,
           waitJob' = waitJob
    PROVE  Settles({})
BY DEF Settles, Inv3, Inv2, Inv1, TypeOK, TableTypeOK

-------------------------------------------------------------------------------
(* fg, bg and kill -CONT.                                                  *)

Continues(h) ==
    /\ IF Group(h) = {} THEN UNCHANGED kernel ELSE ContinueGroup(h)
    /\ MarkRunning(h) \/ UNCHANGED table
    /\ strays' = strays
    /\ pc = "update"
    /\ pc' # "exited"
    /\ ~(pc' \in {"wait", "waitpid"}) => waitJob' = None

\* fg, bg and kill keep Records.
LEMMA ContinuesRecords ==
    ASSUME Inv3, NEW h \in Jobs, Continues(h)
    PROVE  Records'
<1>1. /\ pgrp' = pgrp /\ strays' = strays
      /\ \A q \in Pids :
            \/ pstate'[q] = pstate[q] /\ report'[q] = report[q]
               /\ ~(q \in Group(h) /\ pstate[q] = "stopped")
            \/ /\ q \in Group(h) /\ pstate[q] = "stopped"
               /\ pstate'[q] = "running" /\ report'[q] = "continued"
  <2>1. CASE Group(h) = {}
    BY <2>1 DEF Continues, kernel
  <2>2. CASE Group(h) # {}
    BY <2>2 DEF Continues, ContinueGroup
  <2> QED
    BY <2>1, <2>2
<1>2. /\ jobOf' = jobOf /\ completed' = completed /\ Jobs' = Jobs
      /\ flagged' = flagged \/ flagged' = flagged \ Members(h)
      /\ \A g \in Jobs \ {h} : jobs'[g].status = jobs[g].status
      /\ \/ flagged' = flagged /\ jobs'[h].status = jobs[h].status
         \/ flagged' = flagged \ Members(h) /\ jobs'[h].status = "running"
  <2>1. CASE MarkRunning(h)
    BY <2>1 DEF MarkRunning, Jobs, Inv3, Inv2, Inv1, TypeOK, TableTypeOK, Job
  <2>2. CASE UNCHANGED table
    BY <2>2 DEF table, Jobs
  <2> QED
    BY <2>1, <2>2 DEF Continues
<1>3. FlagsListed' /\ LeaderListed' /\ WaitsForNone'
  BY <1>2 DEF Inv3, FlagsListed, LeaderListed, WaitsForNone, Continues
<1>4. MembersInGroup'
  <2>1. \A q \in Pids : IsChild(q)' => IsChild(q)
    BY <1>1 DEF IsChild
  <2> QED
    BY <1>1, <1>2, <2>1 DEF Inv3, MembersInGroup
<1>5. DeathsRecorded'
  BY <1>1, <1>2 DEF Inv3, DeathsRecorded
<1>6. StopsRecorded'
  <2> SUFFICES ASSUME NEW q \in Pids, jobOf'[q] # None, q \notin strays',
                      Alive(q)', report'[q] = "none"
               PROVE  q \in flagged' <=> pstate'[q] = "stopped"
    BY DEF StopsRecorded
  <2>1. /\ pstate'[q] = pstate[q] /\ report[q] = "none"
        /\ ~(q \in Group(h) /\ pstate[q] = "stopped")
    BY <1>1
  <2>2. q \in flagged <=> pstate[q] = "stopped"
    BY <1>1, <1>2, <2>1 DEF Inv3, StopsRecorded, Alive
  <2>3. CASE q \in Members(h)
    <3>1. q \in Group(h)
      BY <1>1, <1>2, <2>1, <2>3
         DEF Inv3, MembersInGroup, Group, IsChild, Alive, Members
    <3> QED
      BY <1>2, <2>1, <2>2, <3>1
  <2>4. CASE q \notin Members(h)
    BY <1>2, <2>1, <2>2, <2>4
  <2> QED
    BY <2>3, <2>4
<1>7. StatusFromFlags'
  <2> SUFFICES ASSUME NEW g \in Jobs'
               PROVE  /\ Members(g)' = Members(g)
                      /\ FromFlags(g, jobs'[g].status, completed', flagged')
    BY StatusFromFlagsAgain
  <2>1. Members(g)' = Members(g) /\ g \in Jobs
    BY <1>2 DEF Members
  <2>2. FromFlags(g, jobs[g].status, completed, flagged)
    BY <2>1 DEF Inv3, StatusFromFlags, FromFlags
  <2>3. CASE flagged' = flagged /\ jobs'[h].status = jobs[h].status
    <3>1. jobs'[g].status = jobs[g].status
      BY <1>2, <2>1, <2>3
    <3> QED
      BY <1>2, <2>1, <2>2, <2>3, <3>1
  <2>4. CASE flagged' = flagged \ Members(h) /\ jobs'[h].status = "running"
    <3>1. CASE g = h
      BY <1>2, <2>1, <2>4, <3>1 DEF FromFlags, Recomputed
    <3>2. CASE g # h
      <4>1. \A p \in Members(g) : (p \in completed <=> p \in completed')
                               /\ (p \in flagged <=> p \in flagged')
        BY <1>2, <2>4, <3>2 DEF Members
      <4>2. jobs'[g].status = jobs[g].status
        BY <1>2, <2>1, <3>2
      <4>3. FromFlags(g, jobs[g].status, completed', flagged')
        BY <2>2, <4>1, FromFlagsLocal
      <4> QED
        BY <2>1, <4>2, <4>3
    <3> QED
      BY <3>1, <3>2
  <2> QED
    BY <1>2, <2>3, <2>4
<1>8. NoChildLost'
  <2> SUFFICES ASSUME NEW q \in Pids, IsChild(q)', q \notin strays'
               PROVE  jobOf'[q] \in Jobs'
    BY DEF NoChildLost
  <2>1. IsChild(q) /\ q \notin strays
    BY <1>1 DEF IsChild
  <2>2. pc # "exited" /\ waitJob = None /\ q # None
    BY DEF Continues, Inv3, WaitsForNone, None, Pids
  <2> QED
    BY <1>2, <2>1, <2>2 DEF Inv3, NoChildLost
<1> QED
  BY <1>3, <1>4, <1>5, <1>6, <1>7, <1>8 DEF Records

-------------------------------------------------------------------------------
(* The table stays as it is while the children move.                       *)

Lives ==
    /\ UNCHANGED table
    /\ strays \cap {q \in Pids : jobOf[q] # None \/ IsChild(q)'} \subseteq strays'
    /\ \A q \in Pids :
          /\ pstate'[q] = "unborn" => pstate[q] = "unborn"
          /\ IsChild(q)' => IsChild(q)
          /\ IsChild(q)' => pgrp'[q] = pgrp[q] \/ q \in strays'
          /\ jobOf[q] # None => (pstate'[q] = "reaped" <=> pstate[q] = "reaped")
          /\ jobOf[q] # None /\ Alive(q)' /\ report'[q] = "none" /\ q \notin strays'
                => /\ Alive(q) /\ report[q] = "none"
                   /\ pstate'[q] = "stopped" <=> pstate[q] = "stopped"
          /\ IsChild(q)' /\ q = waitJob => q = waitJob'
    /\ pc = "exited" => pc' = "exited"
    /\ ~(pc' \in {"wait", "waitpid"}) => waitJob' = None

\* A step that leaves the table alone and reaps no listed child keeps Records.
LEMMA LivesRecords ==
    ASSUME Inv3, Lives
    PROVE  Records'
<1>1. /\ UNCHANGED <<jobs, jobOf, completed, flagged>> /\ Jobs' = Jobs
      /\ completed \subseteq Pids /\ \A h \in Jobs : Members(h)' = Members(h)
  BY DEF Lives, table, Jobs, Members, Inv3, Inv2, Inv1, TypeOK, TableTypeOK
<1>2. FlagsListed' /\ LeaderListed' /\ WaitsForNone'
  BY <1>1 DEF Inv3, FlagsListed, LeaderListed, WaitsForNone, Lives
<1>3. MembersInGroup'
  BY <1>1 DEF Inv3, MembersInGroup, Lives
<1>4. DeathsRecorded'
  BY <1>1 DEF Inv3, DeathsRecorded, Lives
<1>5. StopsRecorded'
  <2> SUFFICES ASSUME NEW q \in Pids, jobOf[q] # None, q \notin strays',
                      Alive(q)', report'[q] = "none"
               PROVE  q \in flagged <=> pstate'[q] = "stopped"
    BY <1>1 DEF StopsRecorded
  <2>1. /\ Alive(q) /\ report[q] = "none" /\ q \notin strays
        /\ pstate'[q] = "stopped" <=> pstate[q] = "stopped"
    BY DEF Lives
  <2> QED
    BY <2>1 DEF Inv3, StopsRecorded
<1>6. StatusFromFlags'
  <2>1. \A h \in Jobs' : FromFlags(h, jobs'[h].status, completed', flagged')
    BY <1>1 DEF Inv3, StatusFromFlags, FromFlags
  <2> QED
    BY <1>1, <2>1, StatusFromFlagsAgain
<1>7. NoChildLost'
  BY <1>1 DEF Inv3, NoChildLost, Lives
<1> QED
  BY <1>2, <1>3, <1>4, <1>5, <1>6, <1>7 DEF Records

\* Whatever a child does by itself is such a step.
LEMMA ChildrenLive ==
    ASSUME Inv3, Children
    PROVE  Lives
<1>1. PICK p \in Pids :
         \/ ChildClaims(p) \/ ChildStops(p) \/ ChildContinues(p)
         \/ ChildLeavesGroup(p)
         \/ \E d \in Deaths : ChildDies(p, d)
  BY DEF Children
<1>2. UNCHANGED table /\ UNCHANGED <<pc, waitJob>> /\ pc # "exited"
  BY DEF Children, ChildClaims, ChildDies, ChildStops, ChildContinues,
         ChildLeavesGroup, Outsider, shell
<1>3. /\ pstate \in [Pids -> PStates] /\ pgrp \in [Pids -> Pids \cup {None}]
      /\ report \in [Pids -> Reports] /\ WaitsForNone
  BY DEF Inv3, Inv2, Inv1, TypeOK, KernelTypeOK
<1>4. ~(pc' \in {"wait", "waitpid"}) => waitJob' = None
  BY <1>2, <1>3 DEF WaitsForNone
<1>5. CASE ChildClaims(p)
  BY <1>2, <1>4, <1>5 DEF ChildClaims, Lives, IsChild, Alive
<1>6. CASE ChildStops(p)
  BY <1>2, <1>3, <1>4, <1>6 DEF ChildStops, Lives, IsChild, Alive
<1>7. CASE ChildContinues(p)
  BY <1>2, <1>3, <1>4, <1>7 DEF ChildContinues, Lives, IsChild, Alive
<1>8. CASE ChildLeavesGroup(p)
  BY <1>2, <1>3, <1>4, <1>8 DEF ChildLeavesGroup, Lives, IsChild, Alive
<1>9. ASSUME NEW d \in Deaths, ChildDies(p, d) PROVE Lives
  BY <1>2, <1>3, <1>4, <1>9 DEF ChildDies, Lives, IsChild, Alive
<1> QED
  BY <1>1, <1>5, <1>6, <1>7, <1>8, <1>9

\* waitpid reports a child no job lists.
LEMMA UnlistedLives ==
    ASSUME Inv3, NEW p \in Pids, Waitable(p, TRUE), Collect(p), jobOf[p] = None,
           UNCHANGED table, pc = "exited" => pc' = "exited",
           ~(pc' \in {"wait", "waitpid"}) => waitJob' = None,
           \/ pstate[p] = "zombie" /\ p = waitJob
           \/ waitJob' = waitJob
    PROVE  Lives
<1>1. /\ \/ pstate[p] = "zombie" /\ pstate'[p] = "reaped"
         \/ /\ pstate[p] # "zombie" /\ pstate'[p] = pstate[p] /\ pgrp'[p] = pgrp[p]
            /\ p \in strays => p \in strays'
      /\ \A q \in Pids \ {p} :
            /\ pstate'[q] = pstate[q] /\ report'[q] = report[q]
            /\ pgrp'[q] = pgrp[q] /\ (q \in strays' <=> q \in strays)
  BY CollectCases DEF Inv3, Inv2, Inv1
<1> QED
  BY <1>1 DEF Lives, IsChild, Alive

-------------------------------------------------------------------------------
(* Forks.                                                                  *)

\* A pid the kernel has not given out yet is on no list and has no flag.
LEMMA NewbornUnlisted ==
    ASSUME Inv3, NEW n \in Nat, NEW group, NEW claims, Fork(n, group, claims)
    PROVE  /\ \A q \in Pids : q \in Born(n) =>
                 /\ jobOf[q] = None /\ q \notin completed \cup flagged
                 /\ pstate'[q] = "running" /\ pgrp'[q] = group
           /\ \A q \in Pids : q \notin Born(n) =>
                 pstate'[q] = pstate[q] /\ pgrp'[q] = pgrp[q]
           /\ report' = report
           /\ Jobs \subseteq Pids /\ nextPid \notin Jobs /\ None \notin Jobs
           /\ \A h \in Jobs : h \notin Born(n)
           /\ nextPid \in Nat \ {0}
           /\ n # 0 => nextPid \in Born(n)
<1>1. nextPid \in Nat \ {0}
  BY JobControlAssumption DEF Inv3, Inv2, Inv1, TypeOK, KernelTypeOK
<1>2. ASSUME NEW q \in Pids, q \in Born(n)
      PROVE  jobOf[q] = None /\ q \notin completed \cup flagged
  <2>1. q >= nextPid
    BY <1>1, <1>2 DEF Born
  <2>2. jobOf[q] = None
    BY <2>1 DEF Inv3, Inv2, Inv1, Numbering
  <2> QED
    BY <2>2 DEF Inv3, FlagsListed
<1>3. /\ \A q \in Pids : q \in Born(n) => pstate'[q] = "running" /\ pgrp'[q] = group
      /\ \A q \in Pids : q \notin Born(n) => pstate'[q] = pstate[q] /\ pgrp'[q] = pgrp[q]
      /\ report' = report
  BY DEF Fork
<1>4. Jobs \subseteq Pids /\ None \notin Jobs
  BY DEF Inv3, Inv2, Inv1, TypeOK, TableTypeOK, None, Pids
<1>5. \A h \in Jobs : jobOf[h] = h
  BY DEF Inv3, LeaderListed
<1>6. \A h \in Jobs : h \notin Born(n)
  BY <1>2, <1>4, <1>5
<1>7. nextPid \notin Jobs
  BY <1>1 DEF Inv3, Inv2, Inv1, Numbering
<1>8. n # 0 => nextPid \in Born(n)
  BY <1>1 DEF Born
<1> QED
  BY <1>1, <1>2, <1>3, <1>4, <1>6, <1>7, <1>8

\* Listing freshly forked children as a job keeps Records.
LEMMA NewJobRecords ==
    ASSUME Inv3, NEW n \in Nat \ {0}, NEW claims, nextPid \in Pids,
           Fork(n, nextPid, claims), AddJob(n), strays' = strays, pc = "idle",
           ~(pc' \in {"wait", "waitpid"}) => waitJob' = None
    PROVE  Records'
<1>1. /\ \A q \in Pids : q \in Born(n) =>
            /\ jobOf[q] = None /\ q \notin completed \cup flagged
            /\ pstate'[q] = "running" /\ pgrp'[q] = nextPid
      /\ \A q \in Pids : q \notin Born(n) =>
            pstate'[q] = pstate[q] /\ pgrp'[q] = pgrp[q]
      /\ report' = report
      /\ Jobs \subseteq Pids /\ nextPid \notin Jobs /\ None \notin Jobs
      /\ \A h \in Jobs : h \notin Born(n)
      /\ nextPid \in Nat \ {0} /\ nextPid \in Born(n)
  BY NewbornUnlisted
<1>2. /\ Jobs' = Jobs \cup {nextPid}
      /\ \A h \in Jobs : jobs'[h] = jobs[h]
  BY AddJobTyped DEF Inv3, Inv2
<1>3. /\ jobOf' = [p \in Pids |-> IF p \in Born(n) THEN nextPid ELSE jobOf[p]]
      /\ jobs'[nextPid].status = "running"
      /\ completed' = completed /\ flagged' = flagged
  BY DEF AddJob
<1>4. /\ completed \subseteq Pids /\ flagged \subseteq Pids
      /\ \A q \in Pids : jobOf[q] \in Jobs \cup {None}
  BY DEF Inv3, Inv2, Inv1, TypeOK, TableTypeOK, MembersListed
<1>5. FlagsListed'
  BY <1>1, <1>3, <1>4 DEF Inv3, FlagsListed
<1>6. LeaderListed' /\ WaitsForNone'
  BY <1>1, <1>2, <1>3 DEF Inv3, LeaderListed, WaitsForNone
<1>7. MembersInGroup'
  BY <1>1, <1>3 DEF Inv3, MembersInGroup, IsChild
<1>8. DeathsRecorded'
  BY <1>1, <1>3 DEF Inv3, DeathsRecorded
<1>9. StopsRecorded'
  BY <1>1, <1>3 DEF Inv3, StopsRecorded, Alive
<1>10. StatusFromFlags'
  <2> SUFFICES ASSUME NEW h \in Jobs'
               PROVE  \/ jobs'[h].status = Recomputed(h, jobs[h].status, completed, flagged)'
                      \/ Members(h)' \subseteq completed' /\ jobs'[h].status = "running"
    BY DEF StatusFromFlags
  <2>1. CASE h = nextPid
    <3>1. \A q \in Members(h)' : q \notin completed' /\ q \notin flagged'
      BY <1>1, <1>3, <1>4, <2>1 DEF Members, None
    <3>2. h \in Members(h)'
      BY <1>1, <1>3, <2>1 DEF Members
    <3>3. Recomputed(h, jobs[h].status, completed, flagged)' = "running"
      BY <3>1, <3>2 DEF Recomputed
    <3> QED
      BY <1>3, <2>1, <3>3
  <2>2. CASE h # nextPid
    <3>1. h \in Jobs /\ jobs'[h] = jobs[h] /\ h # None
      BY <1>1, <1>2, <2>2
    <3>2. \A q \in Pids : jobOf'[q] = h <=> jobOf[q] = h
      BY <1>1, <1>3, <2>2, <3>1
    <3>3. Members(h)' = Members(h)
      BY <3>2 DEF Members
    <3>4. FromFlags(h, jobs[h].status, completed, flagged)
      BY <3>1 DEF Inv3, StatusFromFlags, FromFlags
    <3> QED
      BY <1>3, <3>1, <3>3, <3>4, StatusOfOne
  <2> QED
    BY <2>1, <2>2
<1>11. NoChildLost'
  <2> SUFFICES ASSUME NEW q \in Pids, IsChild(q)', q \notin strays
               PROVE  jobOf'[q] \in Jobs'
    BY DEF NoChildLost
  <2>1. CASE q \in Born(n)
    BY <1>2, <1>3, <2>1
  <2>2. CASE q \notin Born(n)
    <3>1. IsChild(q) /\ q # waitJob
      BY <1>1, <2>2 DEF IsChild, Inv3, WaitsForNone, None, Pids
    <3> QED
      BY <1>2, <1>3, <2>2, <3>1 DEF Inv3, NoChildLost
  <2> QED
    BY <2>1, <2>2
<1> QED
  BY <1>5, <1>6, <1>7, <1>8, <1>9, <1>10, <1>11 DEF Records

\* Forking children that no job lists keeps Records when they are accounted for
\* as strays or as the child launch_simple_job waits for.
LEMMA NoJobRecords ==
    ASSUME Inv3, NEW n \in Nat, NEW group, NEW claims, Fork(n, group, claims),
           UNCHANGED <<jobs, jobOf, completed, flagged>>, strays \subseteq strays',
           \A q \in Pids : q \in Born(n) => q \in strays' \/ q = waitJob',
           pc = "idle", ~(pc' \in {"wait", "waitpid"}) => waitJob' = None
    PROVE  Records'
<1>1. /\ \A q \in Pids : q \in Born(n) => jobOf[q] = None
      /\ \A q \in Pids : q \notin Born(n) =>
            pstate'[q] = pstate[q] /\ pgrp'[q] = pgrp[q]
      /\ report' = report
  BY NewbornUnlisted
<1>2. Jobs' = Jobs /\ \A h \in Jobs : Members(h)' = Members(h)
  BY DEF Jobs, Members
<1>3. FlagsListed' /\ LeaderListed' /\ WaitsForNone'
  BY <1>2 DEF Inv3, FlagsListed, LeaderListed, WaitsForNone
<1>4. MembersInGroup' /\ DeathsRecorded' /\ StopsRecorded'
  BY <1>1 DEF Inv3, MembersInGroup, DeathsRecorded, StopsRecorded, IsChild, Alive
<1>5. StatusFromFlags'
  <2>1. \A h \in Jobs' : FromFlags(h, jobs'[h].status, completed', flagged')
    BY <1>2 DEF Inv3, StatusFromFlags, FromFlags
  <2> QED
    BY <1>2, <2>1, StatusFromFlagsAgain
<1>6. NoChildLost'
  <2> SUFFICES ASSUME NEW q \in Pids, IsChild(q)', q \notin strays', q # waitJob'
               PROVE  jobOf[q] \in Jobs
    BY <1>2 DEF NoChildLost
  <2>1. q \notin Born(n) /\ IsChild(q)
    BY <1>1 DEF IsChild
  <2>2. q # waitJob
    BY DEF Inv3, WaitsForNone, None, Pids
  <2> QED
    BY <2>1, <2>2 DEF Inv3, NoChildLost
<1> QED
  BY <1>3, <1>4, <1>5, <1>6 DEF Records

-------------------------------------------------------------------------------
(* Every step keeps the records.                                           *)

\* A report collected by job_wait is recorded in the table.
LEMMA WaitReapedReaps ==
    ASSUME Inv3, NEW p \in Pids, WaitReaped(p)
    PROVE  \E jb, gone : Reaps(p, jb, gone)
<1> DEFINE w == ReportOf(p)
           h == waitJob
           after == JobsAfter(h, p, w)
<1>1. /\ pc = "wait" /\ h \in Jobs /\ Collect(p) /\ Waitable(p, TRUE)
      /\ IsChild(p) /\ pgrp[p] = h
  BY DEF WaitReaped, Inv3, Inv2, Inv1, WaitTracked, Waitable, Group
<1>2. jobOf[p] = h
  BY <1>1 DEF Inv3, Inv2, GroupIsJob
<1>3. /\ DOMAIN after = Jobs /\ after \in [Jobs -> Job]
      /\ after[h].status = StatusAfter(h, p, w)
  BY <1>1, ApplyTyped, ReportTyped DEF Inv3, Inv2, Inv1
<1> HIDE DEF after
<1>4. CASE StatusAfter(h, p, w) = "running"
  <2>1. ApplyStatus(h, p, w) /\ UNCHANGED <<pc, waitJob>>
    BY <1>4 DEF WaitReaped, shell
  <2>2. Reaps(p, after, {})
    BY <1>1, <1>2, <1>3, <2>1 DEF Reaps, ApplyStatus, after
  <2> QED
    BY <2>2
<1>5. CASE StatusAfter(h, p, w) # "running"
  <2>1. PICK r : EndForeground(h, after, CompletedAfter(p, w),
                    FlaggedAfter(p, w), WstatusAfter(p, w), r)
    BY <1>5 DEF WaitReaped, after
  <2>2. pc' = "idle" /\ waitJob' = None
    BY <2>1 DEF EndForeground, Return
  <2>3. CASE StatusAfter(h, p, w) = "stopped"
    <3> DEFINE kept == [after EXCEPT ![h].notified = FALSE]
    <3>1. SetTable(kept, CompletedAfter(p, w), FlaggedAfter(p, w),
                   WstatusAfter(p, w), current, {})
      BY <1>3, <2>1, <2>3 DEF EndForeground
    <3>2. DOMAIN kept = Jobs /\ \A g \in Jobs : kept[g].status = after[g].status
      BY <1>1, <1>3 DEF Job
    <3> HIDE DEF kept
    <3>3. Reaps(p, kept, {})
      BY <1>1, <1>2, <2>2, <3>1, <3>2 DEF Reaps, after
    <3> QED
      BY <3>3
  <2>4. CASE StatusAfter(h, p, w) # "stopped"
    <3>1. SetTable(after, CompletedAfter(p, w), FlaggedAfter(p, w),
                   WstatusAfter(p, w), current, {h})
      BY <1>3, <2>1, <2>4 DEF EndForeground
    <3>2. Reaps(p, after, {h})
      BY <1>1, <1>2, <1>3, <1>5, <2>2, <2>4, <3>1 DEF Reaps, after
    <3> QED
      BY <3>2
  <2> QED
    BY <2>3, <2>4
<1> QED
  BY <1>4, <1>5

\* A report collected by job_update_statuses is recorded, or is of no job.
LEMMA UpdateReapedShape ==
    ASSUME Inv3, NEW p \in Pids, UpdateReaped(p)
    PROVE  Lives \/ \E jb, gone : Reaps(p, jb, gone)
<1>1. /\ pc = "update" /\ Waitable(p, TRUE) /\ Collect(p)
      /\ UNCHANGED <<pc, waitJob>>
  BY DEF UpdateReaped, shell
<1>2. CASE jobOf[p] = None
  <2>1. UNCHANGED table /\ waitJob = None
    BY <1>1, <1>2 DEF UpdateReaped, Inv3, WaitsForNone
  <2> QED
    BY <1>1, <1>2, <2>1, UnlistedLives
<1>3. CASE jobOf[p] # None
  <2>1. ApplyStatus(jobOf[p], p, ReportOf(p)) /\ jobOf[p] \in Jobs
    BY <1>3 DEF UpdateReaped, Inv3, Inv2, Inv1, MembersListed
  <2>2. DOMAIN JobsAfter(jobOf[p], p, ReportOf(p)) = Jobs
    BY <2>1, ApplyTyped, ReportTyped DEF Inv3, Inv2, Inv1
  <2>3. Reaps(p, JobsAfter(jobOf[p], p, ReportOf(p)), {})
    BY <1>1, <2>1, <2>2 DEF Reaps, ApplyStatus
  <2> QED
    BY <2>3
<1> QED
  BY <1>2, <1>3

\* The child launch_simple_job collects belongs to no job.
LEMMA PlainReapedLives ==
    ASSUME Inv3, NEW p \in Pids, PlainReaped(p)
    PROVE  Lives
<1>1. /\ pc = "waitpid" /\ p = waitJob /\ pstate[p] = "zombie" /\ Collect(p)
      /\ UNCHANGED table /\ pc' = "idle" /\ waitJob' = None
  BY DEF PlainReaped, Return
<1>2. jobOf[p] = None /\ Waitable(p, TRUE)
  BY <1>1 DEF Inv3, Inv2, Inv1, WaitTracked, Waitable
<1> QED
  BY <1>1, <1>2, UnlistedLives

\* How a use of SetTable that leaves the flags settles.
LEMMA SetTableSettles ==
    ASSUME Inv3, NEW jb, NEW cur, NEW gone, DOMAIN jb = Jobs, gone \subseteq Jobs,
           \A h \in Jobs : jb[h].status = jobs[h].status,
           SetTable(jb, completed, flagged, wstatus, cur, gone),
           UNCHANGED <<pstate, report, pgrp>>, strays \subseteq strays',
           \A q \in Pids : jobOf[q] \in gone /\ IsChild(q) =>
              q \in strays' \/ pc' = "exited",
           pc # "exited", ~(pc' \in {"wait", "waitpid"}) => waitJob' = None,
           waitJob' = waitJob \/ waitJob \in Jobs
    PROVE  Settles(gone)
<1>1. /\ Jobs' = Jobs \ gone
      /\ \A h \in Jobs' : jobs'[h] = jb[h]
      /\ \A p \in Pids : jobOf'[p] = IF jobOf[p] \in gone THEN None ELSE jobOf[p]
      /\ \A p \in Pids : p \in completed' <=> p \in completed /\ jobOf[p] \notin gone
      /\ \A p \in Pids : p \in flagged' <=> p \in flagged /\ jobOf[p] \notin gone
      /\ completed' \subseteq completed /\ flagged' \subseteq flagged
  BY ListsAfter DEF Inv3
<1>2. completed \subseteq Pids /\ flagged \subseteq Pids
  BY DEF Inv3, Inv2, Inv1, TypeOK, TableTypeOK
<1> QED
  BY <1>1, <1>2 DEF Settles

\* job_wait giving up derives no status; a child it leaves unlisted is a stray.
LEMMA WaitEndsSettles ==
    ASSUME Inv3, WaitNoChild \/ WaitInterrupted
    PROVE  \E gone : Settles(gone)
<1>1. /\ pc = "wait" /\ waitJob \in Jobs /\ UNCHANGED <<pstate, report, pgrp>>
      /\ strays \subseteq strays'
  BY DEF WaitNoChild, WaitInterrupted, Inv3, Inv2, Inv1, WaitTracked, kernel
<1>2. PICK r : EndForeground(waitJob, jobs, completed, flagged, wstatus, r)
  BY DEF WaitNoChild, WaitInterrupted
<1>3. pc' = "idle" /\ waitJob' = None
  BY <1>2 DEF EndForeground, Return
<1>4. \A q \in Pids : jobOf[q] = waitJob /\ IsChild(q) => q \in strays'
  <2>1. CASE WaitNoChild
    <3>1. Group(waitJob) = {} /\ strays' = strays
      BY <2>1 DEF WaitNoChild
    <3>2. waitJob # None
      BY <1>1 DEF Inv3, Inv2, Inv1, TypeOK, TableTypeOK, None, Pids
    <3> QED
      BY <3>1, <3>2 DEF Inv3, MembersInGroup, Group
  <2>2. CASE WaitInterrupted
    BY <2>2 DEF WaitInterrupted, Members
  <2> QED
    BY <2>1, <2>2
<1>5. jobs \in [Jobs -> Job] /\ DOMAIN jobs = Jobs
  BY DEF Inv3, Inv2, Inv1, TypeOK, TableTypeOK
<1>6. CASE jobs[waitJob].status = "stopped"
  <2> DEFINE kept == [jobs EXCEPT ![waitJob].notified = FALSE]
  <2>1. SetTable(kept, completed, flagged, wstatus, current, {})
    BY <1>2, <1>6 DEF EndForeground
  <2>2. DOMAIN kept = Jobs /\ \A h \in Jobs : kept[h].status = jobs[h].status
    BY <1>5 DEF Job
  <2> HIDE DEF kept
  <2>3. Settles({})
    BY <1>1, <1>3, <2>1, <2>2, SetTableSettles
  <2> QED
    BY <2>3
<1>7. CASE jobs[waitJob].status # "stopped"
  <2>1. SetTable(jobs, completed, flagged, wstatus, current, {waitJob})
    BY <1>2, <1>7 DEF EndForeground
  <2>2. Settles({waitJob})
    BY <1>1, <1>3, <1>4, <1>5, <2>1, SetTableSettles
  <2> QED
    BY <2>2
<1> QED
  BY <1>6, <1>7

\* job_notify removes finished jobs and derives no status.
LEMMA NotifySettles ==
    ASSUME Inv3, Notify
    PROVE  \E left : Settles(left)
<1> DEFINE gone == {h \in Jobs : Finished(h)}
           news == {h \in Jobs : jobs[h].status # "running" /\ ~jobs[h].notified}
           jb == [h \in Jobs |-> [jobs[h] EXCEPT !.notified = @ \/ h \in news]]
<1>1. /\ SetTable(jb, completed, flagged, wstatus, current, gone)
      /\ UNCHANGED <<pstate, report, pgrp>> /\ strays' = strays
      /\ pc = "update" /\ pc' = "idle" /\ waitJob' = None
  BY DEF Notify, Updated, Return, kernel
<1>2. DOMAIN jb = Jobs /\ \A h \in Jobs : jb[h].status = jobs[h].status
  BY DEF Inv3, Inv2, Inv1, TypeOK, TableTypeOK, Job
<1>3. \A h \in gone : h # None /\ Members(h) \subseteq completed
  BY DEF Finished, Inv3, StatusFromFlags, Recomputed, Inv2, Inv1, TypeOK,
         TableTypeOK, None, Pids
<1>4. \A q \in Pids : jobOf[q] \in gone /\ IsChild(q) => q \in strays'
  BY <1>1, <1>3 DEF Members, Inv3, DeathsRecorded, IsChild
<1>5. waitJob = None /\ gone \subseteq Jobs
  BY <1>1 DEF Inv3, WaitsForNone
<1> HIDE DEF gone, news, jb
<1>6. Settles(gone)
  BY <1>1, <1>2, <1>4, <1>5, SetTableSettles
<1> QED
  BY <1>6

\* job_control_cleanup removes every job.
LEMMA ShellExitsSettles ==
    ASSUME Inv3, ShellExits
    PROVE  \E gone : Settles(gone)
<1>1. /\ SetTable(jobs, completed, flagged, wstatus, None, Jobs)
      /\ UNCHANGED <<pstate, report, pgrp>> /\ strays' = strays
      /\ pc = "idle" /\ pc' = "exited" /\ waitJob' = waitJob /\ waitJob = None
  BY DEF ShellExits, Inv3, WaitsForNone, kernel
<1>2. DOMAIN jobs = Jobs
  BY DEF Jobs
<1>3. Settles(Jobs)
  BY <1>1, <1>2, SetTableSettles
<1> QED
  BY <1>3

\* A step that leaves flags and statuses alone removes nothing.
LEMMA TableKeptSettles ==
    ASSUME Inv3, StartUpdate \/ NoSuchJob \/ ListJobs \/ Exited \/ UNCHANGED vars
    PROVE  Settles({})
<1>1. /\ UNCHANGED <<jobOf, completed, flagged>>
      /\ UNCHANGED <<pstate, report, pgrp, strays>>
  BY DEF StartUpdate, NoSuchJob, ListJobs, Exited, vars, kernel, table
<1>2. Jobs' = Jobs /\ \A h \in Jobs : jobs'[h].status = jobs[h].status
  <2>1. CASE ListJobs
    BY <2>1 DEF ListJobs, Jobs, Inv3, Inv2, Inv1, TypeOK, TableTypeOK, Job
  <2>2. CASE ~ListJobs
    BY <2>2 DEF StartUpdate, NoSuchJob, Exited, vars, table, Jobs
  <2> QED
    BY <2>1, <2>2
<1>3. /\ pc = "exited" => pc' = "exited"
      /\ ~(pc' \in {"wait", "waitpid"}) => waitJob' = None
      /\ waitJob' = waitJob
  BY DEF StartUpdate, NoSuchJob, ListJobs, Exited, vars, shell, Updated, Return,
         Inv3, WaitsForNone
<1>4. Settles({})
  BY <1>1, <1>2, <1>3, NothingSettles
<1> QED
  BY <1>4

\* fg, bg and kill differ, for Records, only in whether they mark the job.
LEMMA BuiltinContinues ==
    ASSUME NEW h \in Jobs,
           ContinueForeground(h) \/ ContinueBackground(h) \/ KillJob(h)
    PROVE  Continues(h)
BY DEF Continues, ContinueForeground, ContinueBackground, KillJob, Updated,
       Return, WaitFor

Launches ==
    \/ \E n \in 1..MaxStages : LaunchForeground(n)
    \/ LaunchPlain \/ LaunchBackground
    \/ \E k \in 0..(MaxStages - 1) : PipelineForkFails(k)

\* Every launcher keeps Records.
LEMMA LaunchRecords ==
    ASSUME Inv3, Launches
    PROVE  Records'
<1>1. ASSUME NEW n \in 1..MaxStages, LaunchForeground(n) PROVE Records'
  <2>1. /\ Fork(n, nextPid, Interactive) /\ AddJob(n) /\ strays' = strays
        /\ pc = "idle" /\ pc' = "wait"
    BY <1>1 DEF LaunchForeground, WaitFor
  <2>2. n \in Nat \ {0}
    BY JobControlAssumption
  <2>3. nextPid \in Pids
    BY <2>1, <2>2, JobControlAssumption
       DEF Fork, Inv3, Inv2, Inv1, TypeOK, KernelTypeOK, Pids
  <2> QED
    BY <2>1, <2>2, <2>3, NewJobRecords
<1>2. CASE LaunchBackground
  <2>1. /\ Fork(1, nextPid, FALSE) /\ AddJob(1) /\ strays' = strays
        /\ pc = "idle" /\ waitJob' = None
    BY <1>2 DEF LaunchBackground, Return
  <2>2. nextPid \in Pids
    BY <2>1, JobControlAssumption
       DEF Fork, Inv3, Inv2, Inv1, TypeOK, KernelTypeOK, Pids
  <2>3. 1 \in Nat \ {0}
    OBVIOUS
  <2> QED
    BY <2>1, <2>2, <2>3, NewJobRecords
<1>3. CASE LaunchPlain
  <2>1. /\ Fork(1, None, FALSE) /\ UNCHANGED <<jobs, jobOf, completed, flagged>>
        /\ strays \subseteq strays' /\ pc = "idle" /\ pc' = "waitpid"
        /\ waitJob' = nextPid
    BY <1>3 DEF LaunchPlain, table
  <2>2. \A q \in Pids : q \in Born(1) => q = waitJob'
    BY <2>1, JobControlAssumption
       DEF Born, Inv3, Inv2, Inv1, TypeOK, KernelTypeOK, Pids
  <2> QED
    BY <2>1, <2>2, NoJobRecords
<1>4. ASSUME NEW k \in 0..(MaxStages - 1), PipelineForkFails(k) PROVE Records'
  <2>1. /\ Fork(k, nextPid, Interactive /\ k > 0)
        /\ UNCHANGED <<jobs, jobOf, completed, flagged>>
        /\ strays' = strays \cup Born(k) /\ pc = "idle" /\ waitJob' = None
    BY <1>4 DEF PipelineForkFails, Return
  <2>2. k \in Nat
    BY JobControlAssumption
  <2> QED
    BY <2>1, <2>2, NoJobRecords
<1> QED
  BY <1>1, <1>2, <1>3, <1>4 DEF Launches

\* Inv3 holds when job_control_init returns.
LEMMA InitInv3 ==
    ASSUME Init
    PROVE  Inv3
<1>1. Inv2 /\ Jobs = {}
  BY InitInv2 DEF Init, Jobs
<1> QED
  BY <1>1 DEF Init, Inv3, FlagsListed, LeaderListed, MembersInGroup, WaitsForNone,
              DeathsRecorded, StopsRecorded, StatusFromFlags, NoChildLost, IsChild

\* Every step is of one of these shapes.
LEMMA StepShape ==
    ASSUME Inv3, [Next]_vars
    PROVE  \/ Launches
           \/ Lives
           \/ \E p \in Pids : \E jb, gone : Reaps(p, jb, gone)
           \/ \E gone : Settles(gone)
           \/ \E h \in Jobs : Continues(h)
<1>1. CASE Children
  BY <1>1, ChildrenLive
<1>2. CASE Command
  BY <1>2, TableKeptSettles, ShellExitsSettles DEF Command, Launches
<1>3. CASE Waiting \/ WaitInterrupted
  BY <1>3, WaitEndsSettles, PlainReapedLives, WaitReapedReaps DEF Waiting
<1>4. CASE Update
  BY <1>4, NotifySettles, TableKeptSettles, UpdateReapedShape, BuiltinContinues
     DEF Update
<1>5. CASE Exited \/ UNCHANGED vars
  BY <1>5, TableKeptSettles
<1> QED
  BY <1>1, <1>2, <1>3, <1>4, <1>5 DEF Next

\* Every step keeps Inv3: one lemma for each shape of step.
LEMMA StepInv3 ==
    ASSUME Inv3, Inv2', [Next]_vars
    PROVE  Inv3'
BY StepShape, LaunchRecords, LivesRecords, ReapsRecords, SettlesRecords,
   ContinuesRecords DEF Records, Inv3

\* In every reachable state the flags and statuses of the table are the ones the
\* reports collected so far call for: Inv3 is an invariant of the shell.
THEOREM Inv3Holds == Spec => []Inv3
BY Inv2Holds, InitInv3, StepInv3, PTL DEF Spec

\* Reaping is recorded: every reaped child still in the table has its completed
\* flag, and a live one has it only after the SIGCONT confusion.
THEOREM DeathsAreRecorded == Spec => []DeathsRecorded
<1>1. Inv3 => DeathsRecorded
  BY DEF Inv3
<1> QED
  BY <1>1, Inv3Holds, PTL

\* The stopped flag agrees with the kernel between two reports.
THEOREM StopsAreRecorded == Spec => []StopsRecorded
<1>1. Inv3 => StopsRecorded
  BY DEF Inv3
<1> QED
  BY <1>1, Inv3Holds, PTL

\* A job's status is the one its stages' flags give, but for fg or bg on a
\* finished job.
THEOREM StatusIsDerived == Spec => []StatusFromFlags
<1>1. Inv3 => StatusFromFlags
  BY DEF Inv3
<1> QED
  BY <1>1, Inv3Holds, PTL

\* No child leaves the shell's books before it is reaped, but in the four ways
\* NoChildLost names.
THEOREM NobodyIsLost == Spec => []NoChildLost
<1>1. Inv3 => NoChildLost
  BY DEF Inv3
<1> QED
  BY <1>1, Inv3Holds, PTL

-------------------------------------------------------------------------------
(* What is freed has ended.                                                *)

\* A process on a list has been forked.
ListedBorn == \A p \in Pids : jobOf[p] # None => pstate[p] # "unborn"

\* A listed child stays born.
LEMMA StepListedBorn ==
    ASSUME Inv3, ListedBorn, [Next]_vars
    PROVE  ListedBorn'
<1>1. pstate \in [Pids -> PStates]
  BY DEF Inv3, Inv2, Inv1, TypeOK, KernelTypeOK
<1>2. CASE Launches
  <2>1. ASSUME NEW n, NEW group, NEW claims, Fork(n, group, claims),
               AddJob(n) \/ UNCHANGED jobOf
        PROVE  ListedBorn'
    BY <2>1 DEF Fork, AddJob, ListedBorn
  <2>2. \E n, group, claims : Fork(n, group, claims) /\ (AddJob(n) \/ UNCHANGED jobOf)
    BY <1>2 DEF Launches, LaunchForeground, LaunchPlain, LaunchBackground,
                PipelineForkFails, table
  <2> QED
    BY <2>1, <2>2
<1>3. CASE Lives
  BY <1>3 DEF Lives, table, ListedBorn
<1>4. ASSUME NEW p \in Pids, NEW jb, NEW gone, Reaps(p, jb, gone) PROVE ListedBorn'
  <2>1. \A q \in Pids : pstate'[q] = "unborn" => pstate[q] = "unborn"
    BY <1>1, <1>4 DEF Reaps, Collect
  <2>2. \A q \in Pids : jobOf'[q] = IF jobOf[q] \in gone THEN None ELSE jobOf[q]
    BY <1>4 DEF Reaps, SetTable
  <2> QED
    BY <2>1, <2>2 DEF ListedBorn
<1>5. ASSUME NEW gone, Settles(gone) PROVE ListedBorn'
  BY <1>5 DEF Settles, ListedBorn
<1>6. ASSUME NEW h \in Jobs, Continues(h) PROVE ListedBorn'
  <2>1. \A q \in Pids : pstate'[q] = "unborn" => pstate[q] = "unborn"
    BY <1>6 DEF Continues, ContinueGroup, kernel
  <2>2. jobOf' = jobOf
    BY <1>6 DEF Continues, MarkRunning, table
  <2> QED
    BY <2>1, <2>2 DEF ListedBorn
<1> QED
  BY <1>2, <1>3, <1>4, <1>5, <1>6, StepShape

FreedEnded ==
    \A h \in Jobs : h \notin Jobs' /\ pc' # "exited" =>
        \A p \in Members(h) : pstate'[p] = "reaped" \/ p \in strays'

\* Recording a report frees only a job whose stages have all ended.
LEMMA ReapsFrees ==
    ASSUME Inv3, NEW p \in Pids, NEW jb, NEW gone, Reaps(p, jb, gone)
    PROVE  FreedEnded
<1> DEFINE w == ReportOf(p)
           comp == CompletedAfter(p, w)
<1>1. /\ gone \subseteq {jobOf[p]} /\ jobOf[p] \in Jobs /\ jobOf[p] # None
      /\ Jobs' = Jobs \ gone
      /\ gone # {} => StatusAfter(jobOf[p], p, w) \notin {"running", "stopped"}
  BY DEF Reaps, SetTable, Jobs, Inv3, Inv2, Inv1, TypeOK, TableTypeOK, None, Pids
<1>2. gone # {} => Members(jobOf[p]) \subseteq comp
  BY <1>1, RecomputedStable DEF StatusAfter
<1>3. /\ \/ pstate[p] = "zombie" /\ pstate'[p] = "reaped" /\ w # "stopped"
         \/ /\ pstate[p] = "stopped" /\ pstate'[p] = "stopped"
            /\ w = "stopped" /\ report'[p] = "none" /\ pgrp'[p] = pgrp[p]
            /\ p \in strays' <=> p \in strays
         \/ /\ pstate[p] = "running" /\ pstate'[p] = "running"
            /\ w = "continued" /\ pgrp'[p] = pgrp[p]
            /\ jobOf[p] # None => p \in strays'
            /\ p \in strays => p \in strays'
      /\ \A q \in Pids \ {p} :
            /\ pstate'[q] = pstate[q] /\ report'[q] = report[q]
            /\ pgrp'[q] = pgrp[q] /\ (q \in strays' <=> q \in strays)
  BY CollectCases DEF Reaps, Inv3, Inv2, Inv1
<1>4. /\ comp \subseteq completed \cup {p}
      /\ w = "stopped" => comp = completed
  BY DEF CompletedAfter
<1> HIDE DEF w, comp
<1> SUFFICES ASSUME NEW h \in Jobs, h \notin Jobs', NEW q \in Members(h)
             PROVE  pstate'[q] = "reaped" \/ q \in strays'
  BY DEF FreedEnded
<1>5. h = jobOf[p] /\ q \in comp /\ q \in Pids /\ jobOf[q] # None
  BY <1>1, <1>2 DEF Members
<1>6. q \in completed => pstate[q] = "reaped" \/ q \in strays
  BY <1>5 DEF Inv3, DeathsRecorded
<1>7. CASE q = p
  BY <1>3, <1>4, <1>5, <1>6, <1>7
<1>8. CASE q # p
  BY <1>3, <1>4, <1>5, <1>6, <1>8
<1> QED
  BY <1>7, <1>8

\* No step but job_control_cleanup frees a job with a living stage.
LEMMA StepFrees ==
    ASSUME Inv3, ListedBorn, [Next]_vars
    PROVE  FreedEnded
<1>1. pstate \in [Pids -> PStates] /\ None \notin Jobs
  BY DEF Inv3, Inv2, Inv1, TypeOK, KernelTypeOK, TableTypeOK, None, Pids
<1>2. CASE Jobs \subseteq Jobs'
  BY <1>2 DEF FreedEnded
<1>3. CASE Launches
  <2>1. ASSUME NEW n, AddJob(n) \/ UNCHANGED jobs PROVE Jobs \subseteq Jobs'
    BY <2>1 DEF AddJob, Jobs
  <2> QED
    BY <1>2, <1>3, <2>1 DEF Launches, LaunchForeground, LaunchPlain,
       LaunchBackground, PipelineForkFails, table
<1>4. CASE Lives
  BY <1>2, <1>4 DEF Lives, table, Jobs
<1>5. ASSUME NEW gone, Settles(gone) PROVE FreedEnded
  <2> SUFFICES ASSUME NEW h \in Jobs, h \notin Jobs', pc' # "exited",
                      NEW q \in Members(h)
               PROVE  pstate'[q] = "reaped" \/ q \in strays'
    BY DEF FreedEnded
  <2>1. q \in Pids /\ jobOf[q] \in gone /\ jobOf[q] # None /\ pstate' = pstate
    BY <1>1, <1>5 DEF Settles, Members
  <2>2. pstate[q] # "unborn" /\ pstate[q] \in PStates
    BY <1>1, <2>1 DEF ListedBorn
  <2>3. IsChild(q) => q \in strays'
    BY <1>5, <2>1 DEF Settles
  <2> QED
    BY <2>1, <2>2, <2>3 DEF IsChild, PStates
<1>6. ASSUME NEW h \in Jobs, Continues(h) PROVE FreedEnded
  BY <1>2, <1>6 DEF Continues, MarkRunning, table, Jobs
<1> QED
  BY <1>3, <1>4, <1>5, <1>6, ReapsFrees, StepShape

\* job_add_process lists only children that fork has returned.
THEOREM ListedBornHolds == Spec => []ListedBorn
<1>1. Init => ListedBorn
  BY DEF Init, ListedBorn
<1> QED
  BY <1>1, Inv3Holds, StepListedBorn, PTL DEF Spec

\* Job control frees an entry only when every stage of the job has been reaped
\* or lost in a way NoChildLost names, or when the shell exits.
THEOREM FreedOnlyWhenFinished == Spec => FreedWhenFinished
<1>1. Inv3 /\ ListedBorn /\ [Next]_vars => [FreedEnded]_vars
  BY StepFrees
<1>2. [FreedEnded]_vars =>
      [\A h \in Jobs : h \notin Jobs' /\ pc' # "exited" =>
          \A p \in Members(h) : pstate'[p] = "reaped" \/ p \in strays']_vars
  BY DEF FreedEnded
<1> QED
  BY <1>1, <1>2, Inv3Holds, ListedBornHolds, PTL DEF Spec, FreedWhenFinished

-------------------------------------------------------------------------------
(* The result of a wait.                                                   *)

\* A zombie has died of something, and a stage of a job that was reaped has had
\* its death stored in t_process.status.
FatesKnown ==
    \A p \in Pids :
        /\ pstate[p] = "zombie" => death[p] \in Deaths
        /\ jobOf[p] # None /\ pstate[p] = "reaped" => wstatus[p] \in Deaths

\* SetTable keeps the status of what it leaves on a list.
LEMMA SetTableFates ==
    ASSUME FatesKnown, NEW jb, NEW comp, NEW flag, NEW cur, NEW gone,
           SetTable(jb, comp, flag, wstatus, cur, gone),
           \A q \in Pids : /\ pstate'[q] = "zombie" => pstate[q] = "zombie"
                           /\ pstate'[q] = "reaped" => pstate[q] = "reaped"
                           /\ death'[q] = death[q]
    PROVE  FatesKnown'
BY DEF SetTable, FatesKnown

\* A collected report that job_apply_status has stored keeps FatesKnown.
LEMMA CollectFates ==
    ASSUME TypeOK, FatesKnown, NEW p \in Pids, Waitable(p, TRUE), Collect(p),
           NEW jb, NEW comp, NEW flag, NEW cur, NEW gone,
           SetTable(jb, comp, flag, WstatusAfter(p, ReportOf(p)), cur, gone)
    PROVE  FatesKnown'
<1>1. /\ pstate \in [Pids -> PStates] /\ death \in [Pids -> Deaths \cup {"none"}]
      /\ wstatus \in [Pids -> Deaths \cup Reports]
  BY DEF TypeOK, KernelTypeOK, TableTypeOK
<1>2. /\ pstate[p] = "zombie" => pstate' = [pstate EXCEPT ![p] = "reaped"]
                                 /\ death' = [death EXCEPT ![p] = "none"]
                                 /\ ReportOf(p) = death[p]
      /\ pstate[p] # "zombie" => UNCHANGED <<pstate, death>>
  BY DEF Collect, ReportOf
<1>3. \A q \in Pids : jobOf'[q] # None => jobOf[q] = jobOf'[q]
                         /\ wstatus'[q] = IF q = p THEN ReportOf(p) ELSE wstatus[q]
  BY <1>1 DEF SetTable, WstatusAfter
<1> SUFFICES ASSUME NEW q \in Pids
             PROVE  /\ pstate'[q] = "zombie" => death'[q] \in Deaths
                    /\ jobOf'[q] # None /\ pstate'[q] = "reaped" => wstatus'[q] \in Deaths
  BY DEF FatesKnown
<1>4. CASE q = p
  BY <1>1, <1>2, <1>3, <1>4 DEF FatesKnown, Waitable
<1>5. CASE q # p
  BY <1>1, <1>2, <1>3, <1>5 DEF FatesKnown
<1> QED
  BY <1>4, <1>5

\* Every step keeps FatesKnown.
LEMMA StepFates ==
    ASSUME Inv3, FatesKnown, [Next]_vars
    PROVE  FatesKnown'
<1>1. /\ TypeOK /\ pstate \in [Pids -> PStates]
      /\ death \in [Pids -> Deaths \cup {"none"}]
  BY DEF Inv3, Inv2, Inv1, TypeOK, KernelTypeOK
<1>2. ASSUME UNCHANGED <<jobOf, wstatus>>,
             \A q \in Pids : /\ pstate'[q] = "zombie" => pstate[q] = "zombie"
                             /\ pstate'[q] = "reaped" => pstate[q] = "reaped"
                             /\ death'[q] = death[q]
      PROVE  FatesKnown'
  BY <1>2 DEF FatesKnown
<1>3. CASE Children
  <2> PICK p \in Pids : \/ ChildClaims(p) \/ ChildStops(p) \/ ChildContinues(p)
                        \/ ChildLeavesGroup(p) \/ \E d \in Deaths : ChildDies(p, d)
    BY <1>3 DEF Children
  <2>1. UNCHANGED <<jobOf, wstatus>>
    BY DEF ChildClaims, ChildStops, ChildContinues, ChildLeavesGroup, ChildDies,
           Outsider, table
  <2>2. ASSUME NEW d \in Deaths, ChildDies(p, d) PROVE FatesKnown'
    BY <1>1, <2>1, <2>2 DEF ChildDies, FatesKnown
  <2>3. CASE ChildClaims(p) \/ ChildStops(p) \/ ChildContinues(p) \/ ChildLeavesGroup(p)
    BY <1>1, <1>2, <2>1, <2>3
       DEF ChildClaims, ChildStops, ChildContinues, ChildLeavesGroup
  <2> QED
    BY <2>2, <2>3
<1>4. CASE Launches
  <2>1. ASSUME NEW n, NEW group, NEW claims, Fork(n, group, claims),
               AddJob(n) \/ UNCHANGED <<jobOf, wstatus>>
        PROVE  FatesKnown'
    BY <2>1 DEF Fork, AddJob, FatesKnown
  <2>2. \E n, group, claims :
           Fork(n, group, claims) /\ (AddJob(n) \/ UNCHANGED <<jobOf, wstatus>>)
    BY <1>4 DEF Launches, LaunchForeground, LaunchPlain, LaunchBackground,
                PipelineForkFails, table
  <2> QED
    BY <2>1, <2>2
<1>5. ASSUME NEW p \in Pids, Collect(p), UNCHANGED table, jobOf[p] = None
      PROVE  FatesKnown'
  BY <1>1, <1>5 DEF Collect, table, FatesKnown
<1>6. CASE WaitNoChild \/ WaitInterrupted
  <2>1. UNCHANGED <<pstate, death>>
    BY <1>6 DEF WaitNoChild, WaitInterrupted, kernel
  <2>2. \E jb, gone : SetTable(jb, completed, flagged, wstatus, current, gone)
    BY <1>6 DEF WaitNoChild, WaitInterrupted, EndForeground
  <2> QED
    BY <2>1, <2>2, SetTableFates
<1>7. ASSUME NEW p \in Pids, PlainReaped(p) PROVE FatesKnown'
  <2>1. Collect(p) /\ UNCHANGED table /\ jobOf[p] = None
    BY <1>7 DEF PlainReaped, Inv3, Inv2, Inv1, WaitTracked
  <2> QED
    BY <1>5, <2>1
<1>8. ASSUME NEW p \in Pids, WaitReaped(p) PROVE FatesKnown'
  <2>1. PICK jb, comp, flag, gone :
           SetTable(jb, comp, flag, WstatusAfter(p, ReportOf(p)), current, gone)
    BY <1>8 DEF WaitReaped, ApplyStatus, EndForeground
  <2>2. Collect(p) /\ Waitable(p, TRUE)
    BY <1>8 DEF WaitReaped, Waitable
  <2> QED
    BY <1>1, <2>1, <2>2, CollectFates
<1>9. ASSUME NEW p \in Pids, UpdateReaped(p) PROVE FatesKnown'
  <2>1. Collect(p) /\ Waitable(p, TRUE)
    BY <1>9 DEF UpdateReaped
  <2>2. CASE jobOf[p] = None
    BY <1>5, <1>9, <2>1, <2>2 DEF UpdateReaped
  <2>3. CASE jobOf[p] # None
    <3>1. PICK jb, comp, flag :
             SetTable(jb, comp, flag, WstatusAfter(p, ReportOf(p)), current, {})
      BY <1>9, <2>3 DEF UpdateReaped, ApplyStatus
    <3> QED
      BY <1>1, <2>1, <3>1, CollectFates
  <2> QED
    BY <2>2, <2>3
<1>10. CASE Notify \/ ShellExits
  <2>1. UNCHANGED <<pstate, death>>
    BY <1>10 DEF Notify, ShellExits, kernel
  <2>2. \E jb, cur, gone : SetTable(jb, completed, flagged, wstatus, cur, gone)
    BY <1>10 DEF Notify, ShellExits
  <2> QED
    BY <2>1, <2>2, SetTableFates
<1>11. CASE StartUpdate \/ ListJobs \/ NoSuchJob \/ Exited \/ UNCHANGED vars
  BY <1>2, <1>11 DEF StartUpdate, ListJobs, NoSuchJob, Exited, vars, kernel, table
<1>12. ASSUME NEW h \in Jobs,
              ContinueForeground(h) \/ ContinueBackground(h) \/ KillJob(h)
       PROVE  FatesKnown'
  <2>1. Continues(h)
    BY <1>12, BuiltinContinues
  <2>2. UNCHANGED <<jobOf, wstatus>>
    BY <2>1 DEF Continues, MarkRunning, table
  <2>3. \A q \in Pids : /\ pstate'[q] = "zombie" => pstate[q] = "zombie"
                        /\ pstate'[q] = "reaped" => pstate[q] = "reaped"
                        /\ death'[q] = death[q]
    BY <1>1, <2>1 DEF Continues, ContinueGroup, kernel
  <2> QED
    BY <1>2, <2>2, <2>3
<1> QED
  BY <1>3, <1>4, <1>6, <1>7, <1>8, <1>9, <1>10, <1>11, <1>12
     DEF Next, Command, Launches, Waiting, Update

\* t_process.status holds the death of every stage that was reaped.
THEOREM FatesKnownHolds == Spec => []FatesKnown
<1>1. Init => FatesKnown
  BY DEF Init, FatesKnown
<1> QED
  BY <1>1, Inv3Holds, StepFates, PTL DEF Spec

\* The last stage of the job the shell waits for is one of its processes.
LEMMA LastStageListed ==
    ASSUME Inv3, pc = "wait"
    PROVE  LastStage(waitJob) \in Members(waitJob)
<1>1. waitJob \in Jobs /\ waitJob \in Pids /\ jobOf[waitJob] = waitJob
  BY DEF Inv3, LeaderListed, Inv2, Inv1, WaitTracked, TypeOK, TableTypeOK
<1>2. /\ Members(waitJob) \subseteq Nat /\ Members(waitJob) # {}
      /\ \A x \in Members(waitJob) : x <= MaxPid
  BY <1>1, JobControlAssumption DEF Members, Pids
<1>3. MaxPid \in Nat
  BY JobControlAssumption
<1> HIDE DEF Members
<1> QED
  BY <1>2, <1>3, MaxIsGreatest DEF LastStage

Resulted ==
    pc = "wait" /\ pc' = "idle" =>
        /\ result' \in Deaths /\ LastStage(waitJob) \notin strays
              => result' = Fate(LastStage(waitJob))
        /\ result' = "stopped"
              => waitJob \in Jobs' /\ ~jobs'[waitJob].notified

\* job_wait returns the status of the last stage, or leaves a stopped job listed.
LEMMA WaitReapedResult ==
    ASSUME Inv3, FatesKnown, NEW p \in Pids, WaitReaped(p)
    PROVE  Resulted
<1> DEFINE w == ReportOf(p)
           h == waitJob
           q == LastStage(waitJob)
           after == JobsAfter(h, p, w)
<1>1. /\ pc = "wait" /\ h \in Jobs /\ Collect(p) /\ Waitable(p, FALSE) /\ h # None
  <2>1. pc = "wait" /\ h \in Jobs /\ Collect(p) /\ Waitable(p, FALSE)
    BY DEF WaitReaped, Inv3, Inv2, Inv1, WaitTracked
  <2>2. None \notin Jobs
    BY DEF Inv3, Inv2, Inv1, TypeOK, TableTypeOK, None, Pids
  <2> QED
    BY <2>1, <2>2
<1>2. q \in Pids /\ jobOf[q] = h /\ q \in Members(h)
  BY <1>1, LastStageListed DEF Members
<1>3. /\ DOMAIN after = Jobs /\ after \in [Jobs -> Job]
      /\ after[h].status = StatusAfter(h, p, w)
  BY <1>1, ApplyTyped, ReportTyped DEF Inv3, Inv2, Inv1, Waitable
<1>4. wstatus \in [Pids -> Deaths \cup Reports]
  BY DEF Inv3, Inv2, Inv1, TypeOK, TableTypeOK
<1> HIDE DEF after
<1> SUFFICES ASSUME pc' = "idle"
             PROVE  /\ result' \in Deaths /\ q \notin strays => result' = Fate(q)
                    /\ result' = "stopped" => h \in Jobs' /\ ~jobs'[h].notified
  BY DEF Resulted
<1>5. StatusAfter(h, p, w) # "running"
  BY <1>1 DEF WaitReaped, shell
<1>6. EndForeground(h, after, CompletedAfter(p, w), FlaggedAfter(p, w),
          WstatusAfter(p, w),
          IF StatusAfter(h, p, w) = "stopped" THEN "stopped"
          ELSE ExitCode(WstatusAfter(p, w)[q]))
  BY <1>5 DEF WaitReaped, after
<1>7. result' = IF StatusAfter(h, p, w) = "stopped" THEN "stopped"
                ELSE ExitCode(WstatusAfter(p, w)[q])
  BY <1>6 DEF EndForeground, Return
<1>8. CASE StatusAfter(h, p, w) = "stopped"
  <2> DEFINE kept == [after EXCEPT ![h].notified = FALSE]
  <2>1. SetTable(kept, CompletedAfter(p, w), FlaggedAfter(p, w),
                 WstatusAfter(p, w), current, {})
    BY <1>3, <1>6, <1>8 DEF EndForeground
  <2>2. DOMAIN kept = Jobs /\ kept[h].notified = FALSE
    BY <1>1, <1>3 DEF Job
  <2> HIDE DEF kept
  <2>3. h \in Jobs' /\ jobs'[h] = kept[h]
    BY <1>1, <2>1, <2>2 DEF SetTable, Jobs
  <2> QED
    BY <1>7, <1>8, <2>2, <2>3 DEF Deaths
<1>9. CASE StatusAfter(h, p, w) # "stopped"
  <2>1. result' = ExitCode(WstatusAfter(p, w)[q])
    BY <1>7, <1>9
  <2>2. WstatusAfter(p, w)[q] = IF q = p THEN w ELSE wstatus[q]
    BY <1>2, <1>4 DEF WstatusAfter
  <2>3. Members(h) \subseteq CompletedAfter(p, w)
    BY <1>5, <1>9, RecomputedStable DEF StatusAfter
  <2>4. result' # "stopped"
    BY <2>1 DEF ExitCode, Deaths
  <2>5. ASSUME result' \in Deaths, q \notin strays PROVE result' = Fate(q)
    <3>1. CASE q = p
      <4>1. result' = ExitCode(w)
        BY <2>1, <2>2, <3>1
      <4>2. CASE pstate[p] = "zombie"
        BY <3>1, <4>1, <4>2 DEF FatesKnown, ReportOf, ExitCode, Fate, Deaths
      <4>3. CASE pstate[p] # "zombie"
        <5>1. w = "stopped"
          BY <1>1, <4>3 DEF Waitable, ReportOf
        <5> QED
          BY <2>5, <4>1, <5>1 DEF ExitCode, Deaths
      <4> QED
        BY <4>2, <4>3
    <3>2. CASE q # p
      <4>1. q \in completed
        BY <1>2, <2>3, <3>2 DEF CompletedAfter
      <4>2. pstate[q] = "reaped"
        BY <1>1, <1>2, <2>5, <4>1 DEF Inv3, DeathsRecorded
      <4>3. wstatus[q] \in Deaths
        BY <1>1, <1>2, <4>2 DEF FatesKnown
      <4> QED
        BY <2>1, <2>2, <3>2, <4>2, <4>3 DEF ExitCode, Fate, Deaths
    <3> QED
      BY <3>1, <3>2
  <2> QED
    BY <2>4, <2>5
<1> QED
  BY <1>8, <1>9

\* When waitpid finds no child every stage has been reaped, or is a stray.
LEMMA WaitEndsResult ==
    ASSUME Inv3, ListedBorn, FatesKnown, WaitNoChild \/ WaitInterrupted
    PROVE  Resulted
<1> DEFINE q == LastStage(waitJob)
<1>1. pc = "wait" /\ waitJob \in Jobs /\ waitJob # None
  <2>1. pc = "wait" /\ waitJob \in Jobs
    BY DEF WaitNoChild, WaitInterrupted, Inv3, Inv2, Inv1, WaitTracked
  <2>2. None \notin Jobs
    BY DEF Inv3, Inv2, Inv1, TypeOK, TableTypeOK, None, Pids
  <2> QED
    BY <2>1, <2>2
<1>2. q \in Pids /\ jobOf[q] = waitJob
  BY <1>1, LastStageListed DEF Members
<1>3. CASE WaitInterrupted
  <2>1. result' = "error"
    BY <1>3 DEF WaitInterrupted, EndForeground, Return
  <2> QED
    BY <2>1 DEF Resulted, Deaths
<1>4. CASE WaitNoChild
  <2>1. result' = ExitCode(wstatus[q]) /\ Group(waitJob) = {}
    BY <1>4 DEF WaitNoChild, EndForeground, Return
  <2>2. result' # "stopped"
    BY <2>1 DEF ExitCode, Deaths
  <2>3. ASSUME q \notin strays PROVE result' = Fate(q)
    <3>1. ~IsChild(q)
      BY <1>1, <1>2, <2>1, <2>3 DEF Inv3, MembersInGroup, Group
    <3>2. pstate[q] = "reaped"
      BY <1>1, <1>2, <3>1 DEF Inv3, Inv2, Inv1, TypeOK, KernelTypeOK, PStates,
         IsChild, ListedBorn
    <3>3. wstatus[q] \in Deaths
      BY <1>1, <1>2, <3>2 DEF FatesKnown
    <3> QED
      BY <2>1, <3>2, <3>3 DEF ExitCode, Fate, Deaths
  <2> QED
    BY <2>2, <2>3 DEF Resulted
<1> QED
  BY <1>3, <1>4

\* No other step ends a wait.
LEMMA StepResult ==
    ASSUME Inv3, ListedBorn, FatesKnown, [Next]_vars
    PROVE  [Resulted]_vars
<1>1. CASE \E p \in Pids : WaitReaped(p)
  BY <1>1, WaitReapedResult
<1>2. CASE WaitNoChild \/ WaitInterrupted
  BY <1>2, WaitEndsResult
<1>3. CASE Children
  BY <1>3 DEF Children, ChildClaims, ChildStops, ChildContinues, ChildLeavesGroup,
     ChildDies, Outsider, shell, Resulted
<1>4. CASE Command
  BY <1>4 DEF Command, LaunchForeground, LaunchPlain, LaunchBackground, StartUpdate,
     ShellExits, PipelineForkFails, Resulted
<1>5. CASE \E p \in Pids : PlainReaped(p)
  BY <1>5 DEF PlainReaped, Resulted
<1>6. CASE Update
  BY <1>6 DEF Update, Updated, Notify, ListJobs, NoSuchJob, UpdateReaped,
     ContinueForeground, ContinueBackground, KillJob, Resulted
<1>7. CASE Exited
  BY <1>7 DEF Exited, Resulted
<1> QED
  BY <1>1, <1>2, <1>3, <1>4, <1>5, <1>6, <1>7 DEF Next, Waiting

\* The result of a wait is the end of the last stage, whichever stage was reaped
\* last, and a job that stopped stays listed with the stop still to be shown.
THEOREM WaitResultCorrect == Spec => WaitResult
<1>1. Inv3 /\ ListedBorn /\ FatesKnown /\ [Next]_vars => [Resulted]_vars
  BY StepResult
<1>2. [Resulted]_vars =>
      [pc = "wait" /\ pc' = "idle" =>
        /\ result' \in Deaths /\ LastStage(waitJob) \notin strays
              => result' = Fate(LastStage(waitJob))
        /\ result' = "stopped"
              => waitJob \in Jobs' /\ ~jobs'[waitJob].notified]_vars
  BY DEF Resulted
<1> QED
  BY <1>1, <1>2, Inv3Holds, ListedBornHolds, FatesKnownHolds, PTL DEF Spec, WaitResult

===============================================================================
