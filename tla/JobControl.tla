----------------------------- MODULE JobControl -----------------------------
(***************************************************************************)
(* The job control of the phase-3 shell, src/pj2/20200152/phase3/myshell.c.*)
(*                                                                         *)
(* Actors: the shell's main loop (eval, addjob, waitfg, the builtins), the *)
(* shell's signal handlers (schld_handler, sint_handler, ststp_handler),  *)
(* which interrupt it between any two of its steps and each other unless   *)
(* blocked, the forked children, and the terminal, whose Ctrl-C and Ctrl-Z *)
(* go to the terminal's foreground process group: the shell's own group,  *)
(* where pipelines (never setpgid) and children that have not yet run      *)
(* Setpgid(0, 0) also live.                                                *)
(*                                                                         *)
(* The job list is a sequence in list order.  The command lines the user   *)
(* types are the constant Script; its end is the user typing nothing more  *)
(* (fgets blocks).  Kill is csapp's wrapper: a failing kill(2) (ESRCH)     *)
(* calls unix_error, which ends the shell.                                 *)
(***************************************************************************)
EXTENDS Integers, SequencesExt

CONSTANTS
  Script,   \* the command lines: [op |-> "run", bg, pipe] or [op, j] for jobs/kill/bg/fg
  MaxKeys,  \* bound on Ctrl-C / Ctrl-Z presses
  PipeLen   \* commands in a pipeline line (cmd_count)

Runs == {i \in DOMAIN Script : Script[i].op = "run"}
Pids == 1 .. Cardinality(Runs)
Keys == {"INT", "TSTP"}
ShellSigs == {"CHLD"} \cup Keys
Stages == 1 .. PipeLen
Pipes == 1 .. PipeLen - 1

VARIABLES
  shell,          \* "up", or "exited" (unix_error after a failed Kill)
  mpc,            \* the main loop's step
  ln,             \* index of the next command line
  forks,          \* children forked so far (the last pid)
  nj,             \* eval's child: [pid, bg] ; addjob's new_job index in nidx
  nidx,
  acur,           \* addjob's current: pid of the node it will link after (0: the head)
  wpid,           \* the pid waitfg waits for
  jobs,           \* the job list: <<[pid, idx, state, r], ...>>
  next_job_index,
  child,          \* pid -> [st, grp, rep, pend, pipe]
  sigs,           \* signals pending for the shell
  hs,             \* running handlers, innermost last: <<[h, pc, pid, how], ...>>
  inside,         \* ststp_handler's static inside_handler
  keys,           \* terminal signals sent so far
  ecpc,           \* pipeline pid -> commands execute_commands has forked (its i)
  stage,          \* pipeline pid -> stage -> [st, grp, rep, pend, pipe]
  wend            \* pipeline pid -> pipe k -> holders of its write end (0: execute_commands)

pipev == <<ecpc, stage, wend>>
vars == <<shell, mpc, ln, forks, nj, nidx, acur, wpid, jobs, next_job_index, child,
          sigs, hs, inside, keys, ecpc, stage, wend>>
mainv == <<mpc, ln, forks, nj, nidx, acur, wpid>>

NoChild == [st |-> "none", grp |-> FALSE, rep |-> FALSE, pend |-> FALSE, pipe |-> FALSE]

Cmd == Script[ln]

(***************************************************************************)
(* The list operations.  Each returns an index into jobs, 0 for none.     *)
(***************************************************************************)
fgpid(js) ==
  LET i == SelectInSeq(js, LAMBDA j : j.state = "FG") IN IF i = 0 THEN 0 ELSE js[i].pid
getjob(js, idx) == SelectInSeq(js, LAMBDA j : j.idx = idx)
getjobpid(js, pid) == SelectInSeq(js, LAMBDA j : j.pid = pid)
deletejob(js, pid) == RemoveAt(js, getjobpid(js, pid))

(***************************************************************************)
(* Signals to children.  A stopped child keeps a SIGINT pending until it   *)
(* is continued; a state change raises SIGCHLD for the shell.             *)
(***************************************************************************)
\* The default actions, for a process that has run execvp.
HitDefault(r, s) ==
  CASE s \in {"INT", "KILL"} /\ r.st = "run"   -> [r EXCEPT !.st = "zombie"]
    [] s = "KILL" /\ r.st = "stopped"           -> [r EXCEPT !.st = "zombie"]
    [] s = "INT" /\ r.st = "stopped"            -> [r EXCEPT !.pend = TRUE]
    [] s = "TSTP" /\ r.st = "run"               -> [r EXCEPT !.st = "stopped", !.rep = FALSE]
    [] s = "CONT" /\ r.st = "stopped"           -> [r EXCEPT !.st = IF r.pend THEN "zombie" ELSE "run"]
    [] OTHER                                    -> r

\* A child that has not run execvp keeps the shell's handlers (main's
\* Signal calls, inherited over Fork): the pipeline child, which runs
\* execute_commands, and a single command before Setpgid and execvp.  Its
\* sint_handler and ststp_handler read fgpid of the child's copy of jobs,
\* forked at the prompt with no foreground job, and return: SIGINT and
\* SIGTSTP leave it as it is (csapp's Signal sets SA_RESTART, so its
\* wait(NULL) goes on).
Inherits(r) == r.pipe \/ ~r.grp

Hit(r, s) == IF s \in {"INT", "TSTP"} /\ Inherits(r) THEN r ELSE HitDefault(r, s)

\* kill(2) of signal s to the processes T: the children and the SIGCHLD.
Send(T, s) ==
  /\ child' = [p \in Pids |-> IF p \in T THEN Hit(child[p], s) ELSE child[p]]
  /\ sigs' = IF \E p \in T : Hit(child[p], s).st # child[p].st
             THEN sigs \cup {"CHLD"} ELSE sigs

\* Kill(-pid, s): the process group pid, which exists only once the child
\* has run Setpgid(0, 0) and until it is reaped.
Group(pid) == {p \in Pids : p = pid /\ child[p].grp /\ child[p].st \notin {"none", "reaped"}}
\* Kill(pid, s).
Proc(pid) == {p \in Pids : p = pid /\ child[p].st \notin {"none", "reaped"}}

\* unix_error("Kill error"): the shell exits.
KillFails == shell' = "exited" /\ UNCHANGED <<child, sigs>>

(***************************************************************************)
(* Steps.                                                                  *)
(***************************************************************************)
MainReady == shell = "up" /\ hs = << >>
Top == hs[Len(hs)]
HandlerAt(h, pc) == shell = "up" /\ hs # << >> /\ Top.h = h /\ Top.pc = pc
SetTop(f) == hs' = [hs EXCEPT ![Len(hs)] = f]
Return == hs' = Front(hs)

Init ==
  /\ shell = "up"
  /\ mpc = "read" /\ ln = 1 /\ forks = 0
  /\ nj = [pid |-> 0, bg |-> FALSE] /\ nidx = 0 /\ acur = 0 /\ wpid = 0
  /\ jobs = << >> /\ next_job_index = 1
  /\ child = [p \in Pids |-> NoChild]
  /\ sigs = {} /\ hs = << >> /\ inside = 0 /\ keys = 0
  /\ ecpc = [p \in Pids |-> 0]
  /\ stage = [p \in Pids |-> [j \in Stages |-> NoChild]]
  /\ wend = [p \in Pids |-> [k \in Pipes |-> {}]]

(***************************************************************************)
(* eval: Fork, then addjob (walk to the last node, link), then waitfg for  *)
(* a foreground job.  No signal is blocked around the fork.               *)
(***************************************************************************)
Fork ==
  /\ MainReady /\ mpc = "read" /\ ln <= Len(Script) /\ Cmd.op = "run"
  /\ child' = [child EXCEPT ![forks + 1] = [NoChild EXCEPT !.st = "run", !.pipe = Cmd.pipe]]
  /\ forks' = forks + 1
  /\ nj' = [pid |-> forks + 1, bg |-> Cmd.bg]
  /\ ln' = ln + 1
  /\ mpc' = "add_walk"
  /\ UNCHANGED <<pipev, shell, nidx, acur, wpid, jobs, next_job_index, sigs, hs, inside, keys>>

\* new_job->job_idx = next_job_index++, then the walk to the last node.
AddWalk ==
  /\ MainReady /\ mpc = "add_walk"
  /\ nidx' = next_job_index
  /\ next_job_index' = next_job_index + 1
  /\ acur' = IF jobs = << >> THEN 0 ELSE Last(jobs).pid
  /\ mpc' = "add_link"
  /\ UNCHANGED <<pipev, shell, ln, forks, nj, wpid, jobs, child, sigs, hs, inside, keys>>

\* current->next = new_job.  If a handler freed current since the walk, the
\* new job hangs off a freed node and never enters the list.
AddLink ==
  /\ MainReady /\ mpc = "add_link"
  /\ jobs' = IF acur = 0 \/ getjobpid(jobs, acur) # 0
             THEN Append(jobs, [pid |-> nj.pid, idx |-> nidx,
                                state |-> IF nj.bg THEN "BG" ELSE "FG", r |-> "R"])
             ELSE jobs
  /\ mpc' = IF nj.bg THEN "read" ELSE "wf_check"
  /\ wpid' = nj.pid
  /\ UNCHANGED <<pipev, shell, ln, forks, nj, nidx, acur, next_job_index, child, sigs, hs, inside, keys>>

\* waitfg: while (fgpid(jobs) == pid) Sigsuspend(&prev_mask).  SIGCHLD,
\* SIGINT and SIGTSTP stay unblocked, so one may be handled between the
\* test (WfCheck) and the suspend (WfSuspend); only a signal that arrives
\* once the shell is suspended ends Sigsuspend.
WfCheck ==
  /\ MainReady /\ mpc = "wf_check"
  /\ mpc' = IF fgpid(jobs) = wpid THEN "wf_sigsuspend" ELSE "read"
  /\ UNCHANGED <<pipev, shell, ln, forks, nj, nidx, acur, wpid, jobs, next_job_index, child,
                 sigs, hs, inside, keys>>

WfSuspend ==
  /\ MainReady /\ mpc = "wf_sigsuspend"
  /\ mpc' = "wf_suspend"
  /\ UNCHANGED <<pipev, shell, ln, forks, nj, nidx, acur, wpid, jobs, next_job_index, child,
                 sigs, hs, inside, keys>>

(***************************************************************************)
(* builtin_command: jobs, kill %j, bg %j, fg %j.  Each runs without a     *)
(* signal blocked, as one step: getjob, the Kill, the job's new state.    *)
(***************************************************************************)
\* listjobs only reads the list.
Jobs ==
  /\ MainReady /\ mpc = "read" /\ ln <= Len(Script) /\ Cmd.op = "jobs"
  /\ ln' = ln + 1
  /\ UNCHANGED <<pipev, shell, mpc, forks, nj, nidx, acur, wpid, jobs, next_job_index, child,
                 sigs, hs, inside, keys>>

\* "No Such Job" for an index not in the list.
NoSuchJob ==
  /\ MainReady /\ mpc = "read" /\ ln <= Len(Script) /\ Cmd.op \in {"kill", "bg", "fg"}
  /\ getjob(jobs, Cmd.j) = 0
  /\ ln' = ln + 1
  /\ UNCHANGED <<pipev, shell, mpc, forks, nj, nidx, acur, wpid, jobs, next_job_index, child,
                 sigs, hs, inside, keys>>

\* Kill(-job->pid, SIGKILL).
KillJob ==
  LET i == getjob(jobs, Cmd.j) IN
  /\ MainReady /\ mpc = "read" /\ ln <= Len(Script) /\ Cmd.op = "kill" /\ i # 0
  /\ ln' = ln + 1
  /\ IF Group(jobs[i].pid) = {} THEN KillFails ELSE shell' = shell /\ Send(Group(jobs[i].pid), "KILL")
  /\ UNCHANGED <<pipev, mpc, forks, nj, nidx, acur, wpid, jobs, next_job_index, hs, inside, keys>>

\* Kill(-job->pid, SIGCONT); job->state = BG or FG; job->r_state = R; fg
\* then waits in waitfg(job->pid).
Resume ==
  LET i == getjob(jobs, Cmd.j) IN
  /\ MainReady /\ mpc = "read" /\ ln <= Len(Script) /\ Cmd.op \in {"bg", "fg"} /\ i # 0
  /\ ln' = ln + 1
  /\ IF Group(jobs[i].pid) = {}
     THEN KillFails /\ UNCHANGED <<mpc, wpid, jobs>>
     ELSE /\ shell' = shell
          /\ Send(Group(jobs[i].pid), "CONT")
          /\ jobs' = [jobs EXCEPT ![i].state = IF Cmd.op = "bg" THEN "BG" ELSE "FG", ![i].r = "R"]
          /\ mpc' = IF Cmd.op = "bg" THEN "read" ELSE "wf_check"
          /\ wpid' = IF Cmd.op = "bg" THEN wpid ELSE jobs[i].pid
  /\ UNCHANGED <<pipev, forks, nj, nidx, acur, next_job_index, hs, inside, keys>>

(***************************************************************************)
(* Signal delivery and the handlers.  A handled signal is blocked while   *)
(* its own handler runs (csapp's Signal installs no other mask); the      *)
(* parts of the handlers run under Sigfillset are single steps here.  A    *)
(* handler that returns to a shell suspended in waitfg resumes its loop.  *)
(***************************************************************************)
\* Mutant of Deliver: waitfg tests once (if, not while): a handled signal
\* returns it to the prompt.
DeliverWakesPrompt(s) ==
  /\ shell = "up" /\ s \in sigs
  /\ \A i \in DOMAIN hs : hs[i].h # s
  /\ sigs' = sigs \ {s}
  /\ hs' = Append(hs, [h |-> s, pc |-> "start", pid |-> 0, how |-> "none"])
  /\ mpc' = IF mpc = "wf_suspend" THEN "read" ELSE mpc
  /\ UNCHANGED <<pipev, shell, ln, forks, nj, nidx, acur, wpid, jobs, next_job_index, child, inside, keys>>

Deliver(s) ==
  /\ shell = "up" /\ s \in sigs
  /\ \A i \in DOMAIN hs : hs[i].h # s
  /\ sigs' = sigs \ {s}
  /\ hs' = Append(hs, [h |-> s, pc |-> "start", pid |-> 0, how |-> "none"])
  /\ mpc' = IF mpc = "wf_suspend" THEN "wf_check" ELSE mpc
  /\ UNCHANGED <<pipev, shell, ln, forks, nj, nidx, acur, wpid, jobs, next_job_index, child, inside, keys>>

\* schld_handler: waitpid(-1, &status, WNOHANG | WUNTRACED) reaps a zombie
\* or reports a stop not yet reported; with nothing to report the loop ends.
ChldWait ==
  LET ready == {p \in Pids : child[p].st = "zombie" \/ (child[p].st = "stopped" /\ ~child[p].rep)} IN
  /\ HandlerAt("CHLD", "start")
  /\ IF ready = {}
     THEN Return /\ UNCHANGED child
     ELSE \E p \in ready :
            /\ child' = [child EXCEPT ![p] = IF @.st = "zombie" THEN [@ EXCEPT !.st = "reaped"]
                                                                ELSE [@ EXCEPT !.rep = TRUE]]
            /\ SetTop([Top EXCEPT !.pc = "proc", !.pid = p,
                                  !.how = IF child[p].st = "zombie" THEN "exit" ELSE "stop"])
  /\ UNCHANGED <<pipev, shell, mainv, jobs, next_job_index, sigs, inside, keys>>

\* Mutant of ChldProc: one waitpid per SIGCHLD (if, not while).
ChldProcOnce ==
  LET i == getjobpid(jobs, Top.pid) IN
  /\ HandlerAt("CHLD", "proc")
  /\ jobs' = CASE i = 0           -> jobs
               [] Top.how = "exit" -> deletejob(jobs, Top.pid)
               [] OTHER            -> [jobs EXCEPT ![i].r = "S"]
  /\ Return
  /\ UNCHANGED <<pipev, shell, mainv, next_job_index, child, sigs, inside, keys>>

\* Under Sigfillset: getjobpid; deletejob for an exit, r_state = S for a stop.
ChldProc ==
  LET i == getjobpid(jobs, Top.pid) IN
  /\ HandlerAt("CHLD", "proc")
  /\ jobs' = CASE i = 0           -> jobs
               [] Top.how = "exit" -> deletejob(jobs, Top.pid)
               [] OTHER            -> [jobs EXCEPT ![i].r = "S"]
  /\ SetTop([Top EXCEPT !.pc = "start"])
  /\ UNCHANGED <<pipev, shell, mainv, next_job_index, child, sigs, inside, keys>>

\* sint_handler: pid = fgpid(jobs) ...
IntFg ==
  /\ HandlerAt("INT", "start")
  /\ IF fgpid(jobs) = 0 THEN Return
     ELSE SetTop([Top EXCEPT !.pc = "kill", !.pid = fgpid(jobs)])
  /\ UNCHANGED <<pipev, shell, mainv, jobs, next_job_index, child, sigs, inside, keys>>

\* ... then Kill(-pid, SIGINT).
IntKill ==
  /\ HandlerAt("INT", "kill")
  /\ IF Group(Top.pid) = {} THEN KillFails ELSE shell' = shell /\ Send(Group(Top.pid), "INT")
  /\ Return
  /\ UNCHANGED <<pipev, mainv, jobs, next_job_index, inside, keys>>

\* ststp_handler: the inside_handler test, then pid = fgpid(jobs) before
\* any signal is blocked.
TstpEnter ==
  /\ HandlerAt("TSTP", "start")
  /\ IF inside = 1 THEN Return /\ UNCHANGED inside
     ELSE inside' = 1 /\ SetTop([Top EXCEPT !.pc = "act", !.pid = fgpid(jobs)])
  /\ UNCHANGED <<pipev, shell, mainv, jobs, next_job_index, child, sigs, keys>>

\* Under Sigfillset: if the job is listed, Kill(pid, SIGTSTP), r_state = S,
\* state = BG; then inside_handler = 0.
TstpAct ==
  LET i == getjobpid(jobs, Top.pid) IN
  /\ HandlerAt("TSTP", "act")
  /\ IF Top.pid # 0 /\ i # 0
     THEN IF Proc(Top.pid) = {}
          THEN KillFails /\ UNCHANGED jobs
          ELSE /\ shell' = shell
               /\ Send(Proc(Top.pid), "TSTP")
               /\ jobs' = [jobs EXCEPT ![i].r = "S", ![i].state = "BG"]
     ELSE UNCHANGED <<shell, jobs, child, sigs>>
  /\ inside' = 0
  /\ Return
  /\ UNCHANGED <<pipev, mainv, next_job_index, keys>>

(***************************************************************************)
(* Children and the terminal.                                              *)
(***************************************************************************)
\* The single-command child's Setpgid(0, 0) before execvp.
SetPgid(p) ==
  /\ child[p].st = "run" /\ ~child[p].pipe /\ ~child[p].grp
  /\ child' = [child EXCEPT ![p].grp = TRUE]
  /\ UNCHANGED <<pipev, shell, mainv, jobs, next_job_index, sigs, hs, inside, keys>>

\* The single command finishes: a zombie until reaped.
ChildExit(p) ==
  /\ child[p].st = "run" /\ child[p].grp
  /\ child' = [child EXCEPT ![p].st = "zombie"]
  /\ sigs' = sigs \cup {"CHLD"}
  /\ UNCHANGED <<pipev, shell, mainv, jobs, next_job_index, hs, inside, keys>>

(***************************************************************************)
(* A pipeline child runs execute_commands: for each command i, pipe(fd)   *)
(* unless it is the last, fork; the stage takes in_fd as stdin and fd[1]  *)
(* as stdout; the parent closes in_fd and fd[1] and keeps fd[0] as the    *)
(* next in_fd.  Then wait(NULL) until no child is left, and exit(0).      *)
(* Read ends are left out: only write ends decide when a stage sees EOF.  *)
(***************************************************************************)
\* The pipes whose write end process x (0: execute_commands) holds.
Held(p, x) == {k \in Pipes : x \in wend[p][k]}

\* Mutant of EcFork: the parent keeps fd[1] open (no close(fd[1])).
EcForkKeepsWrite(p) ==
  LET i == ecpc[p] + 1 IN
  /\ child[p].pipe /\ child[p].st = "run" /\ ecpc[p] < PipeLen
  /\ ecpc' = [ecpc EXCEPT ![p] = i]
  /\ stage' = [stage EXCEPT ![p][i] = [NoChild EXCEPT !.st = "run"]]
  /\ wend' = [wend EXCEPT ![p] = [k \in Pipes |->
                 IF k = i \/ k \in Held(p, 0) THEN @[k] \cup {0, i} ELSE @[k]]]
  /\ UNCHANGED <<shell, mainv, jobs, next_job_index, child, sigs, hs, inside, keys>>

\* One turn of the loop: pipe, fork (the stage inherits every write end
\* the parent holds, keeps fd[1] as its stdout), close(fd[1]) in the parent.
\* Mutant of EcFork: the fork loop runs once too often (i <= n).
EcForkPastEnd(p) ==
  LET i == ecpc[p] + 1 IN
  /\ child[p].pipe /\ child[p].st = "run" /\ ecpc[p] <= PipeLen
  /\ ecpc' = [ecpc EXCEPT ![p] = i]
  /\ stage' = [stage EXCEPT ![p][i] = [NoChild EXCEPT !.st = "run"]]
  /\ wend' = [wend EXCEPT ![p] = [k \in Pipes |->
                 IF k = i \/ k \in Held(p, 0) THEN (@[k] \cup {i}) \ {0} ELSE @[k]]]
  /\ UNCHANGED <<shell, mainv, jobs, next_job_index, child, sigs, hs, inside, keys>>

EcFork(p) ==
  LET i == ecpc[p] + 1 IN
  /\ child[p].pipe /\ child[p].st = "run" /\ ecpc[p] < PipeLen
  /\ ecpc' = [ecpc EXCEPT ![p] = i]
  /\ stage' = [stage EXCEPT ![p][i] = [NoChild EXCEPT !.st = "run"]]
  /\ wend' = [wend EXCEPT ![p] = [k \in Pipes |->
                 IF k = i \/ k \in Held(p, 0) THEN (@[k] \cup {i}) \ {0} ELSE @[k]]]
  /\ UNCHANGED <<shell, mainv, jobs, next_job_index, child, sigs, hs, inside, keys>>

\* Stage j's command reads its input to EOF: the first reads the terminal
\* and may end at any time, a later one once no process holds the write
\* end of pipe j - 1.  Its exit closes its write end.
StageExit(p, j) ==
  /\ stage[p][j].st = "run"
  /\ j > 1 => wend[p][j - 1] = {}
  /\ stage' = [stage EXCEPT ![p][j].st = "zombie"]
  /\ wend' = [wend EXCEPT ![p] = [k \in Pipes |-> @[k] \ {j}]]
  /\ UNCHANGED <<ecpc, shell, mainv, jobs, next_job_index, child, sigs, hs, inside, keys>>

\* wait(NULL) > 0: a stage that ended is reaped (by the loop or by the
\* schld_handler the child inherited; both just reap it).
EcReap(p, j) ==
  /\ child[p].pipe /\ child[p].st = "run" /\ ecpc[p] = PipeLen
  /\ stage[p][j].st = "zombie"
  /\ stage' = [stage EXCEPT ![p][j].st = "reaped"]
  /\ UNCHANGED <<ecpc, wend, shell, mainv, jobs, next_job_index, child, sigs, hs, inside, keys>>

\* wait(NULL) fails with no child left; exit(0) closes what it held.
EcExit(p) ==
  /\ child[p].pipe /\ child[p].st = "run" /\ ecpc[p] = PipeLen
  /\ \A j \in Stages : stage[p][j].st = "reaped"
  /\ child' = [child EXCEPT ![p].st = "zombie"]
  /\ sigs' = sigs \cup {"CHLD"}
  /\ wend' = [wend EXCEPT ![p] = [k \in Pipes |-> @[k] \ {0}]]
  /\ UNCHANGED <<ecpc, stage, shell, mainv, jobs, next_job_index, hs, inside, keys>>

\* Ctrl-C / Ctrl-Z: the terminal signals its foreground group, the shell's,
\* which holds every pipeline stage too.  A stage killed by it exits.
KeyPress(s) ==
  LET T == {p \in Pids : ~child[p].grp /\ child[p].st \in {"run", "stopped"}}
      hitStage(r) == IF r.st \in {"run", "stopped"} THEN HitDefault(r, s) ELSE r
  IN
  /\ shell = "up" /\ keys < MaxKeys
  /\ keys' = keys + 1
  /\ child' = [p \in Pids |-> IF p \in T THEN Hit(child[p], s) ELSE child[p]]
  /\ stage' = [p \in Pids |-> [j \in Stages |-> hitStage(stage[p][j])]]
  /\ wend' = [p \in Pids |-> [k \in Pipes |->
                {x \in wend[p][k] : IF x = 0 THEN child'[p].st # "zombie"
                                                 ELSE stage'[p][x].st # "zombie"}]]
  /\ sigs' = sigs \cup {s}
             \cup (IF \E p \in T : Hit(child[p], s).st # child[p].st THEN {"CHLD"} ELSE {})
  /\ UNCHANGED <<ecpc, shell, mainv, jobs, next_job_index, hs, inside>>

MainStep == Fork \/ AddWalk \/ AddLink \/ WfCheck \/ WfSuspend \/ Jobs \/ NoSuchJob \/ KillJob \/ Resume
HandlerStep == ChldWait \/ ChldProc \/ IntFg \/ IntKill \/ TstpEnter \/ TstpAct
PipeStep(p) == EcFork(p) \/ EcExit(p) \/ \E j \in Stages : EcReap(p, j)
ChildStep(p) == SetPgid(p) \/ ChildExit(p) \/ PipeStep(p)

Next ==
  \/ MainStep
  \/ HandlerStep
  \/ \E s \in ShellSigs : Deliver(s)
  \/ \E p \in Pids : ChildStep(p)
  \/ \E p \in Pids, j \in Stages : StageExit(p, j)
  \/ \E s \in Keys : KeyPress(s)

\* The kernel runs the shell and delivers a pending unblocked signal; a
\* command runs to its end.  The user need never press a key.
Fairness ==
  /\ WF_vars(MainStep)
  /\ WF_vars(HandlerStep)
  /\ \A s \in ShellSigs : WF_vars(Deliver(s))
  /\ \A p \in Pids : WF_vars(ChildStep(p))
  /\ \A p \in Pids, j \in Stages : WF_vars(StageExit(p, j))

Spec == Init /\ [][Next]_vars /\ Fairness

(***************************************************************************)
(* Properties.                                                             *)
(***************************************************************************)
Job == [pid : Pids, idx : Nat, state : {"FG", "BG"}, r : {"R", "S"}]

TypeOK ==
  /\ shell \in {"up", "exited"}
  /\ jobs \in Seq(Job)
  /\ child \in [Pids -> [st : {"none", "run", "stopped", "zombie", "reaped"},
                         grp : BOOLEAN, rep : BOOLEAN, pend : BOOLEAN, pipe : BOOLEAN]]
  /\ sigs \subseteq ShellSigs
  /\ Len(hs) <= Cardinality(ShellSigs)
  /\ inside \in {0, 1}
  /\ ecpc \in [Pids -> 0 .. PipeLen]
  /\ stage \in [Pids -> [Stages -> [st : {"none", "run", "stopped", "zombie", "reaped"},
                                   grp : BOOLEAN, rep : BOOLEAN, pend : BOOLEAN, pipe : BOOLEAN]]]
  /\ wend \in [Pids -> [Pipes -> SUBSET ({0} \cup Stages)]]

\* Between fgpid, waitfg and ststp_handler's switch to BG, the job list
\* never holds two foreground jobs: eval adds one only once waitfg saw the
\* last one leave the foreground, and fg %j only from the prompt.
AtMostOneForeground ==
  Cardinality({i \in DOMAIN jobs : jobs[i].state = "FG"}) <= 1

\* Every child that ends is reaped by schld_handler (its waitpid loop
\* drains all children that one SIGCHLD stands for), unless the shell has
\* exited.
EveryChildReaped ==
  \A p \in Pids : child[p].st = "zombie" ~> (child[p].st = "reaped" \/ shell = "exited")

\* A stage of pipeline child p is stopped.  Nothing continues it: the
\* Kill(-pid, SIGCONT) of fg and bg names a group p never created.
StageStopped(p) == \E j \in Stages : stage[p][j].st = "stopped"

\* A pipeline ends on its own: execute_commands closes each write end it
\* no longer needs, so every stage sees EOF once the stage before it exits,
\* and its wait(NULL) loop then finds no child left; unless Ctrl-Z stopped
\* a stage (p itself ignores SIGTSTP, see Inherits, and waits on forever).
PipelineEnds ==
  \A p \in Pids : child[p].pipe /\ child[p].st = "run" ~> (child[p].st # "run" \/ StageStopped(p))

\* The points of waitfg's loop: the test, between the test and Sigsuspend,
\* and suspended.
WaitPcs == {"wf_check", "wf_sigsuspend", "wf_suspend"}

\* waitfg returns: a shell waiting for its foreground job gets its prompt
\* back once the job has ended or stopped.
ForegroundWaitEnds ==
  mpc \in WaitPcs ~> (mpc \notin WaitPcs \/ shell = "exited")

\* The shell only ends when the user types exit or EOF: no Kill of a job
\* or a foreground group fails.
ShellSurvives == shell = "up"
====
