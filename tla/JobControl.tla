---------------------------- MODULE JobControl ----------------------------
(***************************************************************************)
(* Job control of the interactive shell: the job table (core/jobs.py), the *)
(* code of core/shell.py that launches, waits for, stops, resumes and      *)
(* reaps child processes, and the kernel and CPython behaviour it relies   *)
(* on.  The shell is single threaded; the children, the terminal's user    *)
(* and other processes that send signals run concurrently with it.         *)
(*                                                                         *)
(* Process identifiers are numbered in fork order, so the order of the     *)
(* list ``job.pids`` is the numeric order of a set of them, and the group  *)
(* of a job is its first member.  Group 0 is the shell's own group.        *)
(***************************************************************************)
EXTENDS Integers, FiniteSetsExt

CONSTANTS
    MaxPid,       \* children the shell forks in one behaviour (a bound)
    MaxJobs,      \* job records the shell creates in one behaviour (a bound)
    StageCounts,  \* lengths of the pipelines that are run; 1: simple command
    Codes,        \* exit codes children choose from
    Terminals     \* did run() open /dev/tty, so that _tty_fd is not None?

ASSUME BoundsAssumption == MaxPid \in Nat \ {0} /\ MaxJobs \in Nat \ {0}
ASSUME InputAssumption  == /\ StageCounts \subseteq 1..MaxPid
                           /\ Codes \subseteq 0..255
                           /\ Terminals \subseteq BOOLEAN

Pid        == 1..MaxPid
JobId      == 1..MaxJobs
ExitStatus == 0..255
ShellGroup == 0
NoTerminal == -1                                \* _tty_fd is None
None       == 0                                 \* Python's None

SigintStatus  == 130                            \* ExitCode.SIGINT
SigkillStatus == 137

ProcState  == {"unborn", "running", "stopped", "zombie", "reaped"}
JobStatus  == {"Running", "Stopped", "Done"}
PC         == {"idle", "forking", "spawned", "waitCmd", "waitPipe",
               "waitJob", "interrupted", "unwind", "exited"}

VARIABLES
    \* the kernel
    proc,        \* what the kernel knows of each child
    note,        \* has a stop of the child not been reported by waitpid yet?
    code,        \* exit status of a child that has terminated
    grp,         \* process group of each child
    nextPid,     \* the next child's pid
    fgGroup,     \* foreground process group of the terminal
    \* CPython
    active,      \* subprocess._active: dropped Popen objects not yet reaped
    \* JobTable
    table,       \* keys of _jobs
    status, pids, pgid, lastStatus,             \* the fields of each Job
    stages,      \* history: the pids the job was created with
    nextId,      \* _next_id
    current,     \* _current_job_id
    \* the shell's call stack
    pc,
    todo,        \* children forked or to be waited for by the running call
    want,        \* stages the pipeline being started still has to fork
    background,  \* is the pipeline being started a background one?
    fjob,        \* the job _wait_for_job waits for
    res,         \* its local exit_status
    handle       \* the child of the live Popen object of _run_external

kernelVars == <<proc, note, code, grp, nextPid, fgGroup>>
tableVars  == <<table, status, pids, pgid, lastStatus, stages, nextId, current>>
callVars   == <<pc, todo, want, background, fjob, res, handle>>
vars       == <<kernelVars, active, tableVars, callVars>>

Unreaped(p) == proc[p] \in {"running", "stopped", "zombie"}
Alive(j)    == status[j] \in {"Running", "Stopped"}          \* Job.is_alive
Members(g)  == {p \in Pid : grp[p] = g /\ Unreaped(p)}

----------------------------------------------------------------------------
Init ==
    /\ proc = [p \in Pid |-> "unborn"]
    /\ note = [p \in Pid |-> FALSE]
    /\ code = [p \in Pid |-> 0]
    /\ grp  = [p \in Pid |-> ShellGroup]
    /\ nextPid = 1
    /\ fgGroup \in {IF open THEN ShellGroup ELSE NoTerminal : open \in Terminals}
    /\ active = {}
    /\ table = {}
    /\ status = [j \in JobId |-> "Done"]
    /\ pids   = [j \in JobId |-> {}]
    /\ pgid   = [j \in JobId |-> ShellGroup]
    /\ lastStatus = [j \in JobId |-> 0]
    /\ stages = [j \in JobId |-> {}]
    /\ nextId = 1
    /\ current = None
    /\ pc = "idle"
    /\ todo = {}
    /\ want = 0
    /\ background = FALSE
    /\ fjob = None
    /\ res = 0
    /\ handle = None

----------------------------------------------------------------------------
(* The environment: children and signals that do not come from the shell.  *)

Exit(p, c) ==                       \* a child terminates of its own accord
    /\ proc[p] = "running"
    /\ proc' = [proc EXCEPT ![p] = "zombie"]
    /\ code' = [code EXCEPT ![p] = c]
    /\ UNCHANGED <<note, grp, nextPid, fgGroup, active, tableVars, callVars>>

Kill(p) ==                          \* SIGKILL also ends a stopped child
    /\ proc[p] = "stopped"
    /\ proc' = [proc EXCEPT ![p] = "zombie"]
    /\ code' = [code EXCEPT ![p] = SigkillStatus]
    /\ note' = [note EXCEPT ![p] = FALSE]
    /\ UNCHANGED <<grp, nextPid, fgGroup, active, tableVars, callVars>>

\* Ctrl+Z when g is the foreground group; SIGTTIN or SIGTTOU when a background
\* group uses the terminal; kill -STOP from anywhere.
StopGroup(g) ==
    /\ \E p \in Pid : grp[p] = g /\ proc[p] = "running"
    /\ proc' = [p \in Pid |-> IF grp[p] = g /\ proc[p] = "running"
                              THEN "stopped" ELSE proc[p]]
    /\ note' = [p \in Pid |-> note[p] \/ (grp[p] = g /\ proc[p] = "running")]
    /\ UNCHANGED <<code, grp, nextPid, fgGroup, active, tableVars, callVars>>

\* SIGCONT to group g; the kernel forgets a stop that was not reported.
Continue(g) ==
    /\ proc' = [p \in Pid |-> IF grp[p] = g /\ proc[p] = "stopped"
                              THEN "running" ELSE proc[p]]
    /\ note' = [p \in Pid |-> note[p] /\ ~(grp[p] = g)]

ContGroup(g) ==                     \* kill -CONT from outside the shell
    /\ \E p \in Pid : grp[p] = g /\ proc[p] = "stopped"
    /\ Continue(g)
    /\ UNCHANGED <<code, grp, nextPid, fgGroup, active, tableVars, callVars>>

\* SIGINT to group g kills the running members that do not handle it; it stays
\* pending in a stopped one.
SigInt(g) ==
    \E dead \in SUBSET {p \in Pid : grp[p] = g /\ proc[p] = "running"} :
        /\ proc' = [p \in Pid |-> IF p \in dead THEN "zombie" ELSE proc[p]]
        /\ code' = [p \in Pid |-> IF p \in dead THEN SigintStatus ELSE code[p]]

\* Ctrl+C while a child's group owns the terminal.
CtrlC ==
    /\ fgGroup \in Pid
    /\ SigInt(fgGroup)
    /\ UNCHANGED <<note, grp, nextPid, fgGroup, active, tableVars, callVars>>

----------------------------------------------------------------------------
(* Launching a simple command: _run_external.                              *)

GiveTerminalTo(g) ==                \* tcsetpgrp_safely(_tty_fd, g)
    fgGroup' = IF fgGroup = NoTerminal THEN NoTerminal
               ELSE IF Members(g) # {} THEN g ELSE ShellGroup

KeepTerminal == fgGroup' = fgGroup        \* variant: no finally clause

TakeTerminalBack ==
    fgGroup' = IF fgGroup = NoTerminal THEN NoTerminal ELSE ShellGroup

AddJob(g, S, st) ==                 \* JobTable.add_job (and mark_stopped)
    /\ table'   = table \union {nextId}
    /\ status'  = [status EXCEPT ![nextId] = st]
    /\ pids'    = [pids EXCEPT ![nextId] = S]
    /\ pgid'    = [pgid EXCEPT ![nextId] = g]
    /\ lastStatus' = [lastStatus EXCEPT ![nextId] = 0]
    /\ stages'  = [stages EXCEPT ![nextId] = S]
    /\ nextId'  = nextId + 1
    /\ current' = nextId

\* Popen.__init__ first polls every Popen object in subprocess._active, which
\* reaps the children that have terminated and drops the ones already reaped.
Stolen    == {p \in active : proc[p] = "zombie"}
Cleanup   == active' = {p \in active : proc[p] \in {"running", "stopped"}}

Spawn(p) ==                         \* Popen with make_child_preexec
    /\ proc' = [q \in Pid |-> IF q = p THEN "running"
                              ELSE IF q \in Stolen THEN "reaped" ELSE proc[q]]
    /\ Cleanup
    /\ grp' = [grp EXCEPT ![p] = p]
    /\ nextPid' = nextPid + 1
    /\ handle' = p

CanLaunch(n) ==
    /\ pc = "idle"
    /\ n \in StageCounts
    /\ nextPid + n - 1 <= MaxPid
    /\ nextId <= MaxJobs

RunBackground ==
    /\ CanLaunch(1)
    /\ Spawn(nextPid)
    /\ AddJob(nextPid, {nextPid}, "Running")
    /\ pc' = "unwind"
    /\ UNCHANGED <<note, code, fgGroup, todo, want, background, fjob, res>>

RunForeground ==
    /\ CanLaunch(1)
    /\ Spawn(nextPid)
    /\ todo' = {nextPid}
    /\ pc' = "spawned"
    /\ UNCHANGED <<note, code, fgGroup, tableVars, want, background, fjob, res>>

\* Any Popen whose own child is gone when it returns: a command that was not
\* found, a command substitution, a version probe of the prompt.
PopenElsewhere ==
    /\ pc = "idle"
    /\ proc' = [p \in Pid |-> IF p \in Stolen THEN "reaped" ELSE proc[p]]
    /\ Cleanup
    /\ UNCHANGED <<note, code, grp, nextPid, fgGroup, tableVars, callVars>>

CommandHandOver ==
    /\ pc = "spawned"
    /\ GiveTerminalTo(handle)
    /\ pc' = "waitCmd"
    /\ UNCHANGED <<proc, note, code, grp, nextPid, active, tableVars,
                   todo, want, background, fjob, res, handle>>

CommandExited ==                    \* waitpid(pid, WUNTRACED): not WIFSTOPPED
    /\ pc = "waitCmd"
    /\ proc[handle] = "zombie"
    /\ proc' = [proc EXCEPT ![handle] = "reaped"]
    /\ TakeTerminalBack
    /\ todo' = {}
    /\ pc' = "unwind"
    /\ UNCHANGED <<note, code, grp, nextPid, active, tableVars,
                   want, background, fjob, res, handle>>

CommandStopped ==                   \* WIFSTOPPED: the command becomes a job
    /\ pc = "waitCmd"
    /\ proc[handle] = "stopped" /\ note[handle]
    /\ note' = [note EXCEPT ![handle] = FALSE]
    /\ AddJob(handle, {handle}, "Stopped")
    /\ TakeTerminalBack
    /\ todo' = {}
    /\ pc' = "unwind"
    /\ UNCHANGED <<proc, code, grp, nextPid, active,
                   want, background, fjob, res, handle>>

\* _run_external returns and its Popen object is collected: Popen.__del__ polls
\* the child once and, when it is still alive, keeps the object in _active.
DropPopen ==
    /\ pc = "unwind"
    /\ proc' = [proc EXCEPT ![handle] = IF @ = "zombie" THEN "reaped" ELSE @]
    /\ active' = IF proc[handle] \in {"running", "stopped"}
                 THEN active \union {handle} ELSE active
    /\ handle' = None
    /\ pc' = "idle"
    /\ UNCHANGED <<note, code, grp, nextPid, fgGroup, tableVars,
                   todo, want, background, fjob, res>>

----------------------------------------------------------------------------
(* Launching a pipeline: _execute_resolved_pipeline.                       *)

StartPipeline(n, bg) ==
    /\ n > 1
    /\ CanLaunch(n)
    /\ want' = n
    /\ background' = bg
    /\ pc' = "forking"
    /\ UNCHANGED <<kernelVars, active, tableVars, todo, fjob, res, handle>>

ForkStage ==                        \* fork, and setpgid in parent and child
    /\ pc = "forking" /\ want > 0
    /\ proc' = [proc EXCEPT ![nextPid] = "running"]
    /\ grp'  = [grp EXCEPT ![nextPid] = IF todo = {} THEN nextPid ELSE Min(todo)]
    /\ nextPid' = nextPid + 1
    /\ todo' = todo \union {nextPid}
    /\ want' = want - 1
    /\ UNCHANGED <<note, code, fgGroup, active, tableVars,
                   pc, background, fjob, res, handle>>

ForkFails ==                        \* OSError: _terminate_and_reap(pids)
    /\ pc = "forking" /\ want > 0
    /\ proc' = [p \in Pid |-> IF p \in todo THEN "reaped" ELSE proc[p]]
    /\ note' = [p \in Pid |-> note[p] /\ p \notin todo]
    /\ todo' = {}
    /\ want' = 0
    /\ background' = FALSE
    /\ pc' = "idle"
    /\ UNCHANGED <<code, grp, nextPid, fgGroup, active, tableVars,
                   fjob, res, handle>>

PipelineToBackground ==
    /\ pc = "forking" /\ want = 0 /\ background
    /\ AddJob(Min(todo), todo, "Running")
    /\ todo' = {}
    /\ background' = FALSE
    /\ pc' = "idle"
    /\ UNCHANGED <<kernelVars, active, want, fjob, res, handle>>

PipelineHandOver ==
    /\ pc = "forking" /\ want = 0 /\ ~background
    /\ GiveTerminalTo(Min(todo))
    /\ pc' = "waitPipe"
    /\ UNCHANGED <<proc, note, code, grp, nextPid, active, tableVars,
                   todo, want, background, fjob, res, handle>>

\* waitpid(pid, 0) reports only termination, and the stages are waited for in
\* the order they were forked.
PipelineStageExited ==
    /\ pc = "waitPipe"
    /\ LET p == Min(todo) IN
        /\ proc[p] = "zombie"
        /\ proc' = [proc EXCEPT ![p] = "reaped"]
        /\ todo' = todo \ {p}
        /\ IF todo = {p}
           THEN TakeTerminalBack /\ pc' = "idle"
           ELSE UNCHANGED <<fgGroup, pc>>
    /\ UNCHANGED <<note, code, grp, nextPid, active, tableVars,
                   want, background, fjob, res, handle>>

----------------------------------------------------------------------------
(* The builtins fg, bg and jobs, and the prompt.                           *)

\* _resolve_job_arg: the number, or nothing for the current job, names a job of
\* the table; otherwise fg and bg report an error and do nothing.
Resolves(j) == j \in table

FgWithoutSigcont(j) ==              \* variant: the job is not resumed
    /\ pc = "idle"
    /\ Resolves(j)
    /\ GiveTerminalTo(pgid[j])
    /\ status' = [status EXCEPT ![j] = "Running"]
    /\ fjob' = j
    /\ todo' = pids[j]
    /\ res'  = 0
    /\ pc'   = "waitJob"
    /\ UNCHANGED <<proc, note, code, grp, nextPid, active, table, pids, pgid,
                   lastStatus, stages, nextId, current, want, background, handle>>

\* fg with a job id; without one it takes the job get_current_job names.
Fg(j) ==
    /\ pc = "idle"
    /\ Resolves(j)
    /\ GiveTerminalTo(pgid[j])
    /\ IF status[j] = "Stopped" THEN Continue(pgid[j]) ELSE UNCHANGED <<proc, note>>
    /\ status' = [status EXCEPT ![j] = "Running"]
    /\ fjob' = j
    /\ todo' = pids[j]
    /\ res'  = 0
    /\ pc'   = "waitJob"
    /\ UNCHANGED <<code, grp, nextPid, active, table, pids, pgid, lastStatus,
                   stages, nextId, current, want, background, handle>>

WaitedExited ==                     \* one turn of _wait_for_job's loop
    /\ pc = "waitJob" /\ todo # {}
    /\ LET p == Min(todo) IN
        /\ proc[p] \in {"zombie", "reaped"}     \* reaped: ChildProcessError
        /\ proc' = [proc EXCEPT ![p] = "reaped"]
        /\ res'  = IF proc[p] = "zombie" THEN code[p] ELSE res
        /\ todo' = todo \ {p}
    /\ UNCHANGED <<note, code, grp, nextPid, fgGroup, active, tableVars,
                   pc, want, background, fjob, handle>>

FgReturns(st) ==                    \* the return path of _builtin_fg
    /\ status' = [status EXCEPT ![fjob] = st]
    /\ TakeTerminalBack
    /\ todo' = {}
    /\ res'  = 0
    /\ fjob' = None
    /\ pc'   = "idle"
    /\ UNCHANGED <<table, pids, pgid, stages, nextId, current>>

WaitedStopped ==                    \* mark_stopped, return 148
    /\ pc = "waitJob" /\ todo # {}
    /\ LET p == Min(todo) IN
        /\ proc[p] = "stopped" /\ note[p]
        /\ note' = [note EXCEPT ![p] = FALSE]
    /\ FgReturns("Stopped")
    /\ UNCHANGED <<proc, code, grp, nextPid, active, lastStatus,
                   want, background, handle>>

DoneAfterFirst ==                   \* variant: returns while stages are left
    /\ pc = "waitJob"
    /\ lastStatus' = [lastStatus EXCEPT ![fjob] = res]
    /\ FgReturns("Done")
    /\ UNCHANGED <<proc, note, code, grp, nextPid, active,
                   want, background, handle>>

WaitedDone ==                       \* mark_done(job_id, exit_status)
    /\ pc = "waitJob" /\ todo = {}
    /\ lastStatus' = [lastStatus EXCEPT ![fjob] = res]
    /\ FgReturns("Done")
    /\ UNCHANGED <<proc, note, code, grp, nextPid, active,
                   want, background, handle>>

\* killpg fails when every process of the group has been reaped, and the job
\* then stays Stopped.
Bg(j) ==
    /\ pc = "idle"
    /\ Resolves(j)
    /\ status[j] = "Stopped"
    /\ Members(pgid[j]) # {}
    /\ Continue(pgid[j])
    /\ status' = [status EXCEPT ![j] = "Running"]
    /\ UNCHANGED <<code, grp, nextPid, fgGroup, active, table, pids, pgid,
                   lastStatus, stages, nextId, current, callVars>>

\* JobTable.reap_background_jobs: waitpid(pid, WNOHANG | WUNTRACED) for each pid
\* of each Running job.
Polled     == {j \in table : status[j] = "Running"}
Ended(j)   == {p \in pids[j] : proc[p] = "zombie"}
Noted(j)   == {p \in pids[j] : proc[p] = "stopped" /\ note[p]}
NotStopped(j) == {p \in pids[j] : proc[p] = "running"}    \* variant of StillUp
StillUp(j) == {p \in pids[j] : proc[p] \in {"running", "stopped"}}

Reap ==
    /\ proc' = [p \in Pid |-> IF \E j \in Polled : p \in Ended(j)
                              THEN "reaped" ELSE proc[p]]
    /\ note' = [p \in Pid |-> note[p] /\ ~ \E j \in Polled : p \in Noted(j)]
    /\ pids' = [j \in JobId |-> IF j \in Polled THEN StillUp(j) ELSE pids[j]]
    /\ status' = [j \in JobId |->
                    IF j \notin Polled       THEN status[j]
                    ELSE IF Noted(j) # {}    THEN "Stopped"
                    ELSE IF StillUp(j) = {}  THEN "Done"
                    ELSE "Running"]
    /\ lastStatus' = [j \in JobId |->
                        IF j \in Polled /\ StillUp(j) = {} /\ Ended(j) # {}
                        THEN code[Max(Ended(j))] ELSE lastStatus[j]]
    /\ UNCHANGED <<code, grp, nextPid, fgGroup, active, pgid, stages, nextId,
                   callVars>>

Prompt ==                           \* run(): reap, then read a line
    /\ pc = "idle"
    /\ Reap
    /\ UNCHANGED <<table, current>>

RemoveDone ==                       \* after the reap of the same call
    /\ table' = {j \in table : status'[j] # "Done"}
    /\ current' = IF current \in table' THEN current ELSE None

Jobs ==                             \* reap, list, then remove_done
    /\ pc = "idle"
    /\ Reap
    /\ RemoveDone

\* get_current_job over the statuses st: the job fg and bg take by default.
CurrentJob(st) ==
    LET alive == {j \in table : st[j] \in {"Running", "Stopped"}}
    IN  IF current \in alive THEN current
        ELSE IF alive # {} THEN Max(alive) ELSE None

----------------------------------------------------------------------------
(* Ctrl+C that reaches the shell itself, and leaving the shell.            *)

\* Variant: the group of the current job instead of the waited one.
CurrentGroup == IF current # None THEN pgid[current] ELSE grp[Min(todo)]

WaitedGroup == IF pc = "waitJob" THEN pgid[fjob] ELSE grp[Min(todo)]

Interrupt ==                        \* KeyboardInterrupt: killpg(pgid, SIGINT)
    /\ pc \in {"waitCmd", "waitPipe", "waitJob"}
    /\ todo # {}
    /\ fgGroup \notin Pid
    /\ SigInt(WaitedGroup)
    /\ pc' = "interrupted"
    /\ UNCHANGED <<note, grp, nextPid, fgGroup, active, tableVars,
                   todo, want, background, fjob, res, handle>>

InterruptedExited ==                \* then waitpid(pid, 0) for the rest
    /\ pc = "interrupted" /\ todo # {}
    /\ LET p == Min(todo) IN
        /\ proc[p] \in {"zombie", "reaped"}
        /\ proc' = [proc EXCEPT ![p] = "reaped"]
        /\ todo' = todo \ {p}
    /\ UNCHANGED <<note, code, grp, nextPid, fgGroup, active, tableVars,
                   pc, want, background, fjob, res, handle>>

InterruptedReturns ==               \* return 130, or mark_done(job_id, 130)
    /\ pc = "interrupted" /\ todo = {}
    /\ IF fjob # None
       THEN /\ lastStatus' = [lastStatus EXCEPT ![fjob] = SigintStatus]
            /\ FgReturns("Done")
       ELSE /\ pc' = IF handle # None THEN "unwind" ELSE "idle"
            /\ TakeTerminalBack
            /\ UNCHANGED <<tableVars, todo, fjob, res>>
    /\ UNCHANGED <<proc, note, code, grp, nextPid, active,
                   want, background, handle>>

\* KeyboardInterrupt where no handler catches it: it leaves run().
Escape ==
    /\ pc \in {"forking", "spawned", "interrupted"}
    /\ fgGroup \notin Pid
    /\ pc' = "exited"
    /\ UNCHANGED <<kernelVars, active, tableVars,
                   todo, want, background, fjob, res, handle>>

Leave ==                            \* exit, end of file: jobs are not killed
    /\ pc = "idle"
    /\ pc' = "exited"
    /\ UNCHANGED <<kernelVars, active, tableVars,
                   todo, want, background, fjob, res, handle>>

Exited == pc = "exited" /\ UNCHANGED vars

----------------------------------------------------------------------------
Child(p) == (\E c \in Codes : Exit(p, c)) \/ Kill(p)

Signals == CtrlC \/ \E g \in Pid : StopGroup(g) \/ ContGroup(g)

User ==                             \* what the user may type at the prompt
    \/ RunBackground \/ RunForeground \/ PopenElsewhere
    \/ \E n \in StageCounts, bg \in BOOLEAN : StartPipeline(n, bg)
    \/ \E j \in JobId : Fg(j) \/ Bg(j)
    \/ Jobs \/ Prompt \/ Leave

Call ==                             \* a call in progress goes on
    \/ CommandHandOver \/ CommandExited \/ CommandStopped \/ DropPopen
    \/ ForkStage \/ PipelineToBackground \/ PipelineHandOver
    \/ PipelineStageExited
    \/ WaitedExited \/ WaitedStopped \/ WaitedDone
    \/ InterruptedExited \/ InterruptedReturns

Fault == ForkFails \/ Interrupt \/ Escape

Next == (\E p \in Pid : Child(p)) \/ Signals \/ User \/ Call \/ Fault \/ Exited

Spec == Init /\ [][Next]_vars

\* The shell does not pause inside a call, and a child terminates if it is
\* given the chance again and again, however often it is stopped meanwhile.
Fairness == WF_vars(Call) /\ \A p \in Pid : SF_vars(\E c \in Codes : Exit(p, c))

FairSpec == Spec /\ Fairness

----------------------------------------------------------------------------
KernelTypes ==
    /\ proc \in [Pid -> ProcState]
    /\ note \in [Pid -> BOOLEAN]
    /\ code \in [Pid -> ExitStatus]
    /\ grp  \in [Pid -> Pid \union {ShellGroup}]
    /\ nextPid \in 1..(MaxPid + 1)
    /\ fgGroup \in Pid \union {ShellGroup, NoTerminal}
    /\ active  \in SUBSET Pid

TableTypes ==
    /\ table  \in SUBSET JobId
    /\ status \in [JobId -> JobStatus]
    /\ pids   \in [JobId -> SUBSET Pid]
    /\ stages \in [JobId -> SUBSET Pid]
    /\ pgid   \in [JobId -> Pid \union {ShellGroup}]
    /\ lastStatus \in [JobId -> ExitStatus]
    /\ nextId  \in 1..(MaxJobs + 1)
    /\ current \in JobId \union {None}

CallTypes ==
    /\ pc \in PC
    /\ todo \in SUBSET Pid
    /\ want \in 0..MaxPid
    /\ background \in BOOLEAN
    /\ fjob \in JobId \union {None}
    /\ res  \in ExitStatus
    /\ handle \in Pid \union {None}

TypeOK == KernelTypes /\ TableTypes /\ CallTypes

\* A child the kernel still keeps is always known to somebody who can reap it:
\* the call in progress, or a job that is Running or Stopped and lists it.
Tracked ==
    pc # "exited" =>
        \A p \in Pid : Unreaped(p) =>
            p \in todo \/ \E j \in table : Alive(j) /\ p \in pids[j]

\* "Done" is never announced early: every process the job was started with has
\* been reaped (reap_background_jobs, _wait_for_job and its interrupt path).
DoneMeansReaped ==
    \A j \in table : status[j] = "Done" =>
        \A p \in stages[j] : proc[p] = "reaped"

\* Stops are seen.  A job the table calls Running has no process whose stop was already
\* consumed, or _wait_for_job would block for ever on it; and the terminal belongs to the
\* group that is being waited for, or has been taken back, so that the prompt never reads
\* from a terminal a stopped job still owns.
StopsAreSeen ==
    /\ \A j \in table : status[j] = "Running" =>
          \A p \in pids[j] : proc[p] = "stopped" => note[p]
    /\ fgGroup \in Pid =>
          \/ pc \in {"waitCmd", "waitPipe"} /\ \A p \in todo : grp[p] = fgGroup
          \/ pc = "waitJob" /\ pgid[fjob] = fgGroup

\* Ctrl+C, delivered to the terminal's group or forwarded by the shell, kills
\* no process of a job in the background.
BackgroundSpared ==
    [][(CtrlC \/ Interrupt) =>
        \A j \in table : j # fjob =>
            \A p \in pids[j] : proc'[p] = proc[p]]_vars

\* A foreground command, or a job brought to the foreground, gives the prompt
\* back: it ends, or it stops and the shell notices.  Without a terminal Ctrl+C
\* makes the shell wait with waitpid(pid, 0), which a stopped child holds up.
PromptComesBack ==
    pc \in {"waitCmd", "waitJob"} /\ fgGroup # NoTerminal ~> pc \in {"idle", "exited"}

============================================================================
