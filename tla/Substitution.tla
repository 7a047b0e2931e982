---------------------------- MODULE Substitution ----------------------------
(***************************************************************************)
(* Command substitution (src/pysh/parsing/expansion.py): a shell runs      *)
(* "$(command)" in a nested PySH and captures its output.  The nested PySH *)
(* may substitute in its turn.  The outermost runner starts a process      *)
(* group, the domain; everything below stays in it and is killed with it.  *)
(*                                                                         *)
(* Process 0 is the user's shell, process p the p-th nested PySH that is   *)
(* started, by whatever process.  Who dies may leave a nested PySH behind, *)
(* which goes on in its group.  Kin are the other programs that nested     *)
(* commands start: they inherit the pipes and may outlive whoever started  *)
(* them.                                                                   *)
(*                                                                         *)
(* A unit of output is what one os.write puts into a pipe; its text is not *)
(* modelled, only who wrote it.  A process number is free for reuse when   *)
(* no process, zombie or group has it.                                     *)
(***************************************************************************)
EXTENDS Naturals, FiniteSets

CONSTANTS
    MaxDepth,   \* MAX_SUBSTITUTION_DEPTH
    Kin,        \* programs started by nested commands
    Limit,      \* MAX_SUBSTITUTION_STDOUT_BYTES and _STDERR_BYTES, in units
    Capacity,   \* of a pipe; a read takes as much
    MaxCalls    \* bound: nested shells started

ASSUME DepthAssumption == MaxDepth \in Nat
ASSUME LimitAssumption == /\ Limit \in [{"stdout", "stderr"} -> Nat]
                          /\ Capacity \in Nat \ {0} /\ MaxCalls \in Nat

Stream  == {"stdout", "stderr"}
Process == 0..MaxCalls
Child   == 1..MaxCalls
None    == 0                \* no child, no group

VARIABLES
    life,       \* of each process
    depth,      \* PYSH_SUBSTITUTION_DEPTH of a process
    parent,     \* who started a nested process
    child,      \* the nested process _run_nested of a process is about
    grp,        \* process group of each nested process
    claim,      \* PYSH_SUBSTITUTION_CAPABILITY in the environment of a process
    contained,  \* expansion._containment of each process
    kin,        \* alive, group and pipe of each of the other programs
    reused,     \* who has the number of a group that is gone
    pipe,       \* units in the pipes from a nested process to its runner
    pc,         \* where _run_nested of each process is
    late,       \* the deadline of a runner that still reads has passed
    ended,      \* state of _run_nested
    buf,        \* units in the buffers of _run_nested
    fds,        \* descriptors _run_nested has open
    text,       \* the last text that was substituted for a command
    calls,      \* nested shells started
    lost,       \* nested shells that a Ctrl+C left to nobody, killed or not
    leaked      \* the last substitution of the user's shell left descriptors
                \* that nobody will close

tree   == <<depth, parent, grp, calls, lost>>
family == <<depth, parent, grp, calls, lost, leaked>>
vars == <<life, family, child, claim, contained, kin, reused, pipe, pc, late, ended,
          buf, fds, text>>
world == <<life, family, kin, reused, pipe>>

Units    == [lead : 0..Capacity, kin : 0..Capacity]
Nothing  == [lead |-> 0, kin |-> 0]
Total(u) == u.lead + u.kin
NoOutput == [s \in Stream |-> Nothing]
NoBuffer == [s \in Stream |-> 0]
Gone         == [alive |-> FALSE, grp |-> None, of |-> None]

Drain == [stdout |-> "drain_out", stderr |-> "drain_err"]
Pc == {"idle", "pipe", "spawn", "read", "sweep", "drain_out", "drain_err",
       "kill", "wait", "close"}
Ended == {"none", "exited", "timeout", "stdout", "stderr", "failed", "interrupt"}

TypeOK ==
    /\ life \in [Process -> {"none", "booting", "running", "zombie", "gone"}]
    /\ depth \in [Process -> 0..MaxDepth] /\ parent \in [Child -> Process]
    /\ child \in [Process -> Child \cup {None}] /\ grp \in [Child -> Child \cup {None}]
    /\ claim \in [Process -> {"none", "text", "granted"}]
    /\ contained \in [Process -> BOOLEAN]
    /\ kin \in [Kin -> [alive : BOOLEAN, grp : Child \cup {None}, of : Child \cup {None}]]
    /\ reused \in [Child -> {"no", "alive", "killed"}]
    /\ pipe \in [Child -> [Stream -> Units]]
    /\ \A p \in Child, s \in Stream : Total(pipe[p][s]) <= Capacity
    /\ pc \in [Process -> Pc] /\ late \in [Process -> BOOLEAN]
    /\ \A r \in Process : pc[r] # "idle" => depth[r] < MaxDepth
    /\ ended \in [Process -> Ended]
    /\ buf \in [Process -> [Stream -> Nat]]
    /\ fds \in [Process -> SUBSET {"cap_read", "cap_write", "streams"}]
    /\ text \in [Process -> {"whole", "part", "empty"}] /\ calls \in 0..MaxCalls
    /\ lost \in [Child -> {"no", "unreaped", "unkilled"}] /\ leaked \in BOOLEAN

\* _consume_capability: the pipe that only a runner could have filled
Consumes(c) == c = "granted"

Init ==
    /\ life = [p \in Process |-> IF p = 0 THEN "running" ELSE "none"]
    /\ depth = [p \in Process |-> 0] /\ parent = [p \in Child |-> 0]
    /\ child = [p \in Process |-> None] /\ grp = [p \in Child |-> None]
    /\ claim = [p \in Process |-> "none"]
    /\ \E c \in {"none", "text"} :         \* in the environment of the user's shell
          contained = [p \in Process |-> p = 0 /\ Consumes(c)]
    /\ kin = [k \in Kin |-> Gone] /\ reused = [p \in Child |-> "no"]
    /\ pipe = [p \in Child |-> NoOutput]
    /\ pc = [p \in Process |-> "idle"] /\ late = [p \in Process |-> FALSE]
    /\ ended = [p \in Process |-> "none"]
    /\ buf = [p \in Process |-> NoBuffer] /\ fds = [p \in Process |-> {}]
    /\ text = [p \in Process |-> "empty"] /\ calls = 0
    /\ lost = [p \in Child |-> "no"] /\ leaked = FALSE

Alive(p) == life[p] \in {"booting", "running"}

(***************************************************************************)
(* The operating system: how processes die.                                *)
(***************************************************************************)

\* What becomes of the processes "dead".  A dead child is a zombie while the
\* process that must reap it lives; its own children go on.
Die(dead) ==
    /\ life' = [p \in Process |->
          IF p \in dead \/ (life[p] = "zombie" /\ parent[p] \in dead)
          THEN IF parent[p] \in dead \/ ~Alive(parent[p]) THEN "gone" ELSE "zombie"
          ELSE life[p]]

\* The runner of a dead process is gone, its pipes closed.
Silenced(dead) ==
    /\ child' = [p \in Process |-> IF p \in dead THEN None ELSE child[p]]
    /\ fds' = [p \in Process |-> IF p \in dead THEN {} ELSE fds[p]]
    /\ buf' = [p \in Process |-> IF p \in dead THEN NoBuffer ELSE buf[p]]
    /\ ended' = [p \in Process |-> IF p \in dead THEN "none" ELSE ended[p]]
    /\ late' = [p \in Process |-> late[p] /\ p \notin dead]

Members(g)    == {p \in Child : grp[p] = g /\ Alive(p)}
KinMembers(g) == {k \in Kin : kin[k].alive /\ kin[k].grp = g}

NumberFree(g) ==
    life[g] \in {"none", "gone"} /\ Members(g) = {} /\ KinMembers(g) = {}

\* _kill_group: every process of the group, whoever it is by now
KillGroup(g) ==
    /\ Die(Members(g))
    /\ kin' = [k \in Kin |-> IF k \in KinMembers(g) THEN Gone ELSE kin[k]]
    /\ reused' = [reused EXCEPT ![g] = IF @ = "alive" THEN "killed" ELSE @]

\* process.kill: the nested PySH alone
KillChild(p) ==
    /\ Die({p} \cap {q \in Child : Alive(q)})
    /\ UNCHANGED <<kin, reused>>

(***************************************************************************)
(* The runner.                                                             *)
(***************************************************************************)

TooDeep(r) == depth[r] >= MaxDepth

\* _default_runner, called for each "$(" and "`" of a line
Substitute(r) ==
    /\ life[r] = "running" /\ pc[r] = "idle"
    /\ text' = [text EXCEPT ![r] = "empty"]
    /\ IF TooDeep(r) THEN UNCHANGED pc ELSE pc' = [pc EXCEPT ![r] = "pipe"]
    /\ leaked' = (leaked /\ r # 0)
    /\ UNCHANGED <<life, tree, kin, reused, pipe, child, claim, contained, late, ended, buf,
                   fds>>

\* os.pipe, and the token written to it
MakePipe(r) ==
    /\ pc[r] = "pipe"
    /\ \/ /\ pc' = [pc EXCEPT ![r] = "close"]
          /\ ended' = [ended EXCEPT ![r] = "failed"]
          /\ UNCHANGED fds
       \/ /\ fds' = [fds EXCEPT ![r] = {"cap_read"}]
          /\ pc' = [pc EXCEPT ![r] = "spawn"]
          /\ UNCHANGED ended
    /\ UNCHANGED <<world, child, claim, contained, late, buf, text>>

\* start_new_session=not nested_level
GroupOf(r, p) == IF contained[r] THEN grp[r] ELSE p

\* OSError of Popen
SpawnFails(r) ==
    /\ pc' = [pc EXCEPT ![r] = "close"]
    /\ ended' = [ended EXCEPT ![r] = "failed"]
    /\ UNCHANGED <<world, child, claim, fds>>

\* The fork of Popen
Forks(r, p) ==
    /\ p <= MaxCalls /\ calls' = p
    /\ life' = [life EXCEPT ![p] = "booting"]
    /\ depth' = [depth EXCEPT ![p] = depth[r] + 1]
    /\ parent' = [parent EXCEPT ![p] = r]
    /\ grp' = [grp EXCEPT ![p] = GroupOf(r, p)]
    /\ claim' = [claim EXCEPT ![p] = "granted"]
    /\ UNCHANGED <<kin, reused, pipe, leaked>>

Starts(r, p) ==
    /\ Forks(r, p)
    /\ child' = [child EXCEPT ![r] = p]
    /\ fds' = [fds EXCEPT ![r] = @ \cup {"streams"}]
    /\ pc' = [pc EXCEPT ![r] = "read"]
    /\ UNCHANGED <<lost, ended>>

Spawn(r) ==
    /\ pc[r] = "spawn"
    /\ SpawnFails(r) \/ Starts(r, calls + 1)
    /\ UNCHANGED <<contained, late, buf, text>>

\* One os.read: it takes what the pipe holds.
Take(r, s) ==
    /\ buf' = [buf EXCEPT ![r][s] = @ + Total(pipe[child[r]][s])]
    /\ pipe' = [pipe EXCEPT ![child[r]][s] = Nothing]

Exceeds(r, s) == buf[r][s] + Total(pipe[child[r]][s]) > Limit[s]

\* One stream of an iteration of _pump_until_exit
Pump(r, s) ==
    /\ pc[r] = "read" /\ pipe[child[r]][s] # Nothing
    /\ Take(r, s)
    /\ IF Exceeds(r, s)
         THEN /\ ended' = [ended EXCEPT ![r] = s]
              /\ pc' = [pc EXCEPT ![r] = "kill"]
              /\ late' = [late EXCEPT ![r] = FALSE]
         ELSE UNCHANGED <<ended, pc, late>>
    /\ UNCHANGED <<life, family, child, claim, contained, kin, reused, fds, text>>

\* variant: process.poll reaps it
SeenReaped(r) == life[child[r]] = "zombie" /\ life' = [life EXCEPT ![child[r]] = "gone"]

\* _has_exited: the zombie is seen, not reaped
SeenExited(r) == life[child[r]] = "zombie" /\ UNCHANGED life

\* The end of an iteration: the exit is looked at before the deadline.
Check(r) ==
    /\ pc[r] = "read"
    /\ \/ /\ SeenExited(r)
          /\ ended' = [ended EXCEPT ![r] = "exited"]
          /\ pc' = [pc EXCEPT ![r] = "sweep"]
       \/ /\ life[child[r]] # "zombie" /\ late[r]
          /\ ended' = [ended EXCEPT ![r] = "timeout"]
          /\ pc' = [pc EXCEPT ![r] = "kill"]
          /\ UNCHANGED life
    /\ late' = [late EXCEPT ![r] = FALSE]
    /\ UNCHANGED <<family, child, claim, contained, kin, reused, pipe, buf, fds, text>>

\* The stragglers die before the rest of the output is read.
Sweep(r) ==
    /\ pc[r] = "sweep"
    /\ KillGroup(child[r])
    /\ Silenced(Members(child[r]))
    /\ pc' = [p \in Process |-> IF p = r THEN "drain_out"
                                ELSE IF p \in Members(child[r]) THEN "idle" ELSE pc[p]]
    /\ UNCHANGED <<family, claim, contained, pipe, text>>

\* Where the drain goes when the pipe of a stream is empty
After(s) == IF s = "stdout" THEN "drain_err" ELSE "kill"

\* variant: the end of the stream is awaited
Emptied(r, s) == pipe[child[r]][s] = Nothing /\ \A k \in Kin : kin[k].of # child[r]

Empty(r, s) == pipe[child[r]][s] = Nothing

\* _drain_after_exit
DrainStream(r, s) ==
    /\ pc[r] = Drain[s]
    /\ \/ /\ Empty(r, s)
          /\ pc' = [pc EXCEPT ![r] = After(s)]
          /\ UNCHANGED <<buf, pipe, ended>>
       \/ /\ pipe[child[r]][s] # Nothing /\ Take(r, s)
          /\ IF Exceeds(r, s)
               THEN /\ ended' = [ended EXCEPT ![r] = s]
                    /\ pc' = [pc EXCEPT ![r] = "kill"]
               ELSE UNCHANGED <<ended, pc>>
    /\ UNCHANGED <<life, family, child, claim, contained, kin, reused, late, fds, text>>

Victims(r) == IF contained[r] THEN {child[r]} \cap {q \in Child : Alive(q)}
                              ELSE Members(child[r])

\* The finally of _run_nested
Kill(r) ==
    /\ pc[r] = "kill"
    /\ IF contained[r] THEN KillChild(child[r]) ELSE KillGroup(child[r])
    /\ Silenced(Victims(r))
    /\ pc' = [p \in Process |-> IF p = r THEN "wait"
                                ELSE IF p \in Victims(r) THEN "idle" ELSE pc[p]]
    /\ UNCHANGED <<family, claim, contained, pipe, text>>

\* process.wait
Wait(r) ==
    /\ pc[r] = "wait" /\ life[child[r]] \in {"zombie", "gone"}
    /\ life' = [life EXCEPT ![child[r]] = "gone"]
    /\ pc' = [pc EXCEPT ![r] = "close"]
    /\ UNCHANGED <<family, child, claim, contained, kin, reused, pipe, late, ended, buf,
                   fds, text>>

\* What the buffer is of the command's output: the pipe may hold more of it.
Captured(r) == IF pipe[child[r]]["stdout"].lead = 0 THEN "whole" ELSE "part"

\* variant: also after a timeout or a limit
TextAnyway(r) == IF child[r] = None THEN "empty" ELSE Captured(r)

\* The substituted text: all that was captured, or nothing
Text(r) == IF ended[r] = "exited" THEN Captured(r) ELSE "empty"

\* The two finally clauses; what is left open
LeftOpen(r) == {}

\* The streams of the child are closed, and it is nobody's any more.
Forgets(r) ==
    /\ kin' = [k \in Kin |-> IF kin[k].of = child[r] THEN [kin[k] EXCEPT !.of = None]
                                                  ELSE kin[k]]
    /\ pipe' = [p \in Child |-> IF p = child[r] THEN NoOutput ELSE pipe[p]]
    /\ child' = [child EXCEPT ![r] = None]

\* The frame of _run_nested is left.
Leaves(r) ==
    /\ Forgets(r)
    /\ buf' = [buf EXCEPT ![r] = NoBuffer]
    /\ ended' = [ended EXCEPT ![r] = "none"]
    /\ pc' = [pc EXCEPT ![r] = "idle"]
    /\ UNCHANGED <<life, tree, claim, contained, reused, late>>

Return(r) ==
    /\ pc[r] = "close"
    /\ fds' = [fds EXCEPT ![r] = LeftOpen(r)]
    /\ text' = [text EXCEPT ![r] = Text(r)]
    /\ Leaves(r)
    /\ UNCHANGED leaked

Runner(r) ==
    \/ MakePipe(r) \/ Spawn(r)
    \/ \E s \in Stream : Pump(r, s) \/ DrainStream(r, s)
    \/ Check(r) \/ Sweep(r) \/ Kill(r) \/ Wait(r) \/ Return(r)

(***************************************************************************)
(* What happens to a runner.                                               *)
(***************************************************************************)

Deadline(r) ==
    /\ pc[r] = "read" /\ ~late[r]
    /\ late' = [late EXCEPT ![r] = TRUE]
    /\ UNCHANGED <<world, child, claim, contained, pc, ended, buf, fds, text>>

\* While the output is read the finally kills and reaps.
InterruptedReading ==
    /\ pc[0] \in {"read", "sweep", "drain_out", "drain_err"}
    /\ ended' = [ended EXCEPT ![0] = "interrupt"]
    /\ pc' = [pc EXCEPT ![0] = "kill"]
    /\ late' = [late EXCEPT ![0] = FALSE]
    /\ UNCHANGED <<world, child, claim, contained, buf, fds, text>>

\* In Popen "process" is still None, and the finally kills nothing: a nested
\* shell that was forked is left alive, in a session of its own.
InterruptedPopen ==
    /\ pc[0] = "spawn"
    /\ ended' = [ended EXCEPT ![0] = "interrupt"]
    /\ pc' = [pc EXCEPT ![0] = "close"]
    /\ \/ UNCHANGED <<world, claim>>
       \/ /\ Forks(0, calls + 1)
          /\ lost' = [lost EXCEPT ![calls + 1] = "unkilled"]
    /\ UNCHANGED <<child, contained, late, buf, fds, text>>

\* In the inner finally: before the kill, or between it and the reaping
InterruptedEnding ==
    /\ pc[0] \in {"kill", "wait"}
    /\ ended' = [ended EXCEPT ![0] = "interrupt"]
    /\ pc' = [pc EXCEPT ![0] = "close"]
    /\ lost' = [lost EXCEPT ![child[0]] =
          IF Members(child[0]) = {} /\ KinMembers(child[0]) = {}
          THEN "unreaped" ELSE "unkilled"]
    /\ Forgets(0)
    /\ UNCHANGED <<life, depth, parent, grp, calls, leaked, claim, contained, reused, late,
                   buf, fds, text>>

\* Between os.pipe and the try, and in the outer finally: the numbers of the
\* descriptors are lost with the frame.
InterruptedLeaving ==
    /\ pc[0] \in {"pipe", "close"}
    /\ leaked' \in {leaked, leaked \/ pc[0] = "pipe" \/ "cap_read" \in fds[0]}
    /\ fds' = [fds EXCEPT ![0] = {}]
    /\ text' = [text EXCEPT ![0] = "empty"]
    /\ Leaves(0)

\* A KeyboardInterrupt may fall anywhere in _run_nested, also in a finally that
\* an earlier one entered.  It reaches the user's shell only: a domain is a
\* session of its own.
CtrlC ==
    InterruptedReading \/ InterruptedPopen \/ InterruptedEnding \/ InterruptedLeaving

\* Popen.__del__, or subprocess._cleanup at a later Popen
Collect(p) ==
    /\ lost[p] # "no" /\ life[p] = "zombie"
    /\ life' = [life EXCEPT ![p] = "gone"]
    /\ UNCHANGED <<family, child, claim, contained, kin, reused, pipe, pc, late, ended, buf,
                   fds, text>>

(***************************************************************************)
(* The nested processes.                                                   *)
(***************************************************************************)

\* PyShell.__init__ asks in_substitution_domain once.
Boot(p) ==
    /\ life[p] = "booting"
    /\ life' = [life EXCEPT ![p] = "running"]
    /\ contained' = [contained EXCEPT ![p] = Consumes(claim[p])]
    /\ claim' = [claim EXCEPT ![p] = "none"]
    /\ UNCHANGED <<family, child, kin, reused, pipe, pc, late, ended, buf, fds, text>>

\* Somebody reads what p writes.
Open(p) == p # None /\ child[parent[p]] = p /\ "streams" \in fds[parent[p]]

Write(p, s) ==
    /\ life[p] = "running" /\ pc[p] = "idle"
    /\ Open(p) /\ Total(pipe[p][s]) < Capacity
    /\ pipe' = [pipe EXCEPT ![p][s].lead = @ + 1]
    /\ UNCHANGED <<life, family, child, claim, contained, kin, reused, pc, late, ended, buf,
                   fds, text>>

\* The command is done, or the process dies of something else.
Exit(p) ==
    /\ life[p] \in {"booting", "running"}
    /\ Die({p}) /\ Silenced({p})
    /\ pc' = [pc EXCEPT ![p] = "idle"]
    /\ UNCHANGED <<family, claim, contained, kin, reused, pipe, text>>

\* PyShell._run_external: no process group of its own inside a domain
StartKin(p, k) ==
    /\ life[p] = "running" /\ pc[p] = "idle" /\ ~kin[k].alive
    /\ kin' = [kin EXCEPT ![k] = [alive |-> TRUE, of |-> p,
                                  grp |-> IF contained[p] THEN grp[p] ELSE None]]
    /\ UNCHANGED <<life, family, child, claim, contained, reused, pipe, pc, late, ended,
                   buf, fds, text>>

KinWrites(k, s) ==
    LET p == kin[k].of IN
    /\ kin[k].alive /\ Open(p) /\ Total(pipe[p][s]) < Capacity
    /\ pipe' = [pipe EXCEPT ![p][s].kin = @ + 1]
    /\ UNCHANGED <<life, family, child, claim, contained, kin, reused, pc, late, ended, buf,
                   fds, text>>

\* setsid or setpgid: the documented way out of a domain
KinLeaves(k) ==
    /\ kin[k].alive /\ kin[k].grp # None
    /\ kin' = [kin EXCEPT ![k].grp = None]
    /\ UNCHANGED <<life, family, child, claim, contained, reused, pipe, pc, late, ended,
                   buf, fds, text>>

KinExits(k) ==
    /\ kin[k].alive
    /\ kin' = [kin EXCEPT ![k] = Gone]
    /\ UNCHANGED <<life, family, child, claim, contained, reused, pipe, pc, late, ended,
                   buf, fds, text>>

\* The number of a group that is gone is given to somebody else.
Reuse(g) ==
    /\ grp[g] = g /\ NumberFree(g) /\ reused[g] = "no"
    /\ reused' = [reused EXCEPT ![g] = "alive"]
    /\ UNCHANGED <<life, family, child, claim, contained, kin, pipe, pc, late, ended, buf,
                   fds, text>>

Next ==
    \/ CtrlC
    \/ \E r \in Process : Substitute(r) \/ Runner(r) \/ Deadline(r)
    \/ \E p \in Child : \/ Boot(p) \/ Exit(p) \/ Reuse(p) \/ Collect(p)
                        \/ \E s \in Stream : Write(p, s)
                        \/ \E k \in Kin : StartKin(p, k)
    \/ \E k \in Kin : \/ KinLeaves(k) \/ KinExits(k)
                      \/ \E s \in Stream : KinWrites(k, s)

Spec == Init /\ [][Next]_vars

(***************************************************************************)
(* Fairness.  A runner never waits for anything but its child's exit, the  *)
(* deadline or, once it killed it, the death of the child: its loop polls. *)
(***************************************************************************)
FairSpec ==
    /\ Spec
    /\ \A r \in Process : WF_vars(Runner(r)) /\ WF_vars(Deadline(r))

(***************************************************************************)
(* Properties.                                                             *)
(***************************************************************************)

\* A substitution that has returned left no descriptor open and its child
\* reaped, also when starting the child failed: except for what a Ctrl+C in
\* Popen or in a finally took out of its hands.
NothingLeftOpen ==
    \A r \in Process : pc[r] = "idle" =>
        /\ fds[r] = {}
        /\ life[r] = "running" =>
              \A p \in Child : parent[p] = r =>
                                  life[p] \in {"none", "gone"} \/ lost[p] # "no"

\* The group number is never used after it was given to somebody else: the
\* leader is reaped only when its group has been killed.
StrangersSpared == \A g \in Child : reused[g] # "killed"

\* The runner of the process that leads the group is at work on it.
Supervised(g) == g # None /\ pc[parent[g]] # "idle" /\ child[parent[g]] = g

\* Nobody will kill the group: a Ctrl+C fell before its leader was known to
\* the runner, or in the finally before the kill.
Unkilled(g) == g # None /\ lost[g] = "unkilled"

\* Whatever way a substitution ends (completion, timeout, limit, failure, a
\* crash of the nested shell, Ctrl+C while its output is read), nothing of its
\* process group outlives it and no other group is killed in its place: while a
\* member is alive the runner that will kill the group is at work; and no
\* descriptor stays open.  A Ctrl+C that falls within Popen, or in the finally
\* before the group is killed, leaves that one group alive, and none other: a
\* later substitution sweeps its own and spares it.
Swept ==
    /\ TypeOK /\ NothingLeftOpen /\ StrangersSpared
    /\ \A p \in Child : Alive(p) => Supervised(grp[p]) \/ Unkilled(grp[p])
    /\ \A k \in Kin : kin[k].alive /\ kin[k].grp # None
                         => Supervised(kin[k].grp) \/ Unkilled(kin[k].grp)

\* The capture is bounded: the limit and one read.
BoundedCapture ==
    \A r \in Process, s \in Stream : buf[r][s] <= Limit[s] + Capacity

\* A substituted text is everything the nested shell wrote, or it is empty: the
\* last bytes before an exit are captured, and a capture that was cut short is
\* not used; and what is captured before that is bounded.
WholeText == BoundedCapture /\ \A r \in Process : text[r] # "part"

\* Every substitution returns, whatever its descendants do: a straggler that
\* keeps the pipe open, or one that never stops writing, cannot hold it.
EverySubstitutionReturns ==
    \A r \in Process : (pc[r] # "idle") ~> (pc[r] = "idle")

=============================================================================
