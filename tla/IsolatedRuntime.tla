--------------------------- MODULE IsolatedRuntime ---------------------------
(***************************************************************************)
(* Isolated plugins: the parent's side of one child process per runtime    *)
(* (plugins/isolated/runtime.py), with its wall-clock watchdog thread and  *)
(* the concurrency permits of supervisor.py.  Each runtime is used by one  *)
(* caller thread; the caller and the watchdog share the runtime's fields   *)
(* and both may terminate the child and finalize the runtime.              *)
(*                                                                         *)
(* _terminate_process (labels term, grace, kill, last) and _finalize       *)
(* (cancel, join, clean, settle) are called from several places; termBack  *)
(* and finBack are the labels their thread returns to.                     *)
(***************************************************************************)
EXTENDS Integers, FiniteSets

CONSTANTS
    Runtime,       \* runtime objects of one plugin, sharing one governor
    Limit,         \* the effective budget's concurrency
    SinkMayRaise   \* may the event sink raise an Exception?

ASSUME RuntimeAssumption == IsFiniteSet(Runtime)
ASSUME LimitAssumption   == Limit \in Nat \ {0}
ASSUME SinkAssumption    == SinkMayRaise \in BOOLEAN

Thread == {"caller", "watchdog"}

State     == {"new", "handshaking", "running", "stopped", "failed"}
Violation == {"none", "wall_clock", "message_size"}

CallerLabels   == {"idle", "spawn", "hello", "ready", "enter", "request",
                   "oversize", "except", "fail", "leave",
                   "bye", "ack", "wait", "goodbye"}
WatchdogLabels == {"absent", "sleep", "gate", "poll", "claim", "report",
                   "idleCheck", "ended"}
TermLabels     == {"term", "grace", "kill", "last"}
FinalLabels    == {"cancel", "join", "clean", "settle"}
Label          == CallerLabels \union WatchdogLabels \union TermLabels
                  \union FinalLabels

VARIABLES
    \* the fields of each runtime that _lock and the other locks guard
    state, busy, closing, finalized, groupReleased, violation,
    permit,      \* is _permit not None?
    active,      \* the governor: permits given out for this plugin
    \* the operating system
    leader,      \* the child, leader of its own process group
    exit0,       \* was its exit status 0?
    kin,         \* are descendants of the child alive in that group?
    stranger,    \* has an unrelated group been given the child's number?
    handles,     \* which of its pipes and working directory exist
    \* the threads of each runtime
    pc, termBack, finBack,
    final,       \* the argument of _finalize
    cancelled,   \* the watchdog's Event
    \* history
    reported,    \* kinds of the events that were emitted
    hit          \* signals that reached an unrelated group

fields  == <<state, busy, closing, finalized, groupReleased, violation>>
permits == <<permit, active>>
os      == <<leader, exit0, kin, stranger, handles>>
back    == <<termBack, finBack, final>>
history == <<reported, hit>>
runtimeVars    == <<fields, permits, os, pc, back, cancelled, history>>

----------------------------------------------------------------------------
RuntimeInit ==
    /\ state     = [r \in Runtime |-> "new"]
    /\ busy      = [r \in Runtime |-> 0]
    /\ closing   = [r \in Runtime |-> FALSE]
    /\ finalized = [r \in Runtime |-> FALSE]
    /\ groupReleased = [r \in Runtime |-> FALSE]
    /\ violation = [r \in Runtime |-> "none"]
    /\ permit    = [r \in Runtime |-> FALSE]
    /\ active    = 0
    /\ leader    = [r \in Runtime |-> "none"]
    /\ exit0     = [r \in Runtime |-> FALSE]
    /\ kin       = [r \in Runtime |-> FALSE]
    /\ stranger  = [r \in Runtime |-> FALSE]
    /\ handles   = [r \in Runtime |-> {}]
    /\ pc        = [r \in Runtime |-> [t \in Thread |->
                        IF t = "caller" THEN "idle" ELSE "absent"]]
    /\ termBack  = [r \in Runtime |-> [t \in Thread |-> "clean"]]
    /\ finBack   = [r \in Runtime |-> [t \in Thread |-> "idle"]]
    /\ final     = [r \in Runtime |-> [t \in Thread |-> "failed"]]
    /\ cancelled = [r \in Runtime |-> FALSE]
    /\ reported  = [r \in Runtime |-> {}]
    /\ hit       = [r \in Runtime |-> {}]

At(r, t, label) == pc[r][t] = label

Goto(r, t, label) == pc' = [pc EXCEPT ![r][t] = label]

Terminating(r, t, after) ==             \* call _terminate_process()
    /\ Goto(r, t, "term")
    /\ termBack' = [termBack EXCEPT ![r][t] = after]

Finalizing(r, t, outcome, after) ==     \* call _finalize(outcome)
    /\ Goto(r, t, "cancel")
    /\ finBack' = [finBack EXCEPT ![r][t] = after]
    /\ final'   = [final EXCEPT ![r][t] = outcome]
    /\ UNCHANGED termBack

Report(r, kind) == reported' = [reported EXCEPT ![r] = @ \union {kind}]

\* After an event was emitted: the sink may have raised.
AfterEmit(label) == {label} \union (IF SinkMayRaise THEN {"except"} ELSE {})

\* Variant: shutdown does not claim the runtime.
ClaimableWhileClosing(r) == violation[r] = "none" /\ ~finalized[r]

Claimable(r) ==                         \* _claim_violation, under _lock
    violation[r] = "none" /\ ~closing[r] /\ ~finalized[r]

----------------------------------------------------------------------------
(* The child, its descendants and the numbers of process groups.           *)

ChildExits(r) ==
    /\ leader[r] = "alive"
    /\ leader' = [leader EXCEPT ![r] = "zombie"]
    /\ \E ok \in BOOLEAN : exit0' = [exit0 EXCEPT ![r] = ok]
    /\ UNCHANGED <<fields, permits, kin, stranger, handles, pc, back, cancelled, history>>

ChildForks(r) ==
    /\ leader[r] = "alive" /\ ~kin[r]
    /\ kin' = [kin EXCEPT ![r] = TRUE]
    /\ UNCHANGED <<fields, permits, leader, exit0, stranger, handles, pc, back,
                   cancelled, history>>

DescendantsExit(r) ==
    /\ kin[r]
    /\ kin' = [kin EXCEPT ![r] = FALSE]
    /\ UNCHANGED <<fields, permits, leader, exit0, stranger, handles, pc, back,
                   cancelled, history>>

\* The number of a group without members is free for an unrelated process.
Recycle(r) ==
    /\ leader[r] = "reaped" /\ ~kin[r] /\ ~stranger[r]
    /\ stranger' = [stranger EXCEPT ![r] = TRUE]
    /\ UNCHANGED <<fields, permits, leader, exit0, kin, handles, pc, back,
                   cancelled, history>>

Reap(r) == leader' = [leader EXCEPT ![r] = IF @ = "zombie" THEN "reaped" ELSE @]

----------------------------------------------------------------------------
(* start.                                                                  *)

\* A refused permit raises and leaves the runtime as it was.
Start(r) ==
    /\ At(r, "caller", "idle")
    /\ state[r] = "new"
    /\ active < Limit
    /\ active' = active + 1
    /\ permit' = [permit EXCEPT ![r] = TRUE]
    /\ busy'   = [busy EXCEPT ![r] = @ + 1]
    /\ Goto(r, "caller", "spawn")
    /\ UNCHANGED <<state, closing, finalized, groupReleased, violation, os, back,
                   cancelled, history>>

Spawn(r) ==                             \* and the watchdog starts
    /\ At(r, "caller", "spawn")
    /\ leader'  = [leader EXCEPT ![r] = "alive"]
    /\ handles' = [handles EXCEPT ![r] = {"pipes", "cwd"}]
    /\ state'   = [state EXCEPT ![r] = "handshaking"]
    /\ \E label \in AfterEmit("hello") :
            pc' = [pc EXCEPT ![r]["caller"] = label, ![r]["watchdog"] = "sleep"]
    /\ UNCHANGED <<busy, closing, finalized, groupReleased, violation, permits,
                   exit0, kin, stranger, back, cancelled, history>>

SpawnFails(r) ==                        \* no directory, or no process
    /\ At(r, "caller", "spawn")
    /\ \E made \in SUBSET {"cwd"} : handles' = [handles EXCEPT ![r] = made]
    /\ Goto(r, "caller", "except")
    /\ UNCHANGED <<fields, permits, leader, exit0, kin, stranger, back, cancelled,
                   history>>

Hello(r) ==                             \* hello is valid, grant is written
    /\ At(r, "caller", "hello")
    /\ \E label \in AfterEmit("ready") : Goto(r, "caller", label)
    /\ UNCHANGED <<fields, permits, os, back, cancelled, history>>

Ready(r) ==
    /\ At(r, "caller", "ready")
    /\ state' = [state EXCEPT ![r] = "running"]
    /\ \E label \in AfterEmit("leave") : Goto(r, "caller", label)
    /\ UNCHANGED <<busy, closing, finalized, groupReleased, violation, permits,
                   os, back, cancelled, history>>

----------------------------------------------------------------------------
(* serve_once.                                                             *)

ServeOnce(r) ==                         \* the state is read outside the lock
    /\ At(r, "caller", "idle")
    /\ state[r] = "running"
    /\ Goto(r, "caller", "enter")
    /\ UNCHANGED <<fields, permits, os, back, cancelled, history>>

Enter(r) ==
    /\ At(r, "caller", "enter")
    /\ busy' = [busy EXCEPT ![r] = @ + 1]
    /\ Goto(r, "caller", "request")
    /\ UNCHANGED <<state, closing, finalized, groupReleased, violation, permits,
                   os, back, cancelled, history>>

Served(r) ==
    /\ At(r, "caller", "request")
    /\ Goto(r, "caller", "leave")
    /\ UNCHANGED <<fields, permits, os, back, cancelled, history>>

----------------------------------------------------------------------------
(* What can go wrong in an exchange of frames.                             *)

Exchanging(r) == pc[r]["caller"] \in {"hello", "ready", "request"}

\* The handler of start first waits for the launcher, that of serve_once does not.
Handler(r) == IF state[r] = "handshaking" THEN "except" ELSE "fail"

\* A wrong frame, end of file, a timeout, a closed descriptor.
ExchangeFails(r) ==
    /\ Exchanging(r)
    /\ Goto(r, "caller", Handler(r))
    /\ UNCHANGED <<fields, permits, os, back, cancelled, history>>

FrameTooLarge(r) ==                     \* _record_message_violation
    /\ Exchanging(r)
    /\ IF Claimable(r)
       THEN /\ violation' = [violation EXCEPT ![r] = "message_size"]
            /\ Goto(r, "caller", "oversize")
       ELSE UNCHANGED violation /\ Goto(r, "caller", Handler(r))
    /\ UNCHANGED <<state, busy, closing, finalized, groupReleased, permits, os,
                   back, cancelled, history>>

ReportOversize(r) ==                    \* an exception of the sink is dropped
    /\ At(r, "caller", "oversize")
    /\ Report(r, "RESOURCE")
    /\ Goto(r, "caller", Handler(r))
    /\ UNCHANGED <<fields, permits, os, back, cancelled, hit>>

Interrupted(r) ==                       \* except BaseException
    /\ Exchanging(r)
    /\ Finalizing(r, "caller", "failed", "leave")
    /\ UNCHANGED <<fields, permits, os, cancelled, history>>

Except(r) ==                            \* _launcher_refusal
    /\ At(r, "caller", "except")
    /\ UNCHANGED leader \/ (violation[r] = "none" /\ Reap(r))
    /\ Goto(r, "caller", "fail")
    /\ UNCHANGED <<fields, permits, exit0, kin, stranger, handles, back, cancelled,
                   history>>

Fail(r) ==                              \* _fail
    /\ At(r, "caller", "fail")
    /\ IF violation[r] = "none" THEN Report(r, "FAILURE") ELSE UNCHANGED reported
    /\ \/ Finalizing(r, "caller", "failed", "leave")
       \/ /\ SinkMayRaise /\ violation[r] = "none"
          /\ Goto(r, "caller", "leave")
          /\ UNCHANGED back
    /\ UNCHANGED <<fields, permits, os, cancelled, hit>>

LeaveForgetful(r) ==                    \* variant: no pending violation is finished
    /\ At(r, "caller", "leave")
    /\ busy' = [busy EXCEPT ![r] = @ - 1]
    /\ Goto(r, "caller", "idle")
    /\ UNCHANGED <<state, closing, finalized, groupReleased, violation, permits,
                   os, back, cancelled, history>>

Leave(r) ==                             \* the exit of _operation
    /\ At(r, "caller", "leave")
    /\ busy' = [busy EXCEPT ![r] = @ - 1]
    /\ IF violation[r] # "none" /\ ~finalized[r]
       THEN Finalizing(r, "caller", "failed", "idle")
       ELSE Goto(r, "caller", "idle") /\ UNCHANGED back
    /\ UNCHANGED <<state, closing, finalized, groupReleased, violation, permits,
                   os, cancelled, history>>

----------------------------------------------------------------------------
(* shutdown.                                                               *)

ShutdownUnstarted(r) ==
    /\ At(r, "caller", "idle")
    /\ state[r] = "new"
    /\ state' = [state EXCEPT ![r] = "stopped"]
    /\ UNCHANGED <<busy, closing, finalized, groupReleased, violation, permits,
                   os, pc, back, cancelled, history>>

Shutdown(r) ==
    /\ At(r, "caller", "idle")
    /\ state[r] \in {"handshaking", "running"}
    /\ IF violation[r] = "none"
       THEN /\ closing' = [closing EXCEPT ![r] = TRUE]
            /\ Goto(r, "caller", "bye")
            /\ UNCHANGED back
       ELSE Finalizing(r, "caller", "failed", "idle") /\ UNCHANGED closing
    /\ UNCHANGED <<state, busy, finalized, groupReleased, violation, permits, os,
                   cancelled, history>>

SayBye(r) ==
    /\ At(r, "caller", "bye")
    /\ busy' = [busy EXCEPT ![r] = @ + 1]
    /\ Goto(r, "caller", "ack")
    /\ UNCHANGED <<state, closing, finalized, groupReleased, violation, permits,
                   os, back, cancelled, history>>

Acknowledged(r) ==
    /\ At(r, "caller", "ack")
    /\ Goto(r, "caller", "wait")
    /\ UNCHANGED <<fields, permits, os, back, cancelled, history>>

TermLockFree(r) == \A t \in Thread : pc[r][t] \notin {"grace", "kill", "last"}

Graceful(r) ==                          \* the child has exited with status 0
    /\ At(r, "caller", "wait")
    /\ leader[r] # "alive" /\ exit0[r]
    /\ TermLockFree(r)
    /\ Reap(r)
    /\ groupReleased' = [groupReleased EXCEPT ![r] = TRUE]
    /\ Finalizing(r, "caller", "stopped", "goodbye")
    /\ UNCHANGED <<state, busy, closing, finalized, violation, permits, exit0, kin,
                   stranger, handles, cancelled, history>>

ForceStop(r) ==                             \* terminate, then finalize
    /\ Terminating(r, "caller", "cancel")
    /\ finBack' = [finBack EXCEPT ![r]["caller"] = "goodbye"]
    /\ final'   = [final EXCEPT ![r]["caller"] = "stopped"]

WrongStatus(r) ==
    /\ At(r, "caller", "wait")
    /\ leader[r] # "alive" /\ ~exit0[r]
    /\ Reap(r)
    /\ ForceStop(r)
    /\ UNCHANGED <<fields, permits, exit0, kin, stranger, handles, cancelled, history>>

\* No acknowledgement or no exit in time; Ctrl+C reports nothing.
ShutdownFails(r) ==
    /\ At(r, "caller", "ack") \/ At(r, "caller", "wait")
    /\ Report(r, "FAILURE") \/ UNCHANGED reported
    /\ ForceStop(r)
    /\ UNCHANGED <<fields, permits, os, cancelled, hit>>

Goodbye(r) ==
    /\ At(r, "caller", "goodbye")
    /\ Report(r, "STOPPED")
    /\ Goto(r, "caller", "leave")
    /\ UNCHANGED <<fields, permits, os, back, cancelled, hit>>

----------------------------------------------------------------------------
(* _terminate_process, under _term_lock.                                   *)

Signal(r, sig) ==                       \* killpg
    hit' = [hit EXCEPT ![r] = IF stranger[r] THEN @ \union {sig} ELSE @]

Terminate(r, t) ==                      \* SIGTERM may be handled or ignored
    /\ At(r, t, "term")
    /\ TermLockFree(r)
    /\ IF leader[r] = "none" \/ groupReleased[r]
       THEN Goto(r, t, termBack[r][t]) /\ UNCHANGED <<leader, kin, hit>>
       ELSE /\ Signal(r, "TERM")
            /\ \/ UNCHANGED leader
               \/ leader[r] = "alive" /\ leader' = [leader EXCEPT ![r] = "zombie"]
            /\ UNCHANGED kin \/ kin' = [kin EXCEPT ![r] = FALSE]
            /\ Goto(r, t, "grace")
    /\ UNCHANGED <<fields, permits, exit0, stranger, handles, back, cancelled,
                   reported>>

Grace(r, t) ==                          \* reaped, or the grace is over
    /\ At(r, t, "grace")
    /\ Reap(r)
    /\ Goto(r, t, "kill")
    /\ UNCHANGED <<fields, permits, exit0, kin, stranger, handles, back, cancelled,
                   history>>

KillOnlyAlive(r, t) ==                  \* variant: no SIGKILL after a reaped leader
    /\ At(r, t, "kill")
    /\ leader' = [leader EXCEPT ![r] = IF @ = "alive" THEN "zombie" ELSE @]
    /\ kin' = [kin EXCEPT ![r] = @ /\ leader[r] # "alive"]
    /\ Goto(r, t, "last")
    /\ UNCHANGED <<fields, permits, exit0, stranger, handles, back, cancelled,
                   history>>

Kill(r, t) ==
    /\ At(r, t, "kill")
    /\ Signal(r, "KILL")
    /\ leader' = [leader EXCEPT ![r] = IF @ = "alive" THEN "zombie" ELSE @]
    /\ kin' = [kin EXCEPT ![r] = FALSE]
    /\ Goto(r, t, "last")
    /\ UNCHANGED <<fields, permits, exit0, stranger, handles, back, cancelled,
                   reported>>

LastWait(r, t) ==                           \* the last wait is bounded too
    /\ At(r, t, "last")
    /\ Reap(r) \/ UNCHANGED leader
    /\ groupReleased' = [groupReleased EXCEPT ![r] = TRUE]
    /\ Goto(r, t, termBack[r][t])
    /\ UNCHANGED <<state, busy, closing, finalized, violation, permits, exit0, kin,
                   stranger, handles, back, cancelled, history>>

----------------------------------------------------------------------------
(* _finalize.                                                              *)

Cancel(r, t) ==                         \* WallClockWatchdog.cancel
    /\ At(r, t, "cancel")
    /\ cancelled' = [cancelled EXCEPT ![r] = @ \/ ~At(r, "watchdog", "absent")]
    /\ Goto(r, t, "join")
    /\ UNCHANGED <<fields, permits, os, back, history>>

JoinedBySelf(r, t) ==                   \* variant: a thread joins itself
    pc[r]["watchdog"] \in {"absent", "ended"}

Joined(r, t) == t = "watchdog" \/ pc[r]["watchdog"] \in {"absent", "ended"}

FinalizeLockFree(r) ==
    \A t \in Thread : ~ \/ pc[r][t] \in {"clean", "settle"}
                        \/ pc[r][t] \in TermLabels /\ termBack[r][t] = "clean"

Join(r, t) ==                           \* then take _finalize_lock
    /\ At(r, t, "join")
    /\ Joined(r, t)
    /\ FinalizeLockFree(r)
    /\ IF finalized[r]
       THEN Goto(r, t, finBack[r][t]) /\ UNCHANGED termBack
       ELSE Terminating(r, t, "clean")
    /\ UNCHANGED <<fields, permits, os, finBack, final, cancelled, history>>

Clean(r, t) ==                          \* _cleanup_handles
    /\ At(r, t, "clean")
    /\ handles' = [handles EXCEPT ![r] = {}]
    /\ Goto(r, t, "settle")
    /\ UNCHANGED <<fields, permits, leader, exit0, kin, stranger, back, cancelled,
                   history>>

Settle(r, t) ==
    /\ At(r, t, "settle")
    /\ active' = IF permit[r] THEN active - 1 ELSE active
    /\ permit' = [permit EXCEPT ![r] = FALSE]
    /\ state'  = [state EXCEPT ![r] = final[r][t]]
    /\ finalized' = [finalized EXCEPT ![r] = TRUE]
    /\ Goto(r, t, finBack[r][t])
    /\ UNCHANGED <<busy, closing, groupReleased, violation, os, back, cancelled,
                   history>>

----------------------------------------------------------------------------
(* The watchdog thread: WallClockWatchdog._run and _on_deadline.           *)

WatchEnds(r) ==                          \* the event is set, or time is up
    /\ At(r, "watchdog", "sleep")
    /\ Goto(r, "watchdog", "gate")
    /\ UNCHANGED <<fields, permits, os, back, cancelled, history>>

Gate(r) ==
    /\ At(r, "watchdog", "gate")
    /\ Goto(r, "watchdog", IF cancelled[r] THEN "ended" ELSE "poll")
    /\ UNCHANGED <<fields, permits, os, back, cancelled, history>>

Poll(r) ==
    /\ At(r, "watchdog", "poll")
    /\ Reap(r)
    /\ Goto(r, "watchdog", IF leader[r] = "alive" THEN "claim" ELSE "ended")
    /\ UNCHANGED <<fields, permits, exit0, kin, stranger, handles, back, cancelled,
                   history>>

ClaimWallClock(r) ==
    /\ At(r, "watchdog", "claim")
    /\ IF Claimable(r)
       THEN /\ violation' = [violation EXCEPT ![r] = "wall_clock"]
            /\ Goto(r, "watchdog", "report")
       ELSE UNCHANGED violation /\ Goto(r, "watchdog", "ended")
    /\ UNCHANGED <<state, busy, closing, finalized, groupReleased, permits, os,
                   back, cancelled, history>>

ReportUnguarded(r) ==                   \* variant: the exception escapes
    /\ At(r, "watchdog", "report")
    /\ Report(r, "RESOURCE")
    /\ Goto(r, "watchdog", "ended")
    /\ UNCHANGED <<fields, permits, os, back, cancelled, hit>>

ReportWallClock(r) ==                   \* an exception of the sink is dropped
    /\ At(r, "watchdog", "report")
    /\ Report(r, "RESOURCE")
    /\ Terminating(r, "watchdog", "idleCheck")
    /\ UNCHANGED <<fields, permits, os, finBack, final, cancelled, hit>>

IdleCheck(r) ==                         \* busy is read, then the lock released
    /\ At(r, "watchdog", "idleCheck")
    /\ IF busy[r] = 0
       THEN Finalizing(r, "watchdog", "failed", "ended")
       ELSE Goto(r, "watchdog", "ended") /\ UNCHANGED back
    /\ UNCHANGED <<fields, permits, os, cancelled, history>>

----------------------------------------------------------------------------
Child(r) == ChildExits(r) \/ ChildForks(r) \/ DescendantsExit(r) \/ Recycle(r)

Operation(r) == Start(r) \/ ServeOnce(r) \/ ShutdownUnstarted(r) \/ Shutdown(r)

Shared(r, t) ==
    \/ Terminate(r, t) \/ Grace(r, t) \/ Kill(r, t) \/ LastWait(r, t)
    \/ Cancel(r, t) \/ Join(r, t) \/ Clean(r, t) \/ Settle(r, t)

Caller(r) ==
    \/ Spawn(r) \/ SpawnFails(r) \/ Hello(r) \/ Ready(r)
    \/ Enter(r) \/ Served(r)
    \/ ExchangeFails(r) \/ FrameTooLarge(r) \/ ReportOversize(r) \/ Interrupted(r)
    \/ Except(r) \/ Fail(r) \/ Leave(r)
    \/ SayBye(r) \/ Acknowledged(r) \/ Graceful(r) \/ WrongStatus(r)
    \/ ShutdownFails(r) \/ Goodbye(r)
    \/ Shared(r, "caller")

Watchdog(r) ==
    \/ WatchEnds(r) \/ Gate(r) \/ Poll(r) \/ ClaimWallClock(r)
    \/ ReportWallClock(r) \/ IdleCheck(r)
    \/ Shared(r, "watchdog")

RuntimeNext == \E r \in Runtime :
            Child(r) \/ Operation(r) \/ Caller(r) \/ Watchdog(r)

RuntimeSpec == RuntimeInit /\ [][RuntimeNext]_runtimeVars

\* Threads are scheduled, and every read, write and wait has a timeout.
Fairness == \A r \in Runtime : WF_runtimeVars(Caller(r)) /\ WF_runtimeVars(Watchdog(r))

RuntimeFairSpec == RuntimeSpec /\ Fairness

----------------------------------------------------------------------------
FieldTypes ==
    /\ state     \in [Runtime -> State]
    /\ busy      \in [Runtime -> {0, 1}]
    /\ closing   \in [Runtime -> BOOLEAN]
    /\ finalized \in [Runtime -> BOOLEAN]
    /\ groupReleased \in [Runtime -> BOOLEAN]
    /\ violation \in [Runtime -> Violation]
    /\ permit    \in [Runtime -> BOOLEAN]
    /\ active    \in Nat

OsTypes ==
    /\ leader   \in [Runtime -> {"none", "alive", "zombie", "reaped"}]
    /\ exit0    \in [Runtime -> BOOLEAN]
    /\ kin      \in [Runtime -> BOOLEAN]
    /\ stranger \in [Runtime -> BOOLEAN]
    /\ handles  \in [Runtime -> SUBSET {"pipes", "cwd"}]

ThreadTypes ==
    /\ pc        \in [Runtime -> [Thread -> Label]]
    /\ termBack  \in [Runtime -> [Thread -> {"clean", "cancel", "idleCheck"}]]
    /\ finBack   \in [Runtime -> [Thread -> {"leave", "idle", "goodbye", "ended"}]]
    /\ final     \in [Runtime -> [Thread -> {"stopped", "failed"}]]
    /\ cancelled \in [Runtime -> BOOLEAN]

HistoryTypes ==
    /\ reported \in [Runtime -> SUBSET {"RESOURCE", "FAILURE", "STOPPED"}]
    /\ hit      \in [Runtime -> SUBSET {"TERM", "KILL"}]

\* Type correctness of the runtime's fields, the system and the threads.
RuntimeTypeOK == FieldTypes /\ OsTypes /\ ThreadTypes /\ HistoryTypes

\* The governor's counter is exactly the number of runtimes that hold a permit,
\* and never exceeds the limit: permits are released once, on every exit path.
PermitsBalance ==
    /\ active = Cardinality({r \in Runtime : permit[r]})
    /\ active <= Limit

\* The first of shutdown and violation to claim a runtime decides its end: a
\* violated runtime fails and never reports STOPPED, a runtime that shutdown
\* claimed is stopped and reports no violation.
FirstClaimDecides ==
    \A r \in Runtime :
        /\ violation[r] # "none" /\ finalized[r] => state[r] = "failed"
        /\ closing[r] /\ finalized[r] => state[r] = "stopped"
        /\ ~({"RESOURCE", "STOPPED"} \subseteq reported[r])

\* Descendants of a plugin that was not shut down gracefully are gone when the
\* sequence of signals is over.
DescendantsKilled ==
    \A r \in Runtime : finalized[r] /\ (state[r] = "failed" \/ ~exit0[r]) => ~kin[r]

\* A finalized runtime is contained: no child runs, no descendant survives a
\* plugin that had to be stopped, nothing is left open, the permit is back and no
\* expiry of its watchdog can begin any more.
Contained ==
    /\ \A r \in Runtime : finalized[r] =>
        /\ leader[r] # "alive"
        /\ handles[r] = {} /\ ~permit[r]
        /\ pc[r]["watchdog"] \notin {"poll", "claim", "report"}
        /\ pc[r]["watchdog"] \in {"sleep", "gate"} => cancelled[r]
    /\ DescendantsKilled

\* A violation is always finished: between calls either the runtime has been
\* finalized or its watchdog is still at it.
ViolationFinished ==
    \A r \in Runtime :
        violation[r] # "none" /\ pc[r]["caller"] = "idle" =>
            finalized[r] \/ pc[r]["watchdog"] \notin {"absent", "ended"}

\* The lifecycle the documents promise, as an abstract specification.
Contract == INSTANCE IsolatedContract WITH
    phase   <- [r \in Runtime |-> IF permit[r] THEN "active" ELSE state[r]],
    claim   <- [r \in Runtime |->
                  IF violation[r] # "none" THEN "resource"
                  ELSE IF closing[r] THEN "shutdown" ELSE "nobody"],
    permits <- active

ContractHolds == Contract!Spec

\* Under a fair scheduler the deadline ends a child that is still running.
DeadlineEndsChild ==
    \A r \in Runtime :
        pc[r]["watchdog"] = "sleep" /\ leader[r] = "alive" ~> leader[r] # "alive"

\* Every operation returns: start, serve_once and shutdown are bounded, and
\* neither the locks nor the join of the watchdog can block them for ever.
OperationsReturn ==
    \A r \in Runtime : pc[r]["caller"] # "idle" ~> pc[r]["caller"] = "idle"

=============================================================================
