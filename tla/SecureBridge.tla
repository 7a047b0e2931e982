---------------------------- MODULE SecureBridge ----------------------------
(***************************************************************************)
(* The "secure" builtin (src/pysh/security/secure_runner.py): the shell    *)
(* starts a helper process, which forks the command behind a pseudo-       *)
(* terminal and copies bytes between it and the user's terminal.  While    *)
(* the command has echo switched off, the helper shows an indicator.       *)
(*                                                                         *)
(* Three processes run side by side: the shell, the helper and the         *)
(* command.  A step of the helper is one system call with the assignments  *)
(* up to the next.  Ctrl+C on a terminal in cooked mode signals shell and  *)
(* helper; Python raises KeyboardInterrupt when the call in progress is    *)
(* over.  In raw mode Ctrl+C is a byte like any other.                     *)
(***************************************************************************)
EXTENDS Naturals, FiniteSets

CONSTANTS
    Enabled,    \* config.enabled: whether there is an indicator
    Capacity,   \* units the pseudo-terminal holds for the helper
    MaxTyped,   \* bound: keys the user types
    MaxCtrlC    \* bound: Ctrl+C in cooked mode

ASSUME BridgeAssumption == /\ Enabled \subseteq BOOLEAN /\ Capacity \in Nat \ {0}
                           /\ MaxTyped \in Nat /\ MaxCtrlC \in Nat

VARIABLES
    enabled,    \* of this indicator
    shell,      \* where _run_via_helper is
    at,         \* where the helper is
    signal,     \* SIGINT on its way into the helper
    isatty,     \* the input is a terminal
    mode,       \* of that terminal
    armed,      \* restore_input
    visible,    \* local variable of _parent_bridge
    result,     \* what _sync_indicator is about to return
    shown,      \* the indicator is on the screen
    echo,       \* of the pseudo-terminal, set by the command
    stdin,      \* stdin_open
    ready,      \* what select returned
    keys,       \* keys the user may still press
    typed,      \* keys not read yet
    eof,        \* end of the input
    child,      \* the command
    fate,       \* what the command's wait status says, and what was returned
    pty,        \* units of output not read yet
    broken,     \* where the helper was interrupted
    presses     \* Ctrl+C pressed

bridgeVars == <<enabled, shell, at, signal, isatty, mode, armed, visible, result, shown,
                echo, stdin, ready, keys, typed, eof, child, fate, pty, broken, presses>>

Bridge == {"sync", "synced", "select", "read", "resync", "resynced", "stdin", "poll",
           "drain", "drained"}
Place == Bridge \cup {"none", "start", "fork", "setraw", "arm", "int_kill", "int_wait",
                      "finally", "reap", "restore", "ended"}

BridgeTypeOK ==
    /\ enabled \in Enabled /\ shell \in {"open", "wait", "caught", "again", "returned", "raised"}
    /\ at \in Place /\ signal \in {"none", "flight", "now"}
    /\ isatty \in BOOLEAN /\ mode \in {"cooked", "raw"} /\ armed \in BOOLEAN
    /\ visible \in BOOLEAN /\ result \in BOOLEAN /\ shown \in BOOLEAN /\ (shown => enabled)
    /\ echo \in BOOLEAN /\ stdin \in BOOLEAN
    /\ ready \in SUBSET {"master", "in"}
    /\ keys \in 0..MaxTyped /\ typed \in 0..MaxTyped /\ eof \in BOOLEAN
    /\ child \in {"none", "forked", "running", "silent", "zombie", "reaped"}
    /\ fate \in [child : {"none", "exit", "signal"},
                 returned : {"none", "exit", "signal", "zero"}]
    /\ pty \in 0..Capacity
    /\ broken \in SUBSET (Place \cup {"output"}) /\ presses \in 0..MaxCtrlC

BridgeInit ==
    /\ enabled \in Enabled /\ shell = "open" /\ at = "none" /\ signal = "none"
    /\ isatty \in BOOLEAN /\ mode = "cooked" /\ armed = FALSE
    /\ visible = FALSE /\ result = FALSE /\ shown = FALSE
    /\ echo = TRUE /\ stdin = TRUE /\ ready = {}
    /\ keys = MaxTyped /\ typed = 0 /\ eof \in BOOLEAN
    /\ child = "none" /\ fate = [child |-> "none", returned |-> "none"]
    /\ pty = 0 /\ broken = {} /\ presses = 0

(***************************************************************************)
(* The helper.  A call in progress when the signal comes is finished; the  *)
(* next one is not begun.                                                  *)
(***************************************************************************)
Step(from) ==
    /\ at = from /\ signal # "now"
    /\ signal' = IF signal = "flight" THEN "now" ELSE signal

outside == <<enabled, shell, isatty, echo, keys, eof, broken, presses>>
screen  == <<visible, result, shown>>
helpers == <<mode, armed, visible, result, shown, stdin, ready, typed, child, fate, pty>>

\* Python starts, reads the configuration and opens the pseudo-terminal.
Start ==
    /\ Step("start") /\ at' = "fork"
    /\ UNCHANGED <<outside, helpers>>

\* os.fork, os.close(slave_fd), and tcgetattr when the input is a terminal
Fork ==
    /\ Step("fork")
    /\ child' = "forked"
    /\ at' = IF isatty THEN "setraw" ELSE "sync"
    /\ UNCHANGED <<outside, mode, armed, screen, stdin, ready, typed, fate, pty>>

SetRaw ==
    /\ Step("setraw") /\ mode' = "raw" /\ at' = "arm"
    /\ UNCHANGED <<outside, armed, screen, stdin, ready, typed, child, fate, pty>>

Arm ==
    /\ Step("arm") /\ armed' = TRUE /\ at' = "sync"
    /\ UNCHANGED <<outside, mode, screen, stdin, ready, typed, child, fate, pty>>

\* _sync_indicator writes what changes; its result is assigned afterwards.

EchoDisabled == ~echo

Indicates(off) == off /\ enabled

SyncWith(off) ==
    /\ result' = Indicates(off)
    /\ shown' = IF Indicates(off) # visible THEN Indicates(off) ELSE shown

Sync ==
    /\ Step("sync") /\ at' = "synced"
    /\ SyncWith(EchoDisabled)
    /\ UNCHANGED <<outside, mode, armed, visible, stdin, ready, typed, child, fate, pty>>

\* After output the indicator comes back if echo is off.
Resync ==
    /\ Step("resync") /\ at' = "resynced"
    /\ IF EchoDisabled THEN SyncWith(TRUE) ELSE result' = visible /\ UNCHANGED shown
    /\ UNCHANGED <<outside, mode, armed, visible, stdin, ready, typed, child, fate, pty>>

Assigned == result

Assign(from, to) ==
    /\ Step(from) /\ visible' = Assigned /\ at' = to
    /\ UNCHANGED <<outside, mode, armed, result, shown, stdin, ready, typed, child, fate, pty>>

Holds      == {"forked", "running"}    \* the slave is open in the child
Hangup     == child \notin Holds    \* no descriptor of the slave is open
MasterReady == pty > 0 \/ Hangup
InReady    == stdin /\ (typed > 0 \/ eof)

Select ==
    /\ Step("select")
    /\ ready' = {x \in {"master", "in"} : \/ x = "master" /\ MasterReady
                                          \/ x = "in" /\ InReady}
    /\ at' = CASE "master" \in ready' -> "read"
               [] ready' = {"in"}     -> "stdin"
               [] ready' = {}         -> "poll"
    /\ UNCHANGED <<outside, mode, armed, screen, stdin, typed, child, fate, pty>>

\* The indicator is erased before output is copied.
Erased ==
    /\ visible' = FALSE
    /\ shown' = IF visible THEN FALSE ELSE shown

\* EIO or no data ends the loop.  The user's terminal may refuse the output.
Read ==
    /\ Step("read")
    /\ IF pty = 0
         THEN /\ at' = "finally"
              /\ UNCHANGED <<screen, pty, broken>>
         ELSE /\ pty' = 0 /\ Erased /\ UNCHANGED result
              /\ \/ at' = "resync" /\ UNCHANGED broken
                 \/ at' = "restore" /\ broken' = broken \cup {"output"}
    /\ UNCHANGED <<enabled, shell, isatty, echo, keys, eof, presses,
                   mode, armed, stdin, ready, typed, child, fate>>

\* Keys go to the command; with echo off each makes the indicator blink.
Blinks ==
    IF enabled THEN shown' = TRUE /\ visible' = TRUE ELSE UNCHANGED <<shown, visible>>

Stdin ==
    /\ Step("stdin") /\ at' = "poll"
    /\ IF "in" \notin ready
         THEN UNCHANGED <<screen, stdin, typed>>
         ELSE IF typed = 0
         THEN /\ stdin' = FALSE
              /\ UNCHANGED <<screen, typed>>
         ELSE /\ typed' = 0
              /\ UNCHANGED result
              /\ IF EchoDisabled THEN Blinks ELSE UNCHANGED <<shown, visible>>
              /\ stdin' = ~Hangup
    /\ UNCHANGED <<outside, mode, armed, ready, child, fate, pty>>

Returned(f) == [fate EXCEPT !.returned = f]

\* waitpid with WNOHANG: nothing to report of a command that is still there
Waited ==
    IF child = "zombie" THEN child' = "reaped" /\ fate' = Returned(fate.child)
                        ELSE UNCHANGED <<child, fate>>

\* variant: the loop is left without a look at what is still in the terminal
PollLast ==
    /\ Step("poll")
    /\ Waited
    /\ at' = IF child = "zombie" THEN "drained" ELSE "sync"
    /\ UNCHANGED <<outside, mode, armed, screen, stdin, ready, typed, pty>>

Poll ==
    /\ Step("poll")
    /\ Waited
    /\ at' = IF child = "zombie" THEN "drain" ELSE "sync"
    /\ UNCHANGED <<outside, mode, armed, screen, stdin, ready, typed, pty>>

\* _drain_master: visible is a parameter, the caller's variable is set afterwards.
DrainMaster ==
    /\ Step("drain")
    /\ IF pty = 0 THEN at' = "drained" /\ UNCHANGED <<shown, pty>>
       ELSE /\ pty' = 0
            /\ shown' = IF visible THEN FALSE ELSE shown
            /\ UNCHANGED at
    /\ UNCHANGED <<outside, mode, armed, visible, result, stdin, ready, typed, child, fate>>

Drained ==
    /\ Step("drained") /\ visible' = FALSE /\ at' = "finally"
    /\ UNCHANGED <<outside, mode, armed, result, shown, stdin, ready, typed, child, fate, pty>>

\* A forked helper that is not the command yet exits with 126 instead.
EndsBySignal ==
    /\ child \in Holds \cup {"silent"} /\ child' = "zombie"
    /\ fate' = [fate EXCEPT !.child = IF child = "forked" THEN "exit" ELSE "signal"]

\* The command gets the SIGINT that interrupted the bridge.  It may end of it.
IntKill ==
    /\ Step("int_kill") /\ at' = "int_wait"
    /\ \/ UNCHANGED <<child, fate>>
       \/ EndsBySignal
    /\ UNCHANGED <<outside, mode, armed, screen, stdin, ready, typed, pty>>

\* variant: the command is not waited for
ReapsNothing(from, to) ==
    /\ Step(from)
    /\ fate' = Returned("zero")
    /\ at' = to
    /\ UNCHANGED <<outside, mode, armed, screen, stdin, ready, typed, child, pty>>

\* variant: a command that was reaped before is waited for
ReapsZombie(from, to) ==
    /\ Step(from) /\ child = "zombie"
    /\ child' = "reaped"
    /\ fate' = Returned(fate.child)
    /\ at' = to
    /\ UNCHANGED <<outside, mode, armed, screen, stdin, ready, typed, pty>>

\* _wait_blocking: 0 when there is no such child any more
Reaps(from, to) ==
    /\ Step(from) /\ child \in {"zombie", "reaped"}
    /\ child' = "reaped"
    /\ fate' = Returned(IF child = "zombie" THEN fate.child ELSE "zero")
    /\ at' = to
    /\ UNCHANGED <<outside, mode, armed, screen, stdin, ready, typed, pty>>

Finally ==
    /\ Step("finally")
    /\ shown' = IF visible THEN FALSE ELSE shown
    /\ at' = IF broken \cap Bridge # {} \/ fate.returned # "none" THEN "restore" ELSE "reap"
    /\ UNCHANGED <<outside, mode, armed, visible, result, stdin, ready, typed, child, fate, pty>>

RestoresNothing == mode           \* variant: the mode is left to the command

\* The finally of _run_direct; closing the master hangs the command up.
Restores == IF armed THEN "cooked" ELSE mode

Restore ==
    /\ Step("restore")
    /\ mode' = Restores
    /\ at' = "ended"
    /\ UNCHANGED <<outside, armed, screen, stdin, ready, typed, child, fate, pty>>

\* KeyboardInterrupt: handled in the bridge, fatal elsewhere; before Python is up
\* the signal kills the helper.
Interrupted ==
    /\ signal = "now" /\ at # "ended"
    /\ signal' = "none"
    /\ broken' = broken \cup {at}
    /\ at' = CASE at \in Bridge                          -> "int_kill"
               [] at \in {"int_kill", "int_wait"}        -> "finally"
               [] at \in {"setraw", "arm", "finally", "reap"} -> "restore"
               [] at \in {"start", "fork", "restore"}    -> "ended"
    /\ UNCHANGED <<enabled, shell, isatty, echo, keys, eof, presses, helpers>>

Helper ==
    \/ Start \/ Fork \/ SetRaw \/ Arm
    \/ Sync \/ Assign("synced", "select") \/ Select \/ Read
    \/ Resync \/ Assign("resynced", "stdin") \/ Stdin \/ Poll
    \/ DrainMaster \/ Drained
    \/ IntKill \/ Reaps("int_wait", "finally") \/ Finally \/ Reaps("reap", "restore")
    \/ Restore \/ Interrupted

(***************************************************************************)
(* The shell: proc.wait, and once more after a Ctrl+C.                     *)
(***************************************************************************)
\* The helper has the shell's descriptors; without any it reads /dev/null.
StartHelper ==
    /\ shell = "open" /\ shell' = "wait" /\ at' = "start"
    /\ UNCHANGED <<enabled, signal, isatty, echo, keys, eof, broken, presses, helpers>>

Waits == shell \in {"wait", "caught", "again"}

HelperEnded ==
    /\ Waits /\ at = "ended" /\ shell' = "returned"
    /\ UNCHANGED <<enabled, at, signal, isatty, echo, keys, eof, broken, presses, helpers>>

\* A helper with a SIGINT pending does not notice another.
Signalled ==
    \E how \in {"flight", "now"} :
        signal' = IF at \in {"none", "ended"} \/ signal # "none" THEN signal ELSE how

\* The terminal signals both, and a fork that has no session of its own yet.
BridgeCtrlC ==
    /\ mode = "cooked" /\ presses < MaxCtrlC /\ (shell = "open" \/ Waits)
    /\ presses' = presses + 1
    /\ Signalled
    /\ shell' = IF shell = "wait" THEN "caught" ELSE "raised"
    /\ \/ UNCHANGED <<child, fate>>
       \/ child = "forked" /\ EndsBySignal
    /\ UNCHANGED <<enabled, at, isatty, echo, keys, eof, broken,
                   mode, armed, screen, stdin, ready, typed, pty>>

\* send_signal, after the moment that Popen.wait gives an interrupted child
Forward ==
    /\ shell = "caught" /\ shell' = "again"
    /\ Signalled
    /\ UNCHANGED <<enabled, at, isatty, echo, keys, eof, broken, presses, helpers>>

(***************************************************************************)
(* The command.                                                            *)
(***************************************************************************)
Ends(f) == child' = "zombie" /\ fate' = [fate EXCEPT !.child = f]

\* A session of its own, the slave as its three descriptors, and exec; a command that
\* is not found, or may not be run, leaves a message and 127 or 126.
ChildExec ==
    /\ child = "forked"
    /\ \/ child' = "running" /\ UNCHANGED <<fate, pty>>
       \/ Ends("exit") /\ pty < Capacity /\ pty' = pty + 1
       \/ Ends("exit") /\ UNCHANGED pty
    /\ UNCHANGED <<outside, at, signal, mode, armed, screen, stdin, ready, typed>>

ChildWrites ==
    /\ child = "running" /\ pty < Capacity
    /\ pty' = pty + 1
    /\ UNCHANGED <<outside, at, signal, mode, armed, screen, stdin, ready, typed, child, fate>>

ChildSetsEcho ==
    /\ child = "running" /\ echo' = ~echo
    /\ UNCHANGED <<enabled, shell, at, signal, isatty, keys, eof, broken, presses, helpers>>

\* It closes the terminal and goes on.
ChildDetaches ==
    /\ child = "running" /\ child' = "silent"
    /\ UNCHANGED <<outside, at, signal, mode, armed, screen, stdin, ready, typed, fate, pty>>

ChildEnds ==
    /\ child \in {"running", "silent"}
    /\ \E f \in {"exit", "signal"} : Ends(f)
    /\ UNCHANGED <<outside, at, signal, mode, armed, screen, stdin, ready, typed, pty>>

Type ==
    /\ keys > 0 /\ keys' = keys - 1 /\ typed' = typed + 1
    /\ UNCHANGED <<enabled, shell, at, signal, isatty, echo, eof, broken, presses,
                   mode, armed, screen, stdin, ready, child, fate, pty>>

BridgeNext ==
    \/ StartHelper \/ Helper \/ HelperEnded \/ BridgeCtrlC \/ Forward \/ Type
    \/ ChildExec \/ ChildWrites \/ ChildSetsEcho \/ ChildDetaches \/ ChildEnds

BridgeSpec == BridgeInit /\ [][BridgeNext]_bridgeVars

\* The operating system runs helper and shell; the command may do as it likes.
FairBridge == BridgeSpec /\ WF_bridgeVars(Helper) /\ WF_bridgeVars(HelperEnded)

(***************************************************************************)
(* Properties.                                                             *)
(***************************************************************************)

\* Once the helper knows that it must, it gives the terminal back in the mode in
\* which it found it, wherever Ctrl+C strikes but in the restoring itself.
ModeRestored == BridgeTypeOK /\ (at = "ended" /\ armed /\ "restore" \notin broken => mode = "cooked")

\* While the bridge runs it knows whether the indicator is on the screen, where
\* output goes.
IndicatorTracked ==
    at \in {"select", "read", "resync", "stdin", "poll"} => visible = shown

\* Everything the command wrote reaches the user: what is in the pseudo-terminal
\* when the command ends is read before the bridge stops.
OutputForwarded == IndicatorTracked /\ (at = "ended" /\ broken = {} => pty = 0)

\* The status that secure returns is the command's, which has been reaped: unless
\* Ctrl+C strikes after the command was reaped or twice.
StatusIsTheCommands ==
    /\ at = "ended" /\ broken \subseteq Bridge \ {"drain", "drained"}
    => child = "reaped" /\ fate.returned = fate.child

\* When the command has ended, the shell gets its prompt back.
SecureReturns == (child = "zombie") ~> (shell \in {"returned", "raised"})

=============================================================================
