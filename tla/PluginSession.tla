---------------------------- MODULE PluginSession ----------------------------
(***************************************************************************)
(* What is said between the shell and one isolated plugin (src/pysh/       *)
(* plugins/isolated: manifest.py, capabilities.py, protocol.py, broker.py  *)
(* and the exchanges of runtime.py): the manifest is loaded and a grant    *)
(* made, the plugin says hello, is told its grant and says it is ready;    *)
(* then the parent serves requests until it says goodbye.                  *)
(*                                                                         *)
(* A frame is two units on a pipe, its header and its body: the plugin may *)
(* write them apart, late, or not at all, and it may stop reading.  Who    *)
(* ends a process and how is the module IsolatedRuntime's.                 *)
(***************************************************************************)
EXTENDS Naturals, Sequences, FiniteSets, SequencesExt

CONSTANTS
    Manifest,   \* manifests that may lie in the plugin's directory
    Cap,        \* capabilities there are
    Messages,   \* messages the plugin may send
    UpCap,      \* units the pipe from the plugin holds
    DownCap,    \* units the pipe to the plugin holds
    MaxSent     \* bound: messages the plugin sends

Family == {"env", "read", "write", "command", "network"}

ASSUME CapAssumption  == Cap \subseteq Family
ASSUME PipeAssumption == UpCap \in Nat /\ DownCap \in Nat /\ MaxSent \in Nat

VARIABLES
    manifest,   \* the manifest that is loaded
    granted,    \* the capabilities the shell decided to grant
    phase,      \* of the session
    op, at,     \* the exchange in progress and where it is
    unit,       \* units read of the frame that is awaited
    unsent,     \* units left to write of the frame being written
    reply,      \* what the frame being written says
    late,       \* the deadline of the exchange has passed
    blocking,   \* the descriptor that is written blocks
    up, down,   \* the pipes
    sent, owes, \* messages the plugin sent; the last lacks its body
    reading,    \* the plugin reads; its end of the pipes is open
    got,        \* messages decoded by the parent
    replied,    \* replies written
    effects,    \* the requests the broker acted on, by their place in got
    faults      \* what went wrong

vars == <<manifest, granted, phase, op, at, unit, unsent, reply, late, blocking,
          up, down, sent, owes, reading, got, replied, effects, faults>>
wire == <<up, down, sent, owes, reading>>
past == <<manifest, granted, got, replied, effects>>

Phase == {"new", "starting", "running", "failed", "stopped"}
Op    == {"none", "hello", "grant", "ready", "request", "answer", "bye", "ack"}
Code  == {"ok", "capability_denied", "invalid_request", "operation_failed",
          "internal_error", "command_unavailable", "invalid_command_result",
          "operation_unavailable"}
Unit  == (1..MaxSent) \X {"head", "body"}

Requests == {m \in Messages : m.type = "request"}
Nothing  == [type |-> "none"]
Frame    == [type : {"none", "grant", "shutdown"}]
            \cup [type : {"response"}, id : {m.id : m \in Messages}, code : Code]

TypeOK ==
    /\ manifest \in Manifest /\ granted \in SUBSET Cap /\ phase \in Phase
    /\ op \in Op /\ at \in {"idle", "read", "write"}
    /\ unit \in Seq(Unit) /\ Len(unit) <= 2
    /\ unsent \in 0..2 /\ reply \in Frame
    /\ late \in BOOLEAN /\ blocking \in BOOLEAN
    /\ up \in Seq(Unit) /\ Len(up) <= UpCap /\ down \in 0..DownCap
    /\ sent \in Seq(Messages) /\ Len(sent) <= MaxSent /\ owes \in BOOLEAN /\ reading \in BOOLEAN
    /\ got \in Seq(Messages) /\ replied \in Seq(Frame)
    /\ effects \in Seq(Nat)
    /\ faults \in SUBSET {"manifest", "grant", "timeout", "closed", "protocol",
                          "oversize", "sink", "unencodable", "interrupt"}

(***************************************************************************)
(* The manifest and the grant.                                             *)
(***************************************************************************)

\* validate_isolated_plugin_manifest, parse_capability, _validate_entrypoint
Valid(m) ==
    /\ m.fields = "exact" /\ m.manifest_version = 1 /\ m.protocol_version = 1
    /\ m.name = "plugin"
    /\ \A i \in DOMAIN m.capabilities : m.capabilities[i] \in Cap
    /\ IsInjective(m.capabilities)
    /\ m.entrypoint = "executable"

Requested == ToSet(manifest.capabilities)

\* CapabilityGrant.create
Grantable == granted \subseteq Requested

Init ==
    /\ manifest \in Manifest /\ granted \in SUBSET Cap
    /\ phase = "new" /\ op = "none" /\ at = "idle"
    /\ unit = <<>> /\ unsent = 0 /\ reply = Nothing
    /\ late = FALSE /\ blocking = TRUE
    /\ up = <<>> /\ down = 0 /\ sent = <<>> /\ owes = FALSE /\ reading = TRUE
    /\ got = <<>> /\ replied = <<>> /\ effects = <<>> /\ faults = {}

(***************************************************************************)
(* Exchanges: a frame is awaited or written, with a deadline.              *)
(***************************************************************************)
Await(o) == /\ op' = o /\ at' = "read" /\ unit' = <<>> /\ late' = FALSE
            /\ UNCHANGED <<unsent, reply, blocking>>

\* write_message makes the descriptor non-blocking for the time of the write.
Say(o, frame) ==
    /\ op' = o /\ at' = "write" /\ unsent' = 2 /\ reply' = frame
    /\ late' = FALSE /\ unit' = <<>> /\ blocking' = FALSE

Rest == /\ op' = "none" /\ at' = "idle" /\ unit' = <<>> /\ unsent' = 0
        /\ reply' = Nothing /\ late' = FALSE /\ blocking' = TRUE

Load ==
    /\ phase = "new"
    /\ IF ~Valid(manifest)
         THEN /\ phase' = "failed" /\ faults' = {"manifest"}
              /\ UNCHANGED <<op, at, unit, unsent, reply, late, blocking>>
         ELSE IF ~Grantable
         THEN /\ phase' = "failed" /\ faults' = {"grant"}
              /\ UNCHANGED <<op, at, unit, unsent, reply, late, blocking>>
         ELSE /\ phase' = "starting" /\ Await("hello") /\ UNCHANGED faults
    /\ UNCHANGED <<past, wire>>

\* serve_once, shutdown: the caller's next operation
Serve ==
    /\ phase = "running" /\ at = "idle" /\ Await("request")
    /\ UNCHANGED <<phase, past, wire, faults>>

AskShutdown ==
    /\ phase = "running" /\ at = "idle" /\ Say("bye", [type |-> "shutdown"])
    /\ UNCHANGED <<phase, past, wire, faults>>

OverUnlessRequest(o) ==          \* variant: a request that fails is given up alone
    IF o \in {"bye", "ack"} THEN "stopped"
    ELSE IF o \in {"request", "answer"} THEN "running" ELSE "failed"

\* _fail, or the forced stop of a shutdown
Over(o) == IF o \in {"bye", "ack"} THEN "stopped" ELSE "failed"

EndsWith(fault) ==
    /\ phase' = Over(op) /\ Rest
    /\ faults' = faults \cup {fault}

\* _read_exact: a unit of the header or of the body
ReadUnit ==
    /\ at = "read" /\ Len(unit) < 2 /\ up # <<>>
    /\ unit' = Append(unit, Head(up)) /\ up' = Tail(up)
    /\ UNCHANGED <<phase, op, at, unsent, reply, late, blocking, down, sent, owes, reading,
                   past, faults>>

\* The length is looked at before the body is read.
TooLarge ==
    /\ at = "read" /\ Len(unit) = 1 /\ sent[unit[1][1]].form = "oversize"
    /\ EndsWith("oversize")
    /\ UNCHANGED <<past, wire>>

ReadFails ==
    /\ at = "read" /\ Len(unit) < 2 /\ up = <<>> /\ ~reading
    /\ EndsWith("closed")
    /\ UNCHANGED <<past, wire>>

WriteUnit ==
    /\ at = "write" /\ unsent > 0 /\ down < DownCap /\ reading
    /\ unsent' = unsent - 1 /\ down' = down + 1
    /\ UNCHANGED <<phase, op, at, unit, reply, late, blocking, up, sent, owes, reading,
                   past, faults>>

WriteFails ==
    /\ at = "write" /\ unsent > 0 /\ ~reading
    /\ EndsWith("closed")
    /\ UNCHANGED <<past, wire>>

\* variant: a frame that has begun is read to its end
TimedOutBetween ==
    /\ late /\ \/ at = "read" /\ unit = <<>>
               \/ at = "write" /\ unsent > 0
    /\ EndsWith("timeout")
    /\ UNCHANGED <<past, wire>>

TimedOut ==
    /\ late /\ \/ at = "read" /\ Len(unit) < 2
               \/ at = "write" /\ unsent > 0
    /\ EndsWith("timeout")
    /\ UNCHANGED <<past, wire>>

\* Ctrl+C in an exchange
Interrupt ==
    /\ at # "idle" /\ EndsWith("interrupt")
    /\ UNCHANGED <<past, wire>>

(***************************************************************************)
(* The broker: which operation a request names, whether it is granted, and *)
(* what came of it.                                                        *)
(***************************************************************************)

\* Outcomes of the operation itself, after the checks
Outcomes(m) ==
    CASE m.cap = "env"     -> {"ok"}
      [] m.cap = "read"    -> {"ok", "operation_failed"}
      [] m.cap = "write"   -> {"ok", "operation_failed"}
      [] m.cap = "command" -> {"ok", "operation_failed", "internal_error", "invalid_request",
                               "command_unavailable", "invalid_command_result"}
      [] m.cap = "network" -> {"operation_unavailable"}

AllowedRequested(m) == m.cap \in Requested    \* variant: what was asked for is given

Allowed(m) == m.cap \in granted

\* dispatch: the fields are checked first; a path that does not exist is noticed
\* before the grant is looked at
Results(m) ==
    IF m.form = "malformed" THEN {"invalid_request"}
    ELSE IF m.cap \in {"read", "write"} /\ m.form = "nowhere" THEN {"operation_failed"}
    ELSE IF ~Allowed(m) THEN {"capability_denied"}
    ELSE Outcomes(m)

Performed(m, code) ==
    /\ m.form \notin {"malformed", "nowhere"} /\ Allowed(m)
    /\ code \notin {"command_unavailable", "operation_unavailable"}

\* _emit_denied may raise out of the broker; a text longer than the protocol's
\* strings cannot be encoded.
Dispatch(m) ==
    \E code \in Results(m) :
        /\ effects' = IF Performed(m, code) THEN Append(effects, Len(got) + 1) ELSE effects
        /\ \/ /\ Say("answer", [type |-> "response", id |-> m.id, code |-> code])
              /\ UNCHANGED <<phase, faults>>
           \/ /\ code = "capability_denied" /\ EndsWith("sink")
           \/ /\ code = "ok" /\ m.cap \in {"env", "read"} /\ EndsWith("unencodable")

(***************************************************************************)
(* A whole frame has been read.                                            *)
(***************************************************************************)
Message == sent[unit[1][1]]
Aligned == unit[1][1] = unit[2][1] /\ unit[1][2] = "head" /\ unit[2][2] = "body"

\* _decode_body, validate_message
Decodes == Aligned /\ Message.form # "garbage"

\* _validate_hello, _validate_ready, _BROKER_REQUEST_TYPES and the acknowledgement
Expected ==
    CASE op = "hello"   -> Message.type = "hello" /\ Message.form = "good"
      [] op = "ready"   -> /\ Message.type = "ready" /\ Message.form = "good"
                           /\ Message.id = got[1].id
      [] op = "request" -> Message.type = "request"
      [] op = "ack"     -> Message.type = "ack" /\ Message.form = "good"

Unexpected ==
    /\ at = "read" /\ Len(unit) = 2 /\ ~(Decodes /\ Expected)
    /\ EndsWith("protocol")
    /\ UNCHANGED <<past, wire>>

Decoded ==
    /\ at = "read" /\ Len(unit) = 2 /\ Decodes /\ Expected
    /\ got' = Append(got, Message)
    /\ CASE op = "hello"   -> /\ Say("grant", [type |-> "grant"])
                              /\ UNCHANGED <<phase, effects, faults>>
         [] op = "ready"   -> /\ phase' = "running" /\ Rest
                              /\ UNCHANGED <<effects, faults>>
         [] op = "request" -> Dispatch(Message)
         [] op = "ack"     -> /\ phase' = "stopped" /\ Rest
                              /\ UNCHANGED <<effects, faults>>
    /\ UNCHANGED <<manifest, granted, replied, wire>>

\* A whole frame has been written.
Written ==
    /\ at = "write" /\ unsent = 0
    /\ replied' = Append(replied, reply)
    /\ CASE op = "grant"  -> op' = "ready" /\ at' = "read"
         [] op = "answer" -> op' = "none" /\ at' = "idle"
         [] op = "bye"    -> op' = "ack" /\ at' = "read"
    /\ unit' = <<>> /\ reply' = Nothing /\ late' = FALSE /\ blocking' = TRUE
    /\ UNCHANGED <<unsent, phase, manifest, granted, got, effects, faults, wire>>

Parent ==
    \/ Load \/ ReadUnit \/ TooLarge \/ ReadFails \/ WriteUnit \/ WriteFails
    \/ TimedOut \/ Unexpected \/ Decoded \/ Written

Deadline ==
    /\ at # "idle" /\ ~late /\ late' = TRUE
    /\ UNCHANGED <<manifest, granted, phase, op, at, unit, unsent, reply, blocking, wire,
                   got, replied, effects, faults>>

(***************************************************************************)
(* The plugin.                                                             *)
(***************************************************************************)
Lives == phase \in {"starting", "running"} /\ reading

\* It begins a frame.
PluginHead ==
    /\ Lives /\ ~owes /\ Len(sent) < MaxSent /\ Len(up) < UpCap
    /\ \E m \in Messages : sent' = Append(sent, m)
    /\ up' = Append(up, <<Len(sent) + 1, "head">>) /\ owes' = TRUE
    /\ UNCHANGED <<past, phase, op, at, unit, unsent, reply, late, blocking, down, reading,
                   faults>>

PluginBody ==
    /\ Lives /\ owes /\ Len(up) < UpCap
    /\ up' = Append(up, <<Len(sent), "body">>) /\ owes' = FALSE
    /\ UNCHANGED <<past, phase, op, at, unit, unsent, reply, late, blocking, down, sent,
                   reading, faults>>

PluginReads ==
    /\ Lives /\ down > 0 /\ down' = down - 1
    /\ UNCHANGED <<past, phase, op, at, unit, unsent, reply, late, blocking, up, sent, owes,
                   reading, faults>>

\* It closes its end, or dies.
PluginCloses ==
    /\ Lives /\ reading' = FALSE
    /\ UNCHANGED <<past, phase, op, at, unit, unsent, reply, late, blocking, up, down, sent,
                   owes, faults>>

Plugin == PluginHead \/ PluginBody \/ PluginReads \/ PluginCloses

Next == Parent \/ Serve \/ AskShutdown \/ Interrupt \/ Deadline \/ Plugin

Spec == Init /\ [][Next]_vars

\* The parent's reads and writes wait for the deadline at most.
FairSpec == Spec /\ WF_vars(Parent) /\ WF_vars(Deadline)

(***************************************************************************)
(* Properties.                                                             *)
(***************************************************************************)
\* Outside a write the descriptor blocks as it did before, however the write ended.
BlockingRestored == at # "write" => blocking

\* The i-th message decoded is a request, and the reply to it; the first reply is the
\* grant, which the hello asks for, and ready has none.
Asks(i)     == got[i].type = "request"
Replies(i)  == i - 1 \in DOMAIN replied /\ replied[i - 1].type = "response"
Answered(i) == Replies(i) /\ replied[i - 1].id = got[i].id
Open(i)     == i = Len(got) /\ (op = "answer" \/ phase = "failed")

\* Requests are answered in their order, each once and under its own number; only the
\* last may be open, and none is while the session runs and nothing is being exchanged.
InOrder ==
    /\ \A i \in DOMAIN replied : replied[i].type = "response" =>
           i + 1 \in DOMAIN got /\ Asks(i + 1) /\ Answered(i + 1)
    /\ \A i \in DOMAIN got : Asks(i) => Answered(i) \/ Open(i)

\* What the parent decodes is what the plugin sent, in order and from the first
\* message on: after a late, broken or oversized frame nothing is decoded, so that
\* the middle of a frame is never taken for its beginning; and it has answered what
\* it has decoded.
InStep == TypeOK /\ IsPrefix(got, sent) /\ InOrder /\ BlockingRestored

\* No request is acted on twice or out of order, and one that was acted on has an answer
\* that admits it, unless it is the last, of a session that failed or is about to answer.
EffectsAnswered ==
    /\ \A i, j \in DOMAIN effects : i < j => effects[i] < effects[j]
    /\ \A i \in DOMAIN effects :
           \/ Answered(effects[i]) /\ replied[effects[i] - 1].code # "capability_denied"
           \/ Open(effects[i])

\* The broker acts for a plugin only within its grant, and not before the plugin
\* was told the grant and has confirmed it.
WithinGrant ==
    /\ EffectsAnswered
    /\ \A i \in DOMAIN effects :
           /\ effects[i] \in 3..Len(got) /\ Asks(effects[i])
           /\ got[effects[i]].cap \in granted \cap Requested
    /\ effects # <<>> => /\ got[1].type = "hello" /\ got[2].type = "ready"
                         /\ got[2].id = got[1].id /\ replied[1].type = "grant"

\* Every exchange ends, whatever the plugin does with its pipes.
ExchangesEnd == (at # "idle") ~> (at = "idle")

=============================================================================
