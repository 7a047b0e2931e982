---------------------------- MODULE PluginProofs ----------------------------
(***************************************************************************)
(* Theorems about an isolated plugin: its launch, its messages, its life.  *)
(*                                                                         *)
(* PluginSession, for every set of manifests, capabilities and messages,   *)
(* every capacity of the pipes and any number of messages sent: the parent *)
(* keeps its place in the plugin's stream and answers each request once,   *)
(* and it acts for the plugin within its grant only.                       *)
(*                                                                         *)
(* PluginLaunch, for every set of fields, catalog, request and inherited   *)
(* limit: a plugin never has more than it was planned to have, the plan is *)
(* the narrowest of what bounds it, and the launcher rejects no plan.      *)
(*                                                                         *)
(* IsolatedRuntime, for every number of runtimes and every limit: its      *)
(* safety properties, and that the caller and watchdog threads of all      *)
(* runtimes together implement IsolatedContract.                           *)
(***************************************************************************)
EXTENDS PluginLaunch, PluginSession, IsolatedRuntime, FiniteSetTheorems, TLAPS

ControlTypes ==
    /\ phase \in Phase /\ op \in Op /\ at \in {"idle", "read", "write"}
    /\ unsent \in 0..2 /\ reply \in Frame
    /\ late \in BOOLEAN /\ blocking \in BOOLEAN
    /\ faults \in SUBSET {"manifest", "grant", "timeout", "closed", "protocol",
                          "oversize", "sink", "unencodable", "interrupt"}

WireTypes ==
    /\ unit \in Seq(Unit) /\ Len(unit) <= 2
    /\ up \in Seq(Unit) /\ Len(up) <= UpCap /\ down \in 0..DownCap
    /\ sent \in Seq(Messages) /\ Len(sent) <= MaxSent
    /\ owes \in BOOLEAN /\ reading \in BOOLEAN

PastTypes ==
    /\ manifest \in Manifest /\ granted \in SUBSET Cap
    /\ got \in Seq(Messages) /\ replied \in Seq(Frame) /\ effects \in Seq(Nat)

(***************************************************************************)
(* The inductive invariant.  Stream is the parent's place: the units it    *)
(* has read of the frame it awaits, and those in the pipe, continue where  *)
(* the frames it has decoded end.  Course is the order of the exchanges,   *)
(* Places how many messages each follows, Greeting the handshake's.        *)
(***************************************************************************)
Live    == phase \in {"starting", "running"}
Current == phase \in {"new", "starting", "running"}

\* The n-th unit the plugin writes.
U(n) == <<(n + 1) \div 2, IF n % 2 = 1 THEN "head" ELSE "body">>

Wrote == 2 * Len(sent) - (IF owes THEN 1 ELSE 0)

Stream ==
    /\ owes => Len(sent) >= 1
    /\ Current => /\ \A i \in 1..Len(unit) : unit[i] = U(2 * Len(got) + i)
                  /\ \A i \in 1..Len(up) : up[i] = U(2 * Len(got) + Len(unit) + i)
                  /\ 2 * Len(got) + Len(unit) + Len(up) = Wrote

Follows == Len(got) <= Len(sent) /\ \A i \in 1..Len(got) : got[i] = sent[i]

Course ==
    /\ at = "idle" <=> op = "none"
    /\ at = "write" <=> op \in {"grant", "answer", "bye"}
    /\ at # "read" => unit = <<>>
    /\ op = "none" => phase # "starting"
    /\ op \in {"hello", "grant", "ready"} => phase = "starting"
    /\ op \in {"request", "answer", "bye", "ack"} => phase = "running"
    /\ Live => granted \subseteq Requested

Places ==
    /\ phase = "new" \/ op = "hello" => Len(got) = 0 /\ Len(replied) = 0
    /\ op = "grant" => Len(got) = 1 /\ Len(replied) = 0 /\ reply.type = "grant"
    /\ op = "ready" => Len(got) = 1 /\ Len(replied) = 1
    /\ phase = "running" /\ op \in {"none", "request", "bye"} =>
           Len(got) >= 2 /\ Len(replied) = Len(got) - 1
    /\ op = "bye" => reply.type = "shutdown"
    /\ op = "answer" =>
           /\ Len(got) >= 3 /\ Len(replied) = Len(got) - 2
           /\ Asks(Len(got)) /\ reply.type = "response" /\ reply.id = got[Len(got)].id
    /\ op = "ack" => Len(got) >= 2 /\ Len(replied) = Len(got)

Greeting ==
    /\ Len(got) >= 1 => got[1].type = "hello"
    /\ Len(got) >= 2 => got[2].type = "ready" /\ got[2].id = got[1].id /\ Len(replied) >= 1
    /\ Len(replied) >= 1 => replied[1].type = "grant"

Acts ==
    \A i \in 1..Len(effects) :
        /\ effects[i] \in 3..Len(got) /\ Asks(effects[i])
        /\ got[effects[i]].cap \in granted /\ got[effects[i]].cap \in Requested

Admits ==
    op = "answer" => \A i \in 1..Len(effects) :
        effects[i] = Len(got) => reply.code # "capability_denied"

Exchanged == Course /\ Places
History   == Greeting /\ InOrder /\ Acts /\ EffectsAnswered /\ Admits

IInv == TypeOK /\ Stream /\ Follows /\ Exchanged /\ BlockingRestored /\ History

\* The type invariant falls into the control state, the wire and the record.
LEMMA TypeParts == TypeOK <=> ControlTypes /\ WireTypes /\ PastTypes
BY DEF TypeOK, ControlTypes, WireTypes, PastTypes

\* What Append does, in the form the steps below use.
LEMMA AppendAt ==
    ASSUME NEW S, NEW s \in Seq(S), NEW e \in S
    PROVE  /\ Append(s, e) \in Seq(S) /\ Len(Append(s, e)) = Len(s) + 1 /\ Len(s) \in Nat
           /\ \A i \in 1..Len(s) : Append(s, e)[i] = s[i]
           /\ Append(s, e)[Len(s) + 1] = e
OBVIOUS

\* The units of the k-th message after the first n.
LEMMA Units ==
    \A k \in Nat : U(2 * k + 1) = <<k + 1, "head">> /\ U(2 * k + 2) = <<k + 1, "body">>
<1> SUFFICES ASSUME NEW k \in Nat
             PROVE  U(2 * k + 1) = <<k + 1, "head">> /\ U(2 * k + 2) = <<k + 1, "body">>
  OBVIOUS
<1>1. (2 * k + 1 + 1) \div 2 = k + 1 /\ (2 * k + 1) % 2 = 1
  OBVIOUS
<1>2. (2 * k + 2 + 1) \div 2 = k + 1 /\ (2 * k + 2) % 2 = 0
  OBVIOUS
<1>3. QED
  BY <1>1, <1>2 DEF U

----------------------------------------------------------------------------
(***************************************************************************)
(* The kinds of step.  Most leave what was said alone (Quiet); an exchange *)
(* that breaks off ends alike wherever it does (Ended); five are left.     *)
(***************************************************************************)
Quiet == /\ UNCHANGED <<manifest, granted, got, replied, effects, phase, op, at, reply, blocking>>
         /\ at = "read" \/ unit' = unit

Ended == /\ at # "idle" /\ \E fault \in {"timeout", "closed", "protocol", "oversize",
                                         "interrupt"} : EndsWith(fault)
         /\ UNCHANGED <<past, wire>>

\* A step of the system, by its kind.
LEMMA Kinds ==
    ASSUME Next \/ UNCHANGED vars
    PROVE  \/ ReadUnit \/ WriteUnit \/ Deadline
           \/ PluginHead \/ PluginBody \/ PluginReads \/ PluginCloses
           \/ Ended \/ Load \/ Serve \/ AskShutdown \/ Decoded \/ Written
           \/ UNCHANGED vars
<1>1. CASE TooLarge
  BY <1>1 DEF TooLarge, Ended
<1>2. CASE ReadFails
  BY <1>2 DEF ReadFails, Ended
<1>3. CASE WriteFails
  BY <1>3 DEF WriteFails, Ended
<1>4. CASE TimedOut
  BY <1>4 DEF TimedOut, Ended
<1>5. CASE Unexpected
  BY <1>5 DEF Unexpected, Ended
<1>6. CASE Interrupt
  BY <1>6 DEF Interrupt, Ended
<1>7. QED
  BY <1>1, <1>2, <1>3, <1>4, <1>5, <1>6 DEF Next, Parent, Plugin

\* Reading, writing and waiting say nothing.
LEMMA Steps ==
    ASSUME Next \/ UNCHANGED vars
    PROVE  \/ Quiet \/ Ended \/ Load \/ Serve \/ AskShutdown \/ Decoded \/ Written
<1>1. CASE ReadUnit
  BY <1>1 DEF ReadUnit, Quiet, past, wire
<1>2. CASE WriteUnit
  BY <1>2 DEF WriteUnit, Quiet, past, wire
<1>3. CASE Deadline
  BY <1>3 DEF Deadline, Quiet, past, wire
<1>4. CASE PluginHead
  BY <1>4 DEF PluginHead, Quiet, past, wire
<1>5. CASE PluginBody
  BY <1>5 DEF PluginBody, Quiet, past, wire
<1>6. CASE PluginReads
  BY <1>6 DEF PluginReads, Quiet, past, wire
<1>7. CASE PluginCloses
  BY <1>7 DEF PluginCloses, Quiet, past, wire
<1>8. CASE UNCHANGED vars
  BY <1>8 DEF vars, Quiet
<1>9. QED
  BY <1>1, <1>2, <1>3, <1>4, <1>5, <1>6, <1>7, <1>8, Kinds

\* What a break-off leaves, in an exchange of a live session.
LEMMA EndedLeaves ==
    ASSUME Ended, Course
    PROVE  /\ UNCHANGED <<manifest, granted, got, replied, effects, up, down, sent, owes, reading>>
           /\ op' = "none" /\ at' = "idle" /\ unit' = <<>> /\ unsent' = 0
           /\ reply' = Nothing /\ late' = FALSE /\ blocking' = TRUE
           /\ phase' = IF op \in {"bye", "ack"} THEN "stopped" ELSE "failed"
           /\ faults' \subseteq faults \cup {"timeout", "closed", "protocol", "oversize", "interrupt"}
BY DEF Ended, EndsWith, Rest, Over, past, wire

\* The frame that has been read whole is the next one the plugin sent.
LEMMA NextMessage ==
    ASSUME IInv, Decoded
    PROVE  /\ Live /\ Len(got) + 1 \in 1..Len(sent) /\ Message = sent[Len(got) + 1]
           /\ Message \in Messages
           /\ got' = Append(got, Message)
           /\ UNCHANGED <<manifest, granted, replied, up, down, sent, owes, reading>>
<1>types. /\ got \in Seq(Messages) /\ sent \in Seq(Messages) /\ unit \in Seq(Unit)
          /\ up \in Seq(Unit) /\ op \in Op
  BY TypeParts DEF IInv, WireTypes, PastTypes, ControlTypes
<1>1. at = "read" /\ Len(unit) = 2 /\ op # "none"
  BY DEF Decoded, IInv, Exchanged, Course
<1>2. Live
  BY <1>1, <1>types DEF IInv, Exchanged, Course, Live, Op
<1>3. unit[1] = U(2 * Len(got) + 1)
  BY <1>1, <1>2, <1>types DEF IInv, Stream, Live, Current
<1>number. Len(got) \in Nat
  BY <1>types
<1>4. unit[1] = <<Len(got) + 1, "head">>
  BY <1>3, <1>number, Units
<1>5. 2 * Len(got) + 2 + Len(up) = Wrote
  BY <1>1, <1>2 DEF IInv, Stream, Live, Current
<1>6. Len(got) + 1 \in 1..Len(sent)
  BY <1>5, <1>types DEF Wrote
<1>7. Message = sent[Len(got) + 1]
  BY <1>4 DEF Message
<1>8. Message \in Messages
  BY <1>6, <1>7, <1>types
<1>9. QED
  BY <1>2, <1>6, <1>7, <1>8 DEF Decoded, wire

\* What a decoded frame leads to.  Acting needs the grant.
Greets(m) ==
    /\ op = "hello" /\ m.type = "hello" /\ effects' = effects /\ faults' = faults
    /\ phase' = phase /\ op' = "grant" /\ at' = "write" /\ reply' = [type |-> "grant"]
    /\ unit' = <<>> /\ blocking' = FALSE /\ unsent' = 2 /\ late' = FALSE

Confirms(m) ==
    /\ op = "ready" /\ m.type = "ready" /\ m.id = got[1].id /\ effects' = effects
    /\ faults' = faults
    /\ phase' = "running" /\ op' = "none" /\ at' = "idle" /\ reply' = Nothing
    /\ unit' = <<>> /\ blocking' = TRUE /\ unsent' = 0 /\ late' = FALSE

TakesLeave(m) ==
    /\ op = "ack" /\ m.type = "ack" /\ effects' = effects /\ faults' = faults
    /\ phase' = "stopped" /\ op' = "none" /\ at' = "idle" /\ reply' = Nothing
    /\ unit' = <<>> /\ blocking' = TRUE /\ unsent' = 0 /\ late' = FALSE

Acted(m, code) ==
    /\ op = "request" /\ m.type = "request" /\ code \in Code
    /\ \/ effects' = effects
       \/ /\ effects' = Append(effects, Len(got) + 1) /\ m.cap \in granted
          /\ code # "capability_denied"

Answers(m, code) ==
    /\ Acted(m, code) /\ phase' = phase /\ op' = "answer" /\ at' = "write" /\ faults' = faults
    /\ reply' = [type |-> "response", id |-> m.id, code |-> code]
    /\ unit' = <<>> /\ blocking' = FALSE /\ unsent' = 2 /\ late' = FALSE

Breaks(m, code) ==
    /\ Acted(m, code) /\ phase' = "failed" /\ op' = "none" /\ at' = "idle" /\ reply' = Nothing
    /\ faults' \subseteq faults \cup {"sink", "unencodable"}
    /\ unit' = <<>> /\ blocking' = TRUE /\ unsent' = 0 /\ late' = FALSE

\* What the broker decided of a request: Performed and its code agree.
LEMMA ActedOn ==
    ASSUME NEW m \in Messages, NEW code \in Results(m), op = "request", m.type = "request",
           granted \in SUBSET Cap,
           effects' = IF Performed(m, code) THEN Append(effects, Len(got) + 1) ELSE effects
    PROVE  Acted(m, code)
<1>1. Allowed(m) => m.cap \in Family
  BY CapAssumption DEF Allowed
<1>2. Allowed(m) => Outcomes(m) \subseteq Code \ {"capability_denied"}
  BY <1>1 DEF Outcomes, Family, Code
<1>3. code \in Code
  BY <1>2 DEF Results, Code
<1>4. Performed(m, code) => m.cap \in granted /\ code # "capability_denied"
  BY <1>2 DEF Performed, Results, Allowed
<1>5. QED
  BY <1>3, <1>4 DEF Acted

\* A decoded frame leads to one of these.
LEMMA DecodedLeads ==
    ASSUME IInv, Decoded
    PROVE  \/ Greets(Message) \/ Confirms(Message) \/ TakesLeave(Message)
           \/ \E code \in Code : Answers(Message, code) \/ Breaks(Message, code)
<1>1. op \in {"hello", "ready", "request", "ack"}
  <2>1. at = "read" /\ op \in Op
    BY TypeParts DEF Decoded, IInv, ControlTypes
  <2>2. QED
    BY <2>1 DEF IInv, Exchanged, Course, Op
<1>2. CASE op = "hello"
  BY <1>2 DEF Decoded, Expected, Say, Greets
<1>3. CASE op = "ready"
  BY <1>3 DEF Decoded, Expected, Rest, Confirms
<1>4. CASE op = "ack"
  BY <1>4 DEF Decoded, Expected, Rest, TakesLeave
<1>5. CASE op = "request"
  <2>1. Dispatch(Message) /\ Message.type = "request"
    BY <1>5 DEF Decoded, Expected
  <2>2. PICK code \in Results(Message) :
            /\ effects' = IF Performed(Message, code) THEN Append(effects, Len(got) + 1) ELSE effects
            /\ \/ /\ Say("answer", [type |-> "response", id |-> Message.id, code |-> code])
                  /\ UNCHANGED <<phase, faults>>
               \/ EndsWith("sink") \/ EndsWith("unencodable")
    BY <2>1 DEF Dispatch
  <2>3. Acted(Message, code)
    <3>1. Message \in Messages /\ granted \in SUBSET Cap
      BY NextMessage, TypeParts DEF IInv, PastTypes
    <3>2. QED
      BY <1>5, <2>1, <2>2, <3>1, ActedOn
  <2>4. code \in Code
    BY <2>3 DEF Acted
  <2>5. CASE /\ Say("answer", [type |-> "response", id |-> Message.id, code |-> code])
             /\ UNCHANGED <<phase, faults>>
    <3>1. Answers(Message, code)
      BY <2>3, <2>5 DEF Answers, Say
    <3>2. QED
      BY <2>4, <3>1
  <2>6. CASE EndsWith("sink") \/ EndsWith("unencodable")
    <3>1. Breaks(Message, code)
      BY <1>5, <2>3, <2>6 DEF Breaks, EndsWith, Rest, Over
    <3>2. QED
      BY <2>4, <3>1
  <2>7. QED
    BY <2>2, <2>5, <2>6
<1>6. QED
  BY <1>1, <1>2, <1>3, <1>4, <1>5
----------------------------------------------------------------------------
\* Every step keeps the parent's control state typed.
LEMMA ControlTypesStep == IInv /\ [Next]_vars => ControlTypes'
<1> SUFFICES ASSUME IInv, [Next]_vars PROVE ControlTypes'
  OBVIOUS
<1>types. ControlTypes
  BY TypeParts DEF IInv
<1>course. Course
  BY DEF IInv, Exchanged
<1>frames. /\ Nothing \in Frame /\ [type |-> "grant"] \in Frame /\ [type |-> "shutdown"] \in Frame
           /\ \A m \in Messages, c \in Code : [type |-> "response", id |-> m.id, code |-> c] \in Frame
  BY DEF Nothing, Frame
<1>1. CASE Quiet /\ unsent' \in 0..2 /\ late' \in BOOLEAN /\ faults' = faults
  BY <1>1, <1>types DEF Quiet, ControlTypes
<1>2. CASE ReadUnit \/ Deadline \/ PluginHead \/ PluginBody \/ PluginReads \/ PluginCloses
  BY <1>2, <1>types DEF ReadUnit, Deadline, PluginHead, PluginBody, PluginReads,
     PluginCloses,
                         ControlTypes, past, wire
<1>3. CASE WriteUnit
  BY <1>3, <1>types DEF WriteUnit, ControlTypes, past, wire
<1>4. CASE Ended
  <2>1. /\ op' = "none" /\ at' = "idle" /\ unsent' = 0
        /\ reply' = Nothing /\ late' = FALSE /\ blocking' = TRUE
    BY <1>4, <1>course, EndedLeaves
  <2>2. phase' \in Phase
    BY <1>4, <1>course, EndedLeaves DEF Phase
  <2>3. faults' \subseteq faults \cup {"timeout", "closed", "protocol", "oversize", "interrupt"}
    BY <1>4, <1>course, EndedLeaves
  <2>4. faults' \in SUBSET {"manifest", "grant", "timeout", "closed", "protocol",
                           "oversize", "sink", "unencodable", "interrupt"}
    BY <2>3, <1>types DEF ControlTypes
  <2>5. op' \in Op /\ reply' \in Frame /\ unsent' \in 0..2 /\ late' \in BOOLEAN /\ blocking' \in BOOLEAN
    <3>1. op' \in Op
      BY <2>1 DEF Op
    <3>2. reply' \in Frame
      BY <2>1, <1>frames
    <3>3. unsent' \in 0..2
      BY <2>1
    <3>4. late' \in BOOLEAN /\ blocking' \in BOOLEAN
      BY <2>1, Zenon
    <3>5. QED
      BY <3>1, <3>2, <3>3, <3>4
  <2>6. QED
    BY <2>1, <2>2, <2>4, <2>5 DEF ControlTypes
<1>5. CASE Load
  BY <1>5, <1>types DEF Load, Await, ControlTypes, Phase, Op
<1>6. CASE Serve
  BY <1>6, <1>types DEF Serve, Await, ControlTypes, Phase, Op
<1>7. CASE AskShutdown
  <2>1. reply' \in Frame
    BY <1>7, <1>frames DEF AskShutdown, Say
  <2>2. op' = "bye" /\ at' = "write" /\ unsent' \in 0..2 /\ phase' = phase /\ faults' = faults
    BY <1>7 DEF AskShutdown, Say
  <2>3. late' \in BOOLEAN /\ blocking' \in BOOLEAN
    BY <1>7, Zenon DEF AskShutdown, Say
  <2>4. QED
    BY <2>1, <2>2, <2>3, <1>types DEF ControlTypes, Op
<1>8. CASE Decoded
  <2>1. Message \in Messages
    BY <1>8, NextMessage
  <2>2. reply' \in Frame
    BY <1>8, <2>1, <1>frames, DecodedLeads DEF Greets, Confirms, TakesLeave, Answers, Breaks
  <2>3. op' \in Op /\ at' \in {"idle", "write"}
    BY <1>8, DecodedLeads DEF Greets, Confirms, TakesLeave, Answers, Breaks, Op
  <2>4. phase' \in Phase
    BY <1>8, <1>types, DecodedLeads
       DEF Greets, Confirms, TakesLeave, Answers, Breaks, Phase, ControlTypes
  <2>5. /\ unsent' \in 0..2
        /\ late' \in BOOLEAN /\ blocking' \in BOOLEAN
    <3>1. unsent' \in {0, 2}
      BY <1>8, DecodedLeads DEF Greets, Confirms, TakesLeave, Answers, Breaks
    <3>2. late' \in BOOLEAN /\ blocking' \in BOOLEAN
      BY <1>8, DecodedLeads, Zenon DEF Greets, Confirms, TakesLeave, Answers, Breaks
    <3>3. QED
      BY <3>1, <3>2
  <2>6. faults' \subseteq faults \cup {"sink", "unencodable"}
    BY <1>8, DecodedLeads DEF Greets, Confirms, TakesLeave, Answers, Breaks
  <2>7. QED
    BY <2>2, <2>3, <2>4, <2>5, <2>6, <1>types DEF ControlTypes
<1>9. CASE Written
  <2>1. reply' \in Frame
    BY <1>9, <1>frames DEF Written
  <2>2. /\ op' \in {"ready", "none", "ack"} /\ at' \in {"read", "idle"}
        /\ unsent' = unsent /\ late' = FALSE /\ blocking' = TRUE
        /\ phase' = phase /\ faults' = faults
    BY <1>9, <1>course, <1>types DEF Written, Course, ControlTypes, Op
  <2>3. QED
    BY <2>1, <2>2, <1>types DEF ControlTypes, Op
<1>10. CASE UNCHANGED vars
  BY <1>10, <1>types DEF vars, ControlTypes
<1>11. QED
  BY <1>2, <1>3, <1>4, <1>5, <1>6, <1>7, <1>8, <1>9, <1>10, Kinds

\* Every step keeps the two pipes and the frame in progress typed.
LEMMA WireTypesStep == IInv /\ [Next]_vars => WireTypes'
<1> SUFFICES ASSUME IInv, [Next]_vars PROVE WireTypes'
  OBVIOUS
<1>types. WireTypes
  BY TypeParts DEF IInv
<1>empty. <<>> \in Seq(Unit) /\ Len(<<>>) <= 2
  OBVIOUS
<1>course. Course
  BY DEF IInv, Exchanged
<1>kept. UNCHANGED <<up, down, sent, owes, reading>> /\ (unit' = <<>> \/ unit' = unit) => WireTypes'
  BY <1>types, <1>empty DEF WireTypes
<1>1. CASE ReadUnit
  <2>1. /\ up # <<>> /\ up \in Seq(Unit) /\ unit \in Seq(Unit) /\ Len(unit) < 2
        /\ unit' = Append(unit, Head(up)) /\ up' = Tail(up)
    BY <1>1, <1>types DEF ReadUnit, WireTypes
  <2>2. unit' \in Seq(Unit) /\ Len(unit') <= 2 /\ up' \in Seq(Unit) /\ Len(up') <= Len(up)
    BY <2>1
  <2>3. Len(up') <= UpCap
    BY <2>1, <2>2, <1>types, PipeAssumption DEF WireTypes
  <2>4. UNCHANGED <<down, sent, owes, reading>>
    BY <1>1 DEF ReadUnit
  <2>5. QED
    BY <2>2, <2>3, <2>4, <1>types DEF WireTypes
<1>2. CASE WriteUnit
  BY <1>2, <1>types, PipeAssumption DEF WriteUnit, WireTypes
<1>3. CASE PluginHead
  <2>1. PICK m \in Messages : sent' = Append(sent, m)
    BY <1>3 DEF PluginHead
  <2>2. <<Len(sent) + 1, "head">> \in Unit /\ Len(sent') <= MaxSent
    BY <1>3, <2>1, <1>types, PipeAssumption DEF PluginHead, WireTypes, Unit
  <2>3. up' = Append(up, <<Len(sent) + 1, "head">>) /\ Len(up) < UpCap
    BY <1>3 DEF PluginHead
  <2>4. up' \in Seq(Unit) /\ Len(up') <= UpCap
    BY <2>2, <2>3, <1>types, PipeAssumption DEF WireTypes
  <2>5. QED
    BY <1>3, <2>1, <2>2, <2>4, <1>types DEF PluginHead, WireTypes
<1>4. CASE PluginBody
  <2>1. <<Len(sent), "body">> \in Unit
    BY <1>4, <1>types, PipeAssumption DEF PluginBody, WireTypes, Unit, IInv, Stream
  <2>2. up' = Append(up, <<Len(sent), "body">>) /\ Len(up) < UpCap
    BY <1>4 DEF PluginBody
  <2>3. up' \in Seq(Unit) /\ Len(up') <= UpCap
    BY <2>1, <2>2, <1>types, PipeAssumption DEF WireTypes
  <2>4. QED
    BY <1>4, <2>3, <1>types DEF PluginBody, WireTypes
<1>5. CASE PluginReads
  BY <1>5, <1>types, PipeAssumption DEF PluginReads, WireTypes
<1>6. CASE PluginCloses
  BY <1>6, <1>types DEF PluginCloses, WireTypes
<1>7. CASE Deadline
  BY <1>7, <1>kept DEF Deadline, wire
<1>8. CASE Ended
  BY <1>8, <1>kept, <1>course, EndedLeaves
<1>9. CASE Load \/ Serve \/ AskShutdown \/ Written
  BY <1>9, <1>kept DEF Load, Serve, AskShutdown, Written, Await, Say, wire
<1>10. CASE Decoded
  <2>1. unit' = <<>>
    BY <1>10, DecodedLeads DEF Greets, Confirms, TakesLeave, Answers, Breaks
  <2>2. QED
    BY <1>10, <2>1, <1>kept, NextMessage
<1>11. CASE UNCHANGED vars
  BY <1>11, <1>kept DEF vars, wire
<1>12. QED
  BY <1>1, <1>2, <1>3, <1>4, <1>5, <1>6, <1>7, <1>8, <1>9, <1>10, <1>11, Kinds

\* Every step keeps the record of the session typed.
LEMMA PastTypesStep == IInv /\ [Next]_vars => PastTypes'
<1> SUFFICES ASSUME IInv, [Next]_vars PROVE PastTypes'
  OBVIOUS
<1>types. PastTypes /\ reply \in Frame
  BY TypeParts DEF IInv, ControlTypes
<1>course. Course
  BY DEF IInv, Exchanged
<1>kept. UNCHANGED <<manifest, granted, got, replied, effects>> => PastTypes'
  BY <1>types DEF PastTypes
<1>1. CASE Quiet
  BY <1>1, <1>kept DEF Quiet
<1>2. CASE Ended
  BY <1>2, <1>kept, <1>course, EndedLeaves
<1>3. CASE Load \/ Serve \/ AskShutdown
  BY <1>3, <1>kept DEF Load, Serve, AskShutdown, past
<1>4. CASE Decoded
  <2>1. /\ Message \in Messages /\ got' = Append(got, Message)
        /\ UNCHANGED <<manifest, granted, replied>>
    BY <1>4, NextMessage
  <2>2. effects' = effects \/ effects' = Append(effects, Len(got) + 1)
    BY <1>4, DecodedLeads DEF Greets, Confirms, TakesLeave, Answers, Breaks, Acted
  <2>3. effects' \in Seq(Nat) /\ got' \in Seq(Messages)
    <3>1. got \in Seq(Messages) /\ effects \in Seq(Nat)
      BY <1>types DEF PastTypes
    <3>2. Len(got) + 1 \in Nat
      BY <3>1
    <3>3. Append(effects, Len(got) + 1) \in Seq(Nat) /\ Append(got, Message) \in Seq(Messages)
      BY <2>1, <3>1, <3>2, AppendAt
    <3>4. QED
      BY <2>1, <2>2, <3>1, <3>3
  <2>4. QED
    BY <2>1, <2>3, <1>types DEF PastTypes
<1>5. CASE Written
  BY <1>5, <1>types DEF Written, PastTypes
<1>6. QED
  BY <1>1, <1>2, <1>3, <1>4, <1>5, Steps

----------------------------------------------------------------------------
\* Every step keeps the parent's place in the plugin's stream, and what it has
\* decoded the beginning of what was sent.
LEMMA StreamStep == IInv /\ [Next]_vars => Stream' /\ Follows'
<1> SUFFICES ASSUME IInv, [Next]_vars PROVE Stream' /\ Follows'
  OBVIOUS
<1>types. /\ unit \in Seq(Unit) /\ up \in Seq(Unit) /\ sent \in Seq(Messages)
          /\ got \in Seq(Messages) /\ owes \in BOOLEAN /\ Len(unit) <= 2
  BY TypeParts DEF IInv, WireTypes, PastTypes
<1>bound. Len(sent) <= MaxSent
  BY TypeParts DEF IInv, WireTypes
<1>course. Course
  BY DEF IInv, Exchanged
<1>here. Stream /\ Follows
  BY DEF IInv
<1>over. UNCHANGED <<sent, owes, got>> /\ phase' \in {"failed", "stopped"} => Stream' /\ Follows'
  BY <1>here DEF Stream, Follows, Current
<1>kept. UNCHANGED <<sent, owes, got, unit, up, phase>> => Stream' /\ Follows'
  BY <1>here DEF Stream, Follows, Current, Wrote
<1>1. CASE ReadUnit
  <2>1. /\ up # <<>> /\ unit' = Append(unit, Head(up)) /\ up' = Tail(up)
        /\ UNCHANGED <<sent, owes, got, phase>>
    BY <1>1 DEF ReadUnit, past
  <2>2. Current
    BY <1>1, <1>course, TypeParts DEF ReadUnit, Course, Current, IInv, ControlTypes, Op
  <2>3. \A i \in 1..Len(unit') : unit'[i] = U(2 * Len(got) + i)
    <3> DEFINE g == Len(got)
               n == Len(unit)
               h == Head(up)
    <3>1. g \in Nat /\ n \in Nat /\ Len(up) \in Nat /\ 1 \in 1..Len(up) /\ h = up[1] /\ h \in Unit
      BY <2>1, <1>types
    <3>2. /\ \A i \in 1..n : unit[i] = U(2 * g + i)
          /\ h = U(2 * g + n + 1)
      BY <2>2, <3>1, <1>here DEF Stream
    <3>3. unit' = Append(unit, h) /\ unit \in Seq(Unit)
      BY <2>1, <1>types
    <3> HIDE DEF g, h
    <3>4. Len(unit') = n + 1 /\ unit'[n + 1] = h /\ \A i \in 1..n : unit'[i] = unit[i]
      BY <3>1, <3>3, AppendAt
    <3> HIDE DEF n
    <3>5. ASSUME NEW i \in 1..(n + 1) PROVE unit'[i] = U(2 * g + i)
      <4>1. CASE i \in 1..n
        BY <3>2, <3>4, <4>1
      <4>2. CASE i = n + 1
        <5>1. 2 * g + n + 1 = 2 * g + i
          BY <3>1, <4>2
        <5>2. QED
          BY <3>2, <3>4, <4>2, <5>1
      <4>3. QED
        BY <3>1, <4>1, <4>2
    <3>6. QED
      BY <3>4, <3>5 DEF g
  <2>4. \A i \in 1..Len(up') : up'[i] = U(2 * Len(got) + Len(unit') + i)
    <3> SUFFICES ASSUME NEW i \in 1..Len(up') PROVE up'[i] = U(2 * Len(got) + Len(unit') + i)
      OBVIOUS
    <3>1. /\ i + 1 \in 1..Len(up) /\ up'[i] = up[i + 1] /\ Len(unit') = Len(unit) + 1
          /\ i \in Nat
      BY <2>1, <1>types
    <3>2. up[i + 1] = U(2 * Len(got) + Len(unit) + (i + 1))
      BY <2>2, <3>1, <1>here DEF Stream
    <3>3. 2 * Len(got) + Len(unit) + (i + 1) = 2 * Len(got) + Len(unit') + i
      BY <3>1, <1>types
    <3>4. QED
      BY <3>1, <3>2, <3>3
  <2>5. 2 * Len(got') + Len(unit') + Len(up') = Wrote'
    <3>1. Wrote' = Wrote /\ 2 * Len(got) + Len(unit) + Len(up) = Wrote
      BY <2>1, <2>2, <1>here DEF Stream, Wrote
    <3>2. /\ Len(unit') = Len(unit) + 1 /\ Len(up') = Len(up) - 1 /\ Len(got') = Len(got)
          /\ Len(unit) \in Nat /\ Len(up) \in Nat /\ Len(got) \in Nat
      BY <2>1, <1>types
    <3>3. QED
      BY <3>1, <3>2
  <2>6. QED
    BY <2>1, <2>3, <2>4, <2>5, <1>here DEF Stream, Follows
<1>2. CASE WriteUnit \/ PluginReads \/ PluginCloses \/ Deadline
  BY <1>2, <1>kept DEF WriteUnit, PluginReads, PluginCloses, Deadline, past, wire
<1>3. CASE PluginHead
  <2>1. PICK m \in Messages : sent' = Append(sent, m)
    BY <1>3 DEF PluginHead
  <2>2. /\ ~owes /\ owes' = TRUE /\ up' = Append(up, <<Len(sent) + 1, "head">>)
        /\ UNCHANGED <<unit, got, phase>> /\ Current
    BY <1>3 DEF PluginHead, past, Lives, Current
  <2>unit. <<Len(sent) + 1, "head">> \in Unit
    BY <1>3, <1>types, <1>bound, PipeAssumption DEF PluginHead, Unit
  <2>pipe. /\ Len(up') = Len(up) + 1 /\ Len(up) \in Nat
           /\ \A i \in 1..Len(up) : up'[i] = up[i]
           /\ up'[Len(up) + 1] = <<Len(sent) + 1, "head">>
    <3> DEFINE e == <<Len(sent) + 1, "head">>
    <3>1. e \in Unit /\ up' = Append(up, e)
      BY <2>unit, <2>2
    <3> HIDE DEF e
    <3>2. /\ Len(up') = Len(up) + 1 /\ Len(up) \in Nat
          /\ \A i \in 1..Len(up) : up'[i] = up[i]
          /\ up'[Len(up) + 1] = e
      BY <3>1, <1>types, AppendAt
    <3>3. QED
      BY <3>2 DEF e
  <2>3. 2 * Len(got) + Len(unit) + Len(up) = 2 * Len(sent)
    BY <2>2, <1>types, <1>here DEF Stream, Wrote
  <2>4. U(2 * Len(got) + Len(unit) + (Len(up) + 1)) = <<Len(sent) + 1, "head">>
    <3>1. 2 * Len(got) + Len(unit) + (Len(up) + 1) = 2 * Len(sent) + 1
      <4> DEFINE g == Len(got)
                 n == Len(unit)
                 p == Len(up)
                 s == Len(sent)
      <4>1. g \in Nat /\ n \in Nat /\ p \in Nat /\ s \in Nat
        BY <1>types
      <4>2. 2 * g + n + p = 2 * s
        BY <2>3
      <4> HIDE DEF g, n, p, s
      <4>3. 2 * g + n + (p + 1) = 2 * s + 1
        BY <4>1, <4>2
      <4>4. QED
        BY <4>3 DEF g, n, p, s
    <3>2. QED
      BY <3>1, <1>types, Units
  <2>5. \A i \in 1..Len(up') : up'[i] = U(2 * Len(got) + Len(unit) + i)
    <3> SUFFICES ASSUME NEW i \in 1..Len(up') PROVE up'[i] = U(2 * Len(got) + Len(unit) + i)
      OBVIOUS
    <3>1. CASE i \in 1..Len(up)
      <4>1. up'[i] = up[i]
        BY <3>1, <2>pipe
      <4>2. QED
        BY <2>2, <3>1, <4>1, <1>here DEF Stream
    <3>2. CASE i = Len(up) + 1
      BY <2>pipe, <2>4, <3>2
    <3>3. QED
      BY <2>pipe, <3>1, <3>2
  <2>6. /\ Len(sent') = Len(sent) + 1 /\ \A i \in 1..Len(sent) : sent'[i] = sent[i]
        /\ Len(up') = Len(up) + 1 /\ Len(sent) \in Nat /\ Len(got) \in Nat
    BY <2>1, <2>2, <1>types
  <2>7. 2 * Len(got') + Len(unit') + Len(up') = Wrote' /\ (owes' => Len(sent') >= 1)
    <3>1. Wrote' = 2 * Len(sent') - 1
      BY <2>2 DEF Wrote
    <3>2. Len(got') = Len(got) /\ Len(unit') = Len(unit) /\ Len(unit) \in Nat
      BY <2>2, <1>types
    <3>3. QED
      BY <2>3, <2>6, <3>1, <3>2
  <2>8. Stream'
    BY <2>2, <2>5, <2>7, <1>here DEF Stream
  <2>9. Follows'
    BY <2>2, <2>6, <1>here DEF Follows
  <2>10. QED
    BY <2>8, <2>9
<1>4. CASE PluginBody
  <2>1. /\ owes /\ owes' = FALSE /\ up' = Append(up, <<Len(sent), "body">>)
        /\ UNCHANGED <<unit, got, sent, phase>> /\ Current /\ Len(sent) >= 1
    BY <1>4, <1>here DEF PluginBody, past, Lives, Current, Stream
  <2>unit. <<Len(sent), "body">> \in Unit
    BY <2>1, <1>types, <1>bound, PipeAssumption DEF Unit
  <2>pipe. /\ Len(up') = Len(up) + 1 /\ Len(up) \in Nat
           /\ \A i \in 1..Len(up) : up'[i] = up[i]
           /\ up'[Len(up) + 1] = <<Len(sent), "body">>
    <3> DEFINE e == <<Len(sent), "body">>
    <3>1. e \in Unit /\ up' = Append(up, e)
      BY <2>unit, <2>1
    <3> HIDE DEF e
    <3>2. /\ Len(up') = Len(up) + 1 /\ Len(up) \in Nat
          /\ \A i \in 1..Len(up) : up'[i] = up[i]
          /\ up'[Len(up) + 1] = e
      BY <3>1, <1>types, AppendAt
    <3>3. QED
      BY <3>2 DEF e
  <2>2. 2 * Len(got) + Len(unit) + Len(up) = 2 * Len(sent) - 1
    BY <2>1, <1>types, <1>here DEF Stream, Wrote
  <2>3. U(2 * Len(got) + Len(unit) + (Len(up) + 1)) = <<Len(sent), "body">>
    <3>1. /\ 2 * Len(got) + Len(unit) + (Len(up) + 1) = 2 * (Len(sent) - 1) + 2
          /\ Len(sent) - 1 \in Nat /\ (Len(sent) - 1) + 1 = Len(sent)
      BY <2>1, <2>2, <1>types
    <3>2. QED
      BY <3>1, Units
  <2>4. \A i \in 1..Len(up') : up'[i] = U(2 * Len(got) + Len(unit) + i)
    <3> SUFFICES ASSUME NEW i \in 1..Len(up') PROVE up'[i] = U(2 * Len(got) + Len(unit) + i)
      OBVIOUS
    <3>1. CASE i \in 1..Len(up)
      <4>1. up'[i] = up[i]
        BY <3>1, <2>pipe
      <4>2. QED
        BY <2>1, <3>1, <4>1, <1>here DEF Stream
    <3>2. CASE i = Len(up) + 1
      BY <2>pipe, <2>3, <3>2
    <3>3. QED
      BY <2>pipe, <3>1, <3>2
  <2>5. 2 * Len(got') + Len(unit') + Len(up') = Wrote'
    BY <2>1, <2>2, <1>types DEF Wrote
  <2>6. QED
    BY <2>1, <2>4, <2>5, <1>here DEF Stream, Follows
<1>5. CASE Ended
  BY <1>5, <1>course, <1>over, EndedLeaves
<1>6. CASE Load
  <2>1. UNCHANGED <<sent, owes, got, up>>
    BY <1>6 DEF Load, past, wire
  <2>2. unit = <<>> /\ Current
    BY <1>6, <1>course, TypeParts DEF Load, Course, Current, IInv, ControlTypes, Op
  <2>3. phase' = "failed" \/ (phase' = "starting" /\ unit' = <<>>)
    BY <1>6 DEF Load, Await
  <2>4. CASE phase' = "failed"
    BY <2>1, <2>4, <1>over
  <2>5. CASE phase' = "starting" /\ unit' = <<>>
    BY <2>1, <2>2, <2>5, <1>here DEF Stream, Follows, Current, Wrote
  <2>6. QED
    BY <2>3, <2>4, <2>5
<1>7. CASE Serve \/ AskShutdown
  <2>1. unit' = <<>> /\ UNCHANGED <<sent, owes, got, up, phase>> /\ at = "idle"
    BY <1>7 DEF Serve, AskShutdown, Await, Say, past, wire
  <2>2. QED
    BY <2>1, <1>course, <1>kept DEF Course
<1>8. CASE Decoded
  <2>1. /\ Current /\ Len(got) + 1 \in 1..Len(sent) /\ Message = sent[Len(got) + 1]
        /\ got' = Append(got, Message) /\ UNCHANGED <<up, sent, owes>> /\ Message \in Messages
    BY <1>8, NextMessage DEF Live, Current
  <2>2. unit' = <<>> /\ Len(unit) = 2
    BY <1>8, DecodedLeads DEF Greets, Confirms, TakesLeave, Answers, Breaks, Decoded
  <2>3. Len(got') = Len(got) + 1 /\ Len(unit') = 0
    BY <2>1, <2>2, <1>types
  <2>4. \A i \in 1..Len(up) : up[i] = U(2 * Len(got') + Len(unit') + i)
    <3> SUFFICES ASSUME NEW i \in 1..Len(up) PROVE up[i] = U(2 * Len(got') + Len(unit') + i)
      OBVIOUS
    <3>1. up[i] = U(2 * Len(got) + 2 + i)
      BY <2>1, <2>2, <1>here DEF Stream
    <3>2. 2 * Len(got) + 2 + i = 2 * Len(got') + Len(unit') + i
      BY <2>3, <1>types
    <3>3. QED
      BY <3>1, <3>2
  <2>5. 2 * Len(got') + Len(unit') + Len(up') = Wrote'
    BY <2>1, <2>2, <2>3, <1>types, <1>here DEF Stream, Wrote
  <2>6. Stream'
    BY <2>1, <2>2, <2>3, <2>4, <2>5, <1>here DEF Stream
  <2>7. Follows'
    BY <2>1, <2>3, <1>types, <1>here DEF Follows
  <2>8. QED
    BY <2>6, <2>7
<1>9. CASE Written
  <2>1. unit' = <<>> /\ UNCHANGED <<sent, owes, got, up, phase>> /\ at = "write"
    BY <1>9 DEF Written, wire
  <2>2. QED
    BY <2>1, <1>course, <1>kept DEF Course
<1>10. CASE UNCHANGED vars
  BY <1>10, <1>kept DEF vars
<1>11. QED
  BY <1>1, <1>2, <1>3, <1>4, <1>5, <1>6, <1>7, <1>8, <1>9, <1>10, Kinds
----------------------------------------------------------------------------
\* Every step keeps the order of the exchanges.
LEMMA CourseStep == IInv /\ [Next]_vars => Course' /\ BlockingRestored'
<1> SUFFICES ASSUME IInv, [Next]_vars PROVE Course' /\ BlockingRestored'
  OBVIOUS
<1>here. Course /\ BlockingRestored
  BY DEF IInv, Exchanged
<1>types. op \in Op /\ phase \in Phase /\ at \in {"idle", "read", "write"}
  BY TypeParts DEF IInv, ControlTypes
<1>1. CASE Quiet
  BY <1>1, <1>here DEF Quiet, Course, BlockingRestored, Live, Requested
<1>2. CASE Ended
  BY <1>2, <1>here, EndedLeaves DEF Course, BlockingRestored, Live
<1>3. CASE Load
  <2>1. /\ at = "idle" /\ op = "none" /\ blocking /\ unit = <<>>
        /\ UNCHANGED <<blocking, granted, manifest>>
    BY <1>3, <1>here, <1>types DEF Load, Course, BlockingRestored, Op, Await, past
  <2>2. \/ phase' = "failed" /\ UNCHANGED <<op, at, unit>>
        \/ phase' = "starting" /\ op' = "hello" /\ at' = "read" /\ Grantable
    BY <1>3 DEF Load, Await
  <2>3. QED
    BY <2>1, <2>2 DEF Course, BlockingRestored, Live, Grantable, Requested
<1>4. CASE Serve
  BY <1>4, <1>here DEF Serve, Await, Course, BlockingRestored, Live, Requested, past
<1>5. CASE AskShutdown
  BY <1>5, <1>here DEF AskShutdown, Say, Course, BlockingRestored, Live, Requested, past
<1>6. CASE Decoded
  <2>1. UNCHANGED <<granted, manifest>> /\ granted \subseteq Requested
    BY <1>6, <1>here, NextMessage DEF Course
  <2>2. CASE Greets(Message)
    BY <2>1, <2>2, <1>here DEF Greets, Course, BlockingRestored, Live, Requested
  <2>3. CASE Confirms(Message)
    BY <2>1, <2>3 DEF Confirms, Course, BlockingRestored, Live, Requested
  <2>4. CASE TakesLeave(Message)
    BY <2>1, <2>4 DEF TakesLeave, Course, BlockingRestored, Live, Requested
  <2>5. ASSUME NEW code \in Code, Answers(Message, code) PROVE Course' /\ BlockingRestored'
    BY <2>1, <2>5, <1>here DEF Answers, Acted, Course, BlockingRestored, Live, Requested
  <2>6. ASSUME NEW code \in Code, Breaks(Message, code) PROVE Course' /\ BlockingRestored'
    BY <2>1, <2>6 DEF Breaks, Course, BlockingRestored, Live, Requested
  <2>7. QED
    BY <1>6, <2>2, <2>3, <2>4, <2>5, <2>6, DecodedLeads
<1>7. CASE Written
  <2>1. /\ op \in {"grant", "answer", "bye"} /\ unit' = <<>> /\ blocking' = TRUE
        /\ UNCHANGED <<phase, granted, manifest>>
    BY <1>7, <1>here DEF Written, Course
  <2>2. /\ op = "grant" => op' = "ready" /\ at' = "read"
        /\ op = "answer" => op' = "none" /\ at' = "idle"
        /\ op = "bye" => op' = "ack" /\ at' = "read"
    BY <1>7 DEF Written
  <2>3. QED
    BY <2>1, <2>2, <1>here DEF Course, BlockingRestored, Live, Requested
<1>8. QED
  BY <1>1, <1>2, <1>3, <1>4, <1>5, <1>6, <1>7, Steps

\* Every step keeps the count of messages and replies in its place.
LEMMA PlacesStep == IInv /\ [Next]_vars => Places'
<1> SUFFICES ASSUME IInv, [Next]_vars PROVE Places'
  OBVIOUS
<1>here. Course /\ Places
  BY DEF IInv, Exchanged
<1>types. /\ op \in Op /\ phase \in Phase /\ got \in Seq(Messages) /\ replied \in Seq(Frame)
          /\ reply \in Frame
  BY TypeParts DEF IInv, ControlTypes, PastTypes
<1>lens. Len(got) \in Nat /\ Len(replied) \in Nat
  BY <1>types
<1>1. CASE Quiet
  BY <1>1, <1>here DEF Quiet, Places, Asks
<1>2. CASE Ended
  <2>1. op' = "none" /\ phase' \in {"failed", "stopped"}
    BY <1>2, <1>here, EndedLeaves
  <2>2. QED
    BY <2>1 DEF Places
<1>3. CASE Load
  <2>1. phase = "new" /\ op = "none" /\ UNCHANGED <<got, replied>>
    BY <1>3, <1>here, <1>types DEF Load, Course, Op, past
  <2>2. \/ phase' = "failed" /\ op' = op
        \/ phase' = "starting" /\ op' = "hello"
    BY <1>3 DEF Load, Await
  <2>3. QED
    BY <2>1, <2>2, <1>here DEF Places
<1>4. CASE Serve
  <2>1. phase = "running" /\ phase' = "running" /\ op = "none" /\ op' = "request"
    BY <1>4, <1>here DEF Serve, Course, Await
  <2>2. UNCHANGED <<got, replied>>
    BY <1>4 DEF Serve, past
  <2>3. QED
    BY <2>1, <2>2, <1>here DEF Places
<1>5. CASE AskShutdown
  <2>1. phase = "running" /\ phase' = "running" /\ op = "none" /\ op' = "bye"
    BY <1>5, <1>here DEF AskShutdown, Course, Say
  <2>2. UNCHANGED <<got, replied>> /\ reply'.type = "shutdown"
    BY <1>5 DEF AskShutdown, past, Say
  <2>3. QED
    BY <2>1, <2>2, <1>here DEF Places
<1>6. CASE Decoded
  <2>1. /\ Message \in Messages /\ got' = Append(got, Message) /\ replied' = replied
    BY <1>6, NextMessage
  <2>2. Len(got') = Len(got) + 1 /\ got'[Len(got) + 1] = Message
    BY <2>1, <1>types, AppendAt
  <2>3. CASE Greets(Message)
    <3>1. op = "hello" /\ op' = "grant" /\ phase' = phase /\ reply'.type = "grant"
      BY <2>3 DEF Greets
    <3>2. phase' = "starting"
      BY <3>1, <1>here DEF Course
    <3>3. QED
      BY <2>1, <2>2, <3>1, <3>2, <1>here DEF Places
  <2>4. CASE Confirms(Message)
    <3>1. op = "ready" /\ op' = "none" /\ phase' = "running"
      BY <2>4 DEF Confirms
    <3>2. Len(got) = 1 /\ Len(replied) = 1
      BY <3>1, <1>here DEF Places
    <3>3. Len(got') = 2 /\ Len(replied') = 1
      BY <2>1, <2>2, <3>2
    <3>4. QED
      BY <3>1, <3>3 DEF Places
  <2>5. CASE TakesLeave(Message)
    <3>1. op' = "none" /\ phase' = "stopped"
      BY <2>5 DEF TakesLeave
    <3>2. QED
      BY <3>1 DEF Places
  <2>6. ASSUME NEW code \in Code, Answers(Message, code) PROVE Places'
    <3>1. /\ op = "request" /\ op' = "answer" /\ phase' = phase /\ Message.type = "request"
      BY <2>6 DEF Answers, Acted
    <3>2. reply'.type = "response" /\ reply'.id = Message.id
      BY <2>6 DEF Answers
    <3>3. phase = "running"
      BY <3>1, <1>here DEF Course
    <3>4. Len(got) >= 2 /\ Len(replied) = Len(got) - 1
      BY <3>1, <3>3, <1>here DEF Places
    <3>5. Len(got') >= 3 /\ Len(replied') = Len(got') - 2 /\ got'[Len(got')] = Message
      BY <2>1, <2>2, <3>4, <1>lens
    <3>6. QED
      BY <3>1, <3>2, <3>3, <3>5 DEF Places, Asks
  <2>7. ASSUME NEW code \in Code, Breaks(Message, code) PROVE Places'
    <3>1. op' = "none" /\ phase' = "failed"
      BY <2>7 DEF Breaks
    <3>2. QED
      BY <3>1 DEF Places
  <2>8. QED
    BY <1>6, <2>3, <2>4, <2>5, <2>6, <2>7, DecodedLeads
<1>7. CASE Written
  <2>1. op \in {"grant", "answer", "bye"} /\ UNCHANGED <<phase, got>>
    BY <1>7, <1>here DEF Written, Course
  <2>2. Len(replied') = Len(replied) + 1
    BY <1>7, <1>types, AppendAt DEF Written
  <2>3. CASE op = "grant"
    <3>1. op' = "ready" /\ phase' = "starting"
      BY <1>7, <2>1, <2>3, <1>here DEF Written, Course
    <3>2. QED
      BY <2>1, <2>2, <2>3, <3>1, <1>here DEF Places
  <2>4. CASE op = "answer"
    <3>1. op' = "none" /\ phase' = "running"
      BY <1>7, <2>1, <2>4, <1>here DEF Written, Course
    <3>2. QED
      BY <2>1, <2>2, <2>4, <3>1, <1>here, <1>lens DEF Places
  <2>5. CASE op = "bye"
    <3>1. op' = "ack" /\ phase' = "running" /\ phase = "running"
      BY <1>7, <2>1, <2>5, <1>here DEF Written, Course
    <3>2. QED
      BY <2>1, <2>2, <2>5, <3>1, <1>here, <1>lens DEF Places
  <2>6. QED
    BY <2>1, <2>3, <2>4, <2>5
<1>8. QED
  BY <1>1, <1>2, <1>3, <1>4, <1>5, <1>6, <1>7, Steps

----------------------------------------------------------------------------
(***************************************************************************)
(* What was said.  Three kinds of step tell: nothing is said, a message is *)
(* decoded, a reply has been written.                                      *)
(***************************************************************************)
Silent == /\ UNCHANGED <<manifest, granted, got, replied, effects>>
          /\ \/ op' = op /\ reply' = reply /\ phase' = phase
             \/ op # "answer" /\ op' # "answer" /\ (phase' = "failed" \/ phase # "failed")
             \/ op = "answer" /\ op' = "none" /\ phase' = "failed"

\* In these steps nothing is said.
LEMMA Silence ==
    ASSUME IInv, Quiet \/ Ended \/ Load \/ Serve \/ AskShutdown
    PROVE  Silent
<1>here. Course
  BY DEF IInv, Exchanged
<1>types. op \in Op /\ phase \in Phase
  BY TypeParts DEF IInv, ControlTypes
<1>1. CASE Quiet
  BY <1>1 DEF Quiet, Silent
<1>2. CASE Ended
  <2>1. op # "none" /\ op' = "none"
    BY <1>2, <1>here, EndedLeaves DEF Ended, Course
  <2>2. phase \in {"starting", "running"}
    BY <2>1, <1>here, <1>types DEF Course, Op
  <2>3. phase' = IF op \in {"bye", "ack"} THEN "stopped" ELSE "failed"
    BY <1>2, <1>here, EndedLeaves
  <2>4. UNCHANGED <<manifest, granted, got, replied, effects>>
    BY <1>2, <1>here, EndedLeaves
  <2>5. QED
    BY <2>1, <2>2, <2>3, <2>4 DEF Silent
<1>3. CASE Load
  <2>1. phase = "new" /\ op = "none" /\ op' \in {"none", "hello"}
    BY <1>3, <1>here, <1>types DEF Load, Await, Course, Op
  <2>2. QED
    BY <1>3, <2>1 DEF Load, past, Silent
<1>4. CASE Serve \/ AskShutdown
  <2>1. phase = "running" /\ op = "none" /\ op' \in {"request", "bye"}
    BY <1>4, <1>here DEF Serve, AskShutdown, Await, Say, Course
  <2>2. QED
    BY <1>4, <2>1 DEF Serve, AskShutdown, past, Silent
<1>5. QED
  BY <1>1, <1>2, <1>3, <1>4

\* What the decoding of message n leaves, where n is its place.
Said(n, m) ==
    /\ n = Len(got) + 1 /\ m \in Messages
    /\ got' \in Seq(Messages) /\ Len(got') = n /\ got'[n] = m
    /\ \A i \in 1..Len(got) : got'[i] = got[i]
    /\ UNCHANGED <<manifest, granted, replied>>
    /\ op # "answer" /\ phase # "failed"
    /\ \/ /\ n = 1 /\ m.type = "hello" /\ effects' = effects
          /\ Len(replied) = 0 /\ op' = "grant"
       \/ /\ n = 2 /\ m.type = "ready" /\ m.id = got[1].id /\ effects' = effects
          /\ Len(replied) = 1 /\ op' = "none"
       \/ /\ n >= 3 /\ m.type = "ack" /\ effects' = effects /\ op' = "none"
       \/ /\ n >= 3 /\ m.type = "request" /\ Len(replied) = n - 2
          /\ granted \subseteq Requested
          /\ \/ effects' = effects
             \/ effects' = Append(effects, n) /\ m.cap \in granted
          /\ \/ /\ op' = "answer"
                /\ effects' = effects \/ reply'.code # "capability_denied"
             \/ op' = "none" /\ phase' = "failed"

\* Decoding a frame takes the next message in its place.
LEMMA Saying ==
    ASSUME IInv, Decoded
    PROVE  Said(Len(got) + 1, Message)
<1>here. Course /\ Places
  BY DEF IInv, Exchanged
<1>types. got \in Seq(Messages)
  BY TypeParts DEF IInv, PastTypes
<1>lens. Len(got) \in Nat
  BY <1>types
<1>1. /\ Message \in Messages /\ got' = Append(got, Message) /\ Live
      /\ UNCHANGED <<manifest, granted, replied>>
  BY NextMessage
<1>2. /\ got' \in Seq(Messages) /\ Len(got') = Len(got) + 1 /\ got'[Len(got) + 1] = Message
      /\ \A i \in 1..Len(got) : got'[i] = got[i]
  BY <1>1, <1>types, AppendAt
<1>3. granted \subseteq Requested /\ phase # "failed"
  BY <1>1, <1>here DEF Course, Live
<1>4. CASE Greets(Message)
  <2>1. op = "hello" /\ op' = "grant" /\ effects' = effects /\ Message.type = "hello"
    BY <1>4 DEF Greets
  <2>2. Len(got) = 0 /\ Len(replied) = 0
    BY <2>1, <1>here DEF Places
  <2>3. QED
    BY <1>1, <1>2, <1>3, <2>1, <2>2 DEF Said
<1>5. CASE Confirms(Message)
  <2>1. /\ op = "ready" /\ op' = "none" /\ effects' = effects /\ Message.type = "ready"
        /\ Message.id = got[1].id
    BY <1>5 DEF Confirms
  <2>2. Len(got) = 1 /\ Len(replied) = 1
    BY <2>1, <1>here DEF Places
  <2>3. QED
    BY <1>1, <1>2, <1>3, <2>1, <2>2 DEF Said
<1>6. CASE TakesLeave(Message)
  <2>1. op = "ack" /\ op' = "none" /\ effects' = effects /\ Message.type = "ack"
    BY <1>6 DEF TakesLeave
  <2>2. Len(got) + 1 >= 3
    BY <2>1, <1>here, <1>lens DEF Places
  <2>3. QED
    BY <1>1, <1>2, <1>3, <2>1, <2>2 DEF Said
<1>7. ASSUME NEW code \in Code, Answers(Message, code) \/ Breaks(Message, code)
      PROVE  Said(Len(got) + 1, Message)
  <2>1. Acted(Message, code)
    BY <1>7 DEF Answers, Breaks
  <2>2. op = "request" /\ phase = "running"
    BY <2>1, <1>here DEF Acted, Course
  <2>3. Len(got) + 1 >= 3 /\ Len(replied) = Len(got) + 1 - 2
    BY <2>2, <1>here, <1>lens DEF Places
  <2>4. /\ Message.type = "request"
        /\ \/ effects' = effects
           \/ /\ effects' = Append(effects, Len(got) + 1) /\ Message.cap \in granted
              /\ code # "capability_denied"
    BY <2>1 DEF Acted
  <2>5. \/ op' = "answer" /\ reply'.code = code
        \/ op' = "none" /\ phase' = "failed"
    BY <1>7 DEF Answers, Breaks
  <2>6. QED
    BY <1>1, <1>2, <1>3, <2>2, <2>3, <2>4, <2>5 DEF Said
<1>8. QED
  BY <1>4, <1>5, <1>6, <1>7, DecodedLeads

\* What the writing of a reply leaves: it is the grant, the answer to the last
\* message decoded, or the goodbye.
Told ==
    /\ UNCHANGED <<manifest, granted, got, effects, phase>> /\ op' # "answer"
    /\ replied' \in Seq(Frame) /\ Len(replied') = Len(replied) + 1
    /\ replied'[Len(replied) + 1] = reply
    /\ \A i \in 1..Len(replied) : replied'[i] = replied[i]
    /\ phase # "failed"
    /\ \/ op = "grant" /\ Len(got) = 1 /\ Len(replied) = 0 /\ reply.type = "grant"
       \/ /\ op = "answer" /\ Len(replied) = Len(got) - 2 /\ Len(got) >= 3 /\ Asks(Len(got))
          /\ reply.type = "response" /\ reply.id = got[Len(got)].id
       \/ op = "bye" /\ Len(got) >= 2 /\ Len(replied) = Len(got) - 1 /\ reply.type = "shutdown"

\* A reply written is the one that is due.
LEMMA Telling ==
    ASSUME IInv, Written
    PROVE  Told
<1>here. Course /\ Places
  BY DEF IInv, Exchanged
<1>types. replied \in Seq(Frame) /\ reply \in Frame
  BY TypeParts DEF IInv, PastTypes, ControlTypes
<1>1. /\ replied' \in Seq(Frame) /\ Len(replied') = Len(replied) + 1
      /\ replied'[Len(replied) + 1] = reply
      /\ \A i \in 1..Len(replied) : replied'[i] = replied[i]
  BY <1>types, AppendAt DEF Written
<1>2. op \in {"grant", "answer", "bye"} /\ phase \in {"starting", "running"}
  BY <1>here DEF Written, Course
<1>3. UNCHANGED <<manifest, granted, got, effects, phase>> /\ op' # "answer"
  BY <1>2 DEF Written
<1>4. /\ op = "grant" => Len(got) = 1 /\ Len(replied) = 0 /\ reply.type = "grant"
      /\ op = "answer" => /\ Len(replied) = Len(got) - 2 /\ Len(got) >= 3 /\ Asks(Len(got))
                          /\ reply.type = "response" /\ reply.id = got[Len(got)].id
      /\ op = "bye" => Len(got) >= 2 /\ Len(replied) = Len(got) - 1 /\ reply.type = "shutdown"
  BY <1>here DEF Course, Places
<1>5. QED
  BY <1>1, <1>2, <1>3, <1>4 DEF Told

\* Every step is silent, or takes a message, or gives a reply.
LEMMA Talk ==
    ASSUME IInv, [Next]_vars
    PROVE  Silent \/ Said(Len(got) + 1, Message) \/ Told
BY Steps, Silence, Saying, Telling
----------------------------------------------------------------------------
\* Every step keeps the greeting: hello and ready first, the grant between them.
LEMMA GreetingStep == IInv /\ [Next]_vars => Greeting'
<1> SUFFICES ASSUME IInv, [Next]_vars PROVE Greeting'
  OBVIOUS
<1>here. Greeting
  BY DEF IInv, History
<1>types. got \in Seq(Messages) /\ replied \in Seq(Frame) /\ Len(got) \in Nat /\ Len(replied) \in Nat
  BY TypeParts DEF IInv, PastTypes
<1>1. CASE Silent
  BY <1>1, <1>here DEF Silent, Greeting
<1>2. CASE Said(Len(got) + 1, Message)
  <2>1. /\ Len(got') = Len(got) + 1 /\ got'[Len(got) + 1] = Message /\ replied' = replied
        /\ \A i \in 1..Len(got) : got'[i] = got[i]
    BY <1>2 DEF Said
  <2>2. \/ Len(got) = 0 /\ Message.type = "hello" /\ Len(replied) = 0
        \/ Len(got) = 1 /\ Message.type = "ready" /\ Message.id = got[1].id /\ Len(replied) = 1
        \/ Len(got) >= 2
    BY <1>2, <1>types DEF Said
  <2>3. Len(got) >= 1 => got'[1] = got[1]
    BY <2>1, <1>types
  <2>4. Len(got) >= 2 => got'[2] = got[2]
    BY <2>1, <1>types
  <2>5. QED
    BY <2>1, <2>2, <2>3, <2>4, <1>types, <1>here DEF Greeting
<1>3. CASE Told
  <2>1. /\ got' = got /\ Len(replied') = Len(replied) + 1
        /\ Len(replied) >= 1 => replied'[1] = replied[1]
        /\ Len(replied) = 0 => replied'[1] = reply
    BY <1>3, <1>types DEF Told
  <2>2. Len(replied) = 0 => reply.type = "grant"
    BY <1>3, <1>types, <1>here DEF Told, Greeting
  <2>3. QED
    BY <2>1, <2>2, <1>types, <1>here DEF Greeting
<1>4. QED
  BY <1>1, <1>2, <1>3, Talk

\* In a silent step the requests answered stay so, and an open one stays open.
LEMMA SilentKeeps ==
    ASSUME Silent
    PROVE  \A i : Asks(i)' = Asks(i) /\ Answered(i)' = Answered(i) /\ (Open(i) => Open(i)')
<1> SUFFICES ASSUME NEW i
             PROVE  Asks(i)' = Asks(i) /\ Answered(i)' = Answered(i) /\ (Open(i) => Open(i)')
  OBVIOUS
<1>1. got' = got /\ replied' = replied
  BY DEF Silent
<1>2. Open(i) => Open(i)'
  BY DEF Silent, Open
<1>3. QED
  BY <1>1, <1>2 DEF Asks, Answered, Replies

\* Every step keeps requests and answers in one order.
LEMMA InOrderStep == IInv /\ [Next]_vars => InOrder'
<1> SUFFICES ASSUME IInv, [Next]_vars PROVE InOrder'
  OBVIOUS
<1>here. InOrder
  BY DEF IInv, History
<1>types. /\ got \in Seq(Messages) /\ replied \in Seq(Frame)
          /\ Len(got) \in Nat /\ Len(replied) \in Nat
          /\ DOMAIN got = 1..Len(got) /\ DOMAIN replied = 1..Len(replied)
  BY TypeParts DEF IInv, PastTypes
<1>1. CASE Silent
  <2>1. got' = got /\ replied' = replied
    BY <1>1 DEF Silent
  <2>2. QED
    BY <2>1, <1>1, <1>here, SilentKeeps DEF InOrder
<1>2. CASE Said(Len(got) + 1, Message)
  <2>1. /\ got' \in Seq(Messages) /\ Len(got') = Len(got) + 1 /\ got'[Len(got) + 1] = Message
        /\ \A i \in 1..Len(got) : got'[i] = got[i]
        /\ replied' = replied /\ op # "answer" /\ phase # "failed"
        /\ Message.type = "request" => op' = "answer" \/ phase' = "failed"
    BY <1>2 DEF Said
  <2>2. DOMAIN got' = 1..(Len(got) + 1)
    BY <2>1
  <2>3. \A i \in 1..Len(got) : (Asks(i)' <=> Asks(i)) /\ (Answered(i) => Answered(i)')
    BY <2>1 DEF Asks, Answered, Replies
  <2>4. ASSUME NEW i \in DOMAIN replied, replied[i].type = "response"
        PROVE  i + 1 \in DOMAIN got' /\ Asks(i + 1)' /\ Answered(i + 1)'
    BY <2>2, <2>3, <2>4, <1>types, <1>here DEF InOrder
  <2>5. ASSUME NEW i \in DOMAIN got', Asks(i)'
        PROVE  Answered(i)' \/ Open(i)'
    <3>1. CASE i \in 1..Len(got)
      BY <2>1, <2>3, <2>5, <3>1, <1>types, <1>here DEF InOrder, Open
    <3>2. CASE i = Len(got) + 1
      BY <2>1, <2>5, <3>2 DEF Open, Asks
    <3>3. QED
      BY <2>2, <3>1, <3>2, <1>types
  <2>6. QED
    BY <2>1, <2>4, <2>5 DEF InOrder
<1>3. CASE Told
  <2>1. /\ got' = got /\ phase # "failed" /\ phase' = phase
        /\ replied' \in Seq(Frame) /\ Len(replied') = Len(replied) + 1
        /\ replied'[Len(replied) + 1] = reply
        /\ \A i \in 1..Len(replied) : replied'[i] = replied[i]
    BY <1>3 DEF Told
  <2>2. DOMAIN replied' = 1..(Len(replied) + 1)
    BY <2>1
  <2>3. \A i \in DOMAIN got : Asks(i)' = Asks(i) /\ (Answered(i) => Answered(i)')
    BY <2>1, <2>2, <1>types DEF Asks, Answered, Replies
  <2>4. op = "answer" => /\ Len(got) \in DOMAIN got /\ Len(got) - 1 = Len(replied) + 1
                         /\ Asks(Len(got)) /\ Answered(Len(got))'
    BY <1>3, <2>1, <2>2, <1>types DEF Told, Answered, Replies
  <2>5. ASSUME NEW i \in DOMAIN replied', replied'[i].type = "response"
        PROVE  i + 1 \in DOMAIN got' /\ Asks(i + 1)' /\ Answered(i + 1)'
    <3>1. CASE i \in 1..Len(replied)
      BY <2>1, <2>3, <2>5, <3>1, <1>types, <1>here DEF InOrder
    <3>2. CASE i = Len(replied) + 1
      <4>1. op = "answer"
        BY <1>3, <2>1, <2>5, <3>2 DEF Told
      <4>2. i + 1 = Len(got)
        BY <2>4, <3>2, <4>1, <1>types
      <4>3. QED
        BY <2>1, <2>3, <2>4, <4>1, <4>2
    <3>3. QED
      BY <2>2, <3>1, <3>2, <1>types
  <2>6. ASSUME NEW i \in DOMAIN got', Asks(i)'
        PROVE  Answered(i)' \/ Open(i)'
    BY <2>1, <2>3, <2>4, <2>6, <1>here DEF InOrder, Open
  <2>7. QED
    BY <2>5, <2>6 DEF InOrder
<1>4. QED
  BY <1>1, <1>2, <1>3, Talk

\* Every step keeps what was acted on within the grant.
LEMMA ActsStep == IInv /\ [Next]_vars => Acts'
<1> SUFFICES ASSUME IInv, [Next]_vars PROVE Acts'
  OBVIOUS
<1>here. Acts
  BY DEF IInv, History
<1>types. /\ got \in Seq(Messages) /\ effects \in Seq(Nat)
          /\ Len(got) \in Nat /\ Len(effects) \in Nat
  BY TypeParts DEF IInv, PastTypes
<1>1. CASE Silent \/ Told
  BY <1>1, <1>here DEF Silent, Told, Acts, Asks, Requested
<1>2. CASE Said(Len(got) + 1, Message)
  <2>1. /\ Len(got') = Len(got) + 1 /\ got'[Len(got) + 1] = Message
        /\ \A i \in 1..Len(got) : got'[i] = got[i]
        /\ UNCHANGED <<manifest, granted>>
    BY <1>2 DEF Said
  <2>2. ASSUME NEW i \in 1..Len(effects)
        PROVE  /\ effects[i] \in 3..Len(got') /\ got'[effects[i]].type = "request"
               /\ got'[effects[i]].cap \in granted /\ got'[effects[i]].cap \in Requested
    <3>1. effects[i] \in 3..Len(got)
      BY <1>here DEF Acts
    <3>2. effects[i] \in 1..Len(got) /\ effects[i] \in 3..Len(got')
      BY <2>1, <3>1, <1>types
    <3>3. got'[effects[i]] = got[effects[i]]
      BY <2>1, <3>2
    <3>4. QED
      BY <3>2, <3>3, <1>here DEF Acts, Asks
  <2>3. CASE effects' = effects
    BY <2>1, <2>2, <2>3 DEF Acts, Requested, Asks
  <2>4. CASE effects' # effects
    <3>1. /\ effects' = Append(effects, Len(got) + 1) /\ Len(got) + 1 >= 3
          /\ Message.type = "request" /\ Message.cap \in granted /\ granted \subseteq Requested
      BY <1>2, <2>4 DEF Said
    <3>2. /\ Len(effects') = Len(effects) + 1 /\ effects'[Len(effects) + 1] = Len(got) + 1
          /\ \A i \in 1..Len(effects) : effects'[i] = effects[i]
      BY <3>1, <1>types, AppendAt
    <3>3. \A i \in 1..Len(effects') : i \in 1..Len(effects) \/ i = Len(effects) + 1
      BY <3>2, <1>types
    <3>4. /\ Len(got) + 1 \in 3..Len(got') /\ got'[Len(got) + 1].type = "request"
          /\ got'[Len(got) + 1].cap \in granted /\ got'[Len(got) + 1].cap \in Requested
      BY <2>1, <3>1, <1>types
    <3>5. QED
      BY <2>1, <2>2, <3>2, <3>3, <3>4 DEF Acts, Requested, Asks
  <2>5. QED
    BY <2>3, <2>4
<1>3. QED
  BY <1>1, <1>2, Talk

\* Every step keeps what was acted on answered, but for the request in hand, whose
\* answer will admit it.
LEMMA EffectsStep == IInv /\ [Next]_vars => EffectsAnswered' /\ Admits'
<1> SUFFICES ASSUME IInv, [Next]_vars PROVE EffectsAnswered' /\ Admits'
  OBVIOUS
<1>here. EffectsAnswered /\ Admits /\ Acts
  BY DEF IInv, History
<1>types. /\ got \in Seq(Messages) /\ replied \in Seq(Frame) /\ effects \in Seq(Nat)
          /\ Len(got) \in Nat /\ Len(replied) \in Nat /\ Len(effects) \in Nat
          /\ DOMAIN got = 1..Len(got) /\ DOMAIN replied = 1..Len(replied)
          /\ DOMAIN effects = 1..Len(effects)
  BY TypeParts DEF IInv, PastTypes
<1>past. \A i \in 1..Len(effects) : effects[i] \in 3..Len(got)
  BY <1>here DEF Acts
<1>1. CASE Silent
  <2>1. got' = got /\ replied' = replied /\ effects' = effects
    BY <1>1 DEF Silent
  <2>2. EffectsAnswered'
    BY <2>1, <1>1, <1>here, SilentKeeps DEF EffectsAnswered
  <2>3. op' = "answer" => op = "answer" /\ reply' = reply
    BY <1>1 DEF Silent
  <2>4. QED
    BY <2>1, <2>2, <2>3, <1>here DEF Admits
<1>2. CASE Said(Len(got) + 1, Message)
  <2>1. /\ Len(got') = Len(got) + 1 /\ \A i \in 1..Len(got) : got'[i] = got[i]
        /\ replied' = replied /\ op # "answer" /\ phase # "failed"
    BY <1>2 DEF Said
  <2>2. ASSUME NEW i \in 1..Len(effects), NEW n \in {effects[i]}
        PROVE  Answered(n)' /\ replied'[n - 1].code # "capability_denied"
    <3>1. Answered(n) /\ replied[n - 1].code # "capability_denied"
      BY <2>1, <1>types, <1>here DEF EffectsAnswered, Open
    <3>2. n \in 1..Len(got)
      BY <1>past, <1>types
    <3>3. got'[n] = got[n]
      BY <2>1, <3>2
    <3>4. QED
      BY <2>1, <3>1, <3>3 DEF Answered, Replies
  <2>3. CASE effects' = effects
    <3>1. EffectsAnswered'
      BY <2>2, <2>3, <1>types, <1>here DEF EffectsAnswered
    <3>2. \A i \in 1..Len(effects) : effects[i] # Len(got')
      BY <2>1, <1>past, <1>types
    <3>3. QED
      BY <2>3, <3>1, <3>2 DEF Admits
  <2>4. CASE effects' # effects
    <3>1. /\ effects' = Append(effects, Len(got) + 1)
          /\ \/ op' = "answer" /\ reply'.code # "capability_denied"
             \/ op' = "none" /\ phase' = "failed"
      BY <1>2, <2>4 DEF Said
    <3>2. /\ Len(effects') = Len(effects) + 1 /\ effects'[Len(effects) + 1] = Len(got) + 1
          /\ \A i \in 1..Len(effects) : effects'[i] = effects[i]
          /\ effects' \in Seq(Nat)
      BY <3>1, <1>types, AppendAt
    <3>3. DOMAIN effects' = 1..(Len(effects) + 1)
      BY <3>2
    <3>4. \A i, j \in DOMAIN effects' : i < j => effects'[i] < effects'[j]
      <4> SUFFICES ASSUME NEW i \in DOMAIN effects', NEW j \in DOMAIN effects', i < j
                   PROVE  effects'[i] < effects'[j]
        OBVIOUS
      <4>1. i \in 1..Len(effects)
        BY <3>3, <1>types
      <4>2. CASE j \in 1..Len(effects)
        BY <3>2, <4>1, <4>2, <1>types, <1>here DEF EffectsAnswered
      <4>3. CASE j = Len(effects) + 1
        BY <3>2, <4>1, <4>3, <1>past, <1>types
      <4>4. QED
        BY <3>3, <4>2, <4>3, <1>types
    <3>5. \A n \in {Len(got) + 1} : Open(n)'
      BY <2>1, <3>1 DEF Open
    <3>6. ASSUME NEW i \in DOMAIN effects', NEW n \in {effects'[i]}
          PROVE  \/ Answered(n)' /\ replied'[n - 1].code # "capability_denied"
                 \/ Open(n)'
      <4>1. CASE i \in 1..Len(effects)
        <5>1. n \in {effects[i]}
          BY <3>2, <4>1
        <5>2. QED
          BY <2>2, <4>1, <5>1
      <4>2. CASE i = Len(effects) + 1
        BY <3>2, <3>5, <4>2
      <4>3. QED
        BY <3>3, <4>1, <4>2, <1>types
    <3>7. EffectsAnswered'
      BY <3>4, <3>6 DEF EffectsAnswered
    <3>8. Admits'
      BY <3>1 DEF Admits
    <3>9. QED
      BY <3>7, <3>8
  <2>5. QED
    BY <2>3, <2>4
<1>3. CASE Told
  <2>1. /\ got' = got /\ effects' = effects /\ phase # "failed" /\ op' # "answer"
        /\ replied' \in Seq(Frame) /\ Len(replied') = Len(replied) + 1
        /\ replied'[Len(replied) + 1] = reply
        /\ \A i \in 1..Len(replied) : replied'[i] = replied[i]
    BY <1>3 DEF Told
  <2>2. DOMAIN replied' = 1..(Len(replied) + 1)
    BY <2>1
  <2>kept. \A n \in DOMAIN replied : n \in DOMAIN replied' /\ replied'[n] = replied[n]
    BY <2>1, <2>2, <1>types
  <2>3. op = "answer" => /\ Len(got) - 1 = Len(replied) + 1 /\ Answered(Len(got))'
                         /\ replied'[Len(got) - 1] = reply
    BY <1>3, <2>1, <2>2, <1>types DEF Told, Answered, Replies
  <2>4. ASSUME NEW i \in 1..Len(effects), NEW n \in {effects[i]}
        PROVE  Answered(n)' /\ replied'[n - 1].code # "capability_denied"
    <3>1. CASE Answered(n) /\ replied[n - 1].code # "capability_denied"
      <4>1. /\ n - 1 \in DOMAIN replied' /\ replied'[n - 1] = replied[n - 1]
            /\ replied[n - 1].type = "response" /\ replied[n - 1].id = got[n].id
        BY <2>kept, <3>1 DEF Answered, Replies
      <4>2. QED
        BY <2>1, <3>1, <4>1 DEF Answered, Replies
    <3>2. CASE Open(n)
      <4>1. n = Len(got) /\ op = "answer"
        BY <2>1, <3>2 DEF Open
      <4>2. reply.code # "capability_denied"
        BY <4>1, <1>types, <1>here DEF Admits
      <4>3. Answered(Len(got))' /\ replied'[Len(got) - 1] = reply
        BY <2>3, <4>1
      <4>4. Len(got') = Len(got)
        BY <2>1
      <4>5. Answered(n)'
        BY <4>1, <4>3, <4>4 DEF Answered, Replies
      <4>6. QED
        BY <4>1, <4>2, <4>3, <4>5
    <3>3. QED
      BY <3>1, <3>2, <1>types, <1>here DEF EffectsAnswered
  <2>5. EffectsAnswered'
    <3>1. DOMAIN effects' = 1..Len(effects) /\ effects' = effects
      BY <2>1, <1>types
    <3>2. QED
      BY <2>4, <3>1, <1>types, <1>here DEF EffectsAnswered
  <2>6. QED
    BY <2>1, <2>5 DEF Admits
<1>4. QED
  BY <1>1, <1>2, <1>3, Talk

----------------------------------------------------------------------------
\* A session begins with nothing said.
LEMMA InitIInv == Init => IInv
<1> SUFFICES ASSUME Init PROVE IInv
  OBVIOUS
<1>1. /\ phase = "new" /\ op = "none" /\ at = "idle" /\ unit = <<>> /\ up = <<>> /\ sent = <<>>
      /\ got = <<>> /\ replied = <<>> /\ effects = <<>> /\ owes = FALSE /\ blocking = TRUE
  BY DEF Init
<1>2. ControlTypes
  <2>1. reply \in Frame
    BY DEF Init, Nothing, Frame
  <2>2. late \in BOOLEAN /\ blocking \in BOOLEAN
    BY Zenon DEF Init
  <2>3. QED
    BY <2>1, <2>2 DEF Init, ControlTypes, Phase, Op
<1>3. WireTypes
  <2>1. Len(<<>>) = 0 /\ <<>> \in Seq(Unit) /\ <<>> \in Seq(Messages)
    OBVIOUS
  <2>2. owes \in BOOLEAN /\ reading \in BOOLEAN
    BY Zenon DEF Init
  <2>3. QED
    BY <2>1, <2>2, PipeAssumption DEF Init, WireTypes
<1>4. PastTypes
  BY DEF Init, PastTypes
<1>5. Stream /\ Follows
  BY <1>1 DEF Stream, Follows, Wrote
<1>6. Exchanged /\ BlockingRestored
  BY <1>1 DEF Exchanged, Course, Places, BlockingRestored, Live
<1>7. History
  BY <1>1 DEF History, Greeting, InOrder, Acts, EffectsAnswered, Admits
<1>8. QED
  BY <1>2, <1>3, <1>4, <1>5, <1>6, <1>7, TypeParts DEF IInv

\* The invariant is inductive, whatever the plugin writes and however it cuts it, whether
\* it reads or closes its pipes, and whichever deadline passes.
THEOREM Invariance == Spec => []IInv
<1>1. IInv /\ [Next]_vars => IInv'
  <2> SUFFICES ASSUME IInv, [Next]_vars PROVE IInv'
    OBVIOUS
  <2>1. TypeOK'
    <3>1. (TypeOK <=> ControlTypes /\ WireTypes /\ PastTypes)'
      BY DEF TypeOK, ControlTypes, WireTypes, PastTypes
    <3>2. QED
      BY <3>1, ControlTypesStep, WireTypesStep, PastTypesStep
  <2>2. QED
    BY <2>1, StreamStep, CourseStep, PlacesStep, GreetingStep, InOrderStep, ActsStep,
       EffectsStep DEF IInv, Exchanged, History
<1>2. QED
  BY InitIInv, <1>1, PTL DEF Spec

\* What the parent decodes is what the plugin sent, from the first message on, and every
\* request is answered once, in order and under its own number; the last alone may be open.
THEOREM ParentKeepsInStep == Spec => []InStep
<1>1. IInv => InStep
  <2> SUFFICES ASSUME IInv PROVE InStep
    OBVIOUS
  <2>1. got \in Seq(Messages) /\ sent \in Seq(Messages) /\ Len(got) <= Len(sent)
    BY TypeParts DEF IInv, PastTypes, WireTypes, Follows
  <2>2. \A i \in 1..Len(got) : got[i] = sent[i]
    BY DEF IInv, Follows
  <2>3. IsPrefix(got, sent)
    BY <2>1, <2>2 DEF IsPrefix
  <2>4. QED
    BY <2>3 DEF InStep, IInv, History
<1>2. QED
  BY Invariance, <1>1, PTL

\* The broker acts on a request once, in order, within the grant and after the greeting, and
\* what it did it admits.
THEOREM BrokerKeepsToGrant == Spec => []WithinGrant
<1>1. IInv => WithinGrant
  <2> SUFFICES ASSUME IInv PROVE WithinGrant
    OBVIOUS
  <2>1. EffectsAnswered /\ Acts /\ Greeting
    BY DEF IInv, History
  <2>2. /\ effects \in Seq(Nat) /\ Len(got) \in Nat /\ Len(replied) \in Nat
        /\ DOMAIN effects = 1..Len(effects)
    BY TypeParts DEF IInv, PastTypes
  <2>3. effects # <<>> => Len(got) >= 3
    BY <2>1, <2>2 DEF Acts
  <2>4. QED
    BY <2>1, <2>2, <2>3 DEF WithinGrant, Acts, Greeting
<1>2. QED
  BY Invariance, <1>1, PTL

-----------------------------------------------------------------------------
(***************************************************************************)
(* The launch.                                                             *)
(***************************************************************************)

Values == Nat \union {Unlimited}

\* What the parent hands over is what it planned.
PlanKept == stage \notin {"new", "refused"} =>
                /\ Resolved(request, class)
                /\ Planned(Effective(request, class), request, perUser)
                /\ argv = OsLimits(Effective(request, class), perUser)

\* A limit below the plan and the inherited one that this process cannot raise.
Final(f) ==
    /\ ~privileged
    /\ Leq(soft[f], hard[f]) /\ Leq(hard[f], argv[f]) /\ Leq(hard[f], first[f])

\* What apply_limits has done so far.
Progress ==
    stage = "applying" =>
        /\ \A f \in Limited : f \in todo /\ f # probing => hard[f] = first[f]
        /\ \A f \in DOMAIN argv : f \notin todo => Final(f)
        /\ probing # NoField =>
              /\ hard[probing] \in Nat /\ soft[probing] = hard[probing]
              /\ Leq(hard[probing], argv[probing])
              /\ Leq(hard[probing], first[probing])

Before == stage \in {"new", "launcher"} => hard = first /\ probing = NoField /\ todo = {}

Handed == stage = "plugin" => \A f \in DOMAIN argv : Final(f)

LaunchInv == LaunchTypeOK /\ PlanKept /\ Progress /\ Before /\ Handed

----------------------------------------------------------------------------
(* Limits.                                                                  *)

\* The order of limits is transitive.
LEMMA LeqTransitive ==
    ASSUME NEW a \in Values, NEW b \in Values, NEW c \in Values, Leq(a, b), Leq(b, c)
    PROVE  Leq(a, c)
BY DEF Leq, Values, Unlimited

\* The lower of a number and a limit is a number below both.
LEMMA NarrowedIsLower ==
    ASSUME NEW a \in Nat, NEW b \in Values
    PROVE  /\ Narrowed(a, b) \in Nat
           /\ Leq(Narrowed(a, b), a) /\ Leq(Narrowed(a, b), b)
BY DEF Leq, Narrowed, Values, Unlimited

\* A number can be raised by one only by a privileged process.
LEMMA RaiseNeedsPrivilege ==
    ASSUME NEW h \in Nat
    PROVE  Leq(h, h + 1) /\ ~Leq(h + 1, h)
BY DEF Leq, Unlimited

----------------------------------------------------------------------------
(* The plan.                                                                *)

\* A resolved budget is a complete budget under the ceilings, and the
\* narrowest of what bounds it.
LEMMA EffectiveBudget ==
    ASSUME NEW q \in Request, NEW k, Resolved(q, k)
    PROVE  /\ Effective(q, k) \in Budget
           /\ \A f \in Field : /\ Effective(q, k)[f] <= Ceiling[f]
                               /\ Effective(q, k)[f] <= Catalog[Profile(k)][f]
                               /\ q[f] # None => Effective(q, k)[f] = q[f]
                               /\ q[f] = None => Effective(q, k)[f] = Catalog[Profile(k)][f]
<1> DEFINE base == Catalog[Profile(k)]
<1>1. PICK Known \in SUBSET Class : Catalog \in [Known -> Budget]
      BY CatalogAssumption
<1>2. Profile(k) \in DOMAIN Catalog /\ base \in Budget
      BY <1>1 DEF Resolved
<1>3. q \in [Field -> Nat \union {None}]
      BY RequestAssumption
<1>4. \A f \in Field : base[f] \in Nat \ {0} /\ base[f] <= Ceiling[f]
      BY <1>2, ProfileAssumption DEF Budget
<1>5. \A f \in Field : q[f] # None => q[f] \in 1..Ceiling[f] /\ q[f] <= base[f]
      BY RequestAssumption DEF Resolved
<1>6. \A f \in Field : Ceiling[f] \in Nat \ {0}
      BY BoundAssumption DEF Budget
<1>7. Effective(q, k) = [f \in Field |-> IF q[f] = None THEN base[f] ELSE q[f]]
      BY DEF Effective
<1> HIDE DEF base
<1>8. ASSUME NEW f \in Field
      PROVE  /\ Effective(q, k)[f] \in Nat \ {0}
             /\ Effective(q, k)[f] <= Ceiling[f] /\ Effective(q, k)[f] <= base[f]
             /\ q[f] # None => Effective(q, k)[f] = q[f]
             /\ q[f] = None => Effective(q, k)[f] = base[f]
  <2>1. CASE q[f] = None
        BY <2>1, <1>4, <1>6, <1>7
  <2>2. CASE q[f] # None
        BY <2>2, <1>4, <1>5, <1>6, <1>7
  <2> QED BY <2>1, <2>2
<1>9. Effective(q, k) \in Budget
      BY <1>7, <1>8 DEF Budget
<1> QED BY <1>8, <1>9 DEF base

\* What a plan puts in the argument vector.
LEMMA PlannedLimits ==
    ASSUME NEW q \in Request, NEW k, NEW user \in BOOLEAN,
           Resolved(q, k), Planned(Effective(q, k), q, user)
    PROVE  LET a == OsLimits(Effective(q, k), user)
           IN  /\ OsField \subseteq DOMAIN a /\ DOMAIN a \subseteq Limited
               /\ user => DOMAIN a = Limited
               /\ \A f \in DOMAIN a : /\ f \in Field
                                      /\ a[f] = Effective(q, k)[f]
                                      /\ a[f] \in Nat
                                      /\ a[f] \in Floor[f]..Ceiling[f]
<1> DEFINE e == Effective(q, k)
           a == OsLimits(e, user)
<1>1. e \in Budget /\ \A f \in Field : e[f] <= Ceiling[f]
      BY EffectiveBudget
<1>2. \A f \in Field : e[f] >= Floor[f]
      BY DEF Planned
<1>3. a = [f \in (IF user THEN Limited ELSE OsField) |-> e[f]]
      BY DEF OsLimits
<1> HIDE DEF e, a
<1>4. Limited \subseteq Field /\ OsField \subseteq Limited
      BY FieldAssumption DEF Limited
<1>5. DOMAIN a = IF user THEN Limited ELSE OsField
      BY <1>3
<1>6. \A f \in DOMAIN a : f \in Field /\ a[f] = e[f]
      BY <1>3, <1>4, <1>5
<1>7. \A f \in Field : /\ e[f] \in Nat /\ Ceiling[f] \in Nat /\ Floor[f] \in Nat
      BY <1>1, BoundAssumption DEF Budget
<1>8. ASSUME NEW f \in DOMAIN a PROVE a[f] \in Nat /\ a[f] \in Floor[f]..Ceiling[f]
  <2>1. f \in Field /\ a[f] = e[f]
        BY <1>6
  <2>2. e[f] \in Nat /\ Ceiling[f] \in Nat /\ Floor[f] \in Nat
        BY <1>7, <2>1
  <2>3. Floor[f] <= e[f] /\ e[f] <= Ceiling[f]
        BY <1>1, <1>2, <2>1, <2>2
  <2> QED BY <2>1, <2>2, <2>3
<1> QED BY <1>4, <1>5, <1>6, <1>8 DEF a, e

----------------------------------------------------------------------------
(* The inductive invariant.                                                 *)

\* It holds before the start.
LEMMA Base == LaunchInit => LaunchInv
<1> SUFFICES ASSUME LaunchInit PROVE LaunchInv
    OBVIOUS
<1>1. first \in [Limited -> Values]
      BY BoundAssumption DEF LaunchInit, Values
<1>2. LaunchTypeOK
      BY <1>1, FieldAssumption DEF LaunchInit, LaunchTypeOK, Values
<1> QED BY <1>2 DEF LaunchInit, LaunchInv, PlanKept, Progress, Before, Handed

\* Launching puts the plan in the argument vector.
LEMMA LaunchStep == ASSUME LaunchInv, Launch PROVE LaunchInv'
<1> DEFINE e == Effective(request, class)
<1>1. /\ request \in Request /\ perUser \in BOOLEAN /\ Resolved(request, class)
      /\ Planned(e, request, perUser) /\ argv' = OsLimits(e, perUser)
      BY DEF Launch, LaunchInv, LaunchTypeOK
<1>2. DOMAIN argv' \subseteq Limited /\ \A f \in DOMAIN argv' : argv'[f] \in Nat
      BY <1>1, PlannedLimits
<1>3. stage = "new" /\ stage' = "launcher" /\ UNCHANGED <<class, request, perUser, todo,
                  probing, soft, hard, first, privileged>>
      BY DEF Launch
<1>4. todo = {} /\ probing = NoField /\ hard = first
      BY <1>3 DEF LaunchInv, LaunchTypeOK, Before
<1>5. LaunchTypeOK'
      BY <1>2, <1>3, <1>4 DEF LaunchInv, LaunchTypeOK
<1>6. PlanKept'
      BY <1>1, <1>3 DEF PlanKept, Resolved, Planned, Effective, OsLimits, Profile
<1> QED BY <1>3, <1>4, <1>5, <1>6 DEF LaunchInv, Progress, Before, Handed

\* Applying one limit puts it under the plan and the inherited limit.
LEMMA ApplyStep == ASSUME LaunchInv, NEW f \in Limited, Apply(f) PROVE LaunchInv'
<1> DEFINE limit == Narrowed(argv[f], hard[f])
<1>1. /\ stage = "applying" /\ probing = NoField /\ f \in todo /\ probing' = f
      /\ soft' = [soft EXCEPT ![f] = limit] /\ hard' = [hard EXCEPT ![f] = limit]
      /\ UNCHANGED <<stage, class, request, perUser, argv, todo, first, privileged>>
      BY DEF Apply, Become
<1>2. /\ f \in DOMAIN argv /\ argv[f] \in Nat /\ hard[f] \in Values
      /\ hard \in [Limited -> Values] /\ soft \in [Limited -> Values]
      BY <1>1 DEF LaunchInv, LaunchTypeOK, Values
<1>3. limit \in Nat /\ Leq(limit, argv[f]) /\ Leq(limit, hard[f])
      BY <1>2, NarrowedIsLower
<1> HIDE DEF limit
<1>4. hard[f] = first[f]
      BY <1>1, FieldAssumption DEF LaunchInv, Progress, Limited
<1>5. f # NoField
      BY FieldAssumption DEF Limited
<1>6. hard' \in [Limited -> Values] /\ soft' \in [Limited -> Values]
      BY <1>1, <1>2, <1>3 DEF Values
<1>7. LaunchTypeOK'
      BY <1>1, <1>6 DEF LaunchInv, LaunchTypeOK, Values
<1>8. hard'[f] = limit /\ soft'[f] = limit
      BY <1>1, <1>2
<1>9. \A g \in Limited : g # f => hard'[g] = hard[g] /\ soft'[g] = soft[g]
      BY <1>1, <1>2
<1>10. DOMAIN argv \subseteq Limited
      BY DEF LaunchInv, LaunchTypeOK
<1>11. \A g \in DOMAIN argv : g \notin todo => Final(g)'
      BY <1>1, <1>9, <1>10 DEF LaunchInv, Progress, Final
<1>12. \A g \in Limited : g \in todo /\ g # f => hard'[g] = first[g]
      BY <1>1, <1>9, FieldAssumption DEF LaunchInv, Progress, Limited
<1>13. Progress'
      BY <1>1, <1>3, <1>4, <1>8, <1>11, <1>12 DEF Progress
<1>14. PlanKept'
      BY <1>1 DEF LaunchInv, PlanKept, Resolved, Planned, Effective, OsLimits, Profile
<1> QED BY <1>1, <1>7, <1>13, <1>14 DEF LaunchInv, Before, Handed

\* The probe lets only a limit pass that this process cannot raise.
LEMMA ProbeStep == ASSUME LaunchInv, Probe PROVE LaunchInv'
<1> DEFINE h == hard[probing]
<1>1. /\ stage = "applying" /\ probing # NoField
      /\ UNCHANGED <<class, request, perUser, argv, first, privileged>>
      BY DEF Probe
<1>2. /\ probing \in todo /\ probing \in DOMAIN argv /\ probing \in Limited
      /\ hard \in [Limited -> Values] /\ soft \in [Limited -> Values]
      BY <1>1 DEF LaunchInv, LaunchTypeOK, Values
<1>3. /\ h \in Nat /\ soft[probing] = h
      /\ Leq(h, argv[probing]) /\ Leq(h, first[probing])
      BY <1>1 DEF LaunchInv, Progress
<1>4. Leq(h, h + 1) /\ ~Leq(h + 1, h) /\ Leq(h, h)
      BY <1>3, RaiseNeedsPrivilege DEF Leq
<1>5. PlanKept'
  <2>1. stage' \in {"applying", "exit71"}
        BY <1>1 DEF Probe
  <2> QED BY <1>1, <2>1 DEF LaunchInv, PlanKept, Resolved, Planned, Effective, OsLimits, Profile
<1>6. CASE privileged
  <2>1. MayBecome(probing, h, h + 1)
        BY <1>4, <1>6 DEF MayBecome
  <2>2. /\ stage' = "exit71" /\ UNCHANGED <<todo, probing>>
        /\ \E n \in {h, h + 1} : Become(probing, h, n)
        BY <2>1 DEF Probe
  <2>3. hard' \in [Limited -> Values] /\ soft' \in [Limited -> Values]
    <3>1. PICK n \in {h, h + 1} : Become(probing, h, n)
          BY <2>2
    <3>2. n \in Values /\ h \in Values
          BY <1>3, <3>1 DEF Values
    <3> QED BY <1>2, <3>1, <3>2 DEF Become
  <2>4. LaunchTypeOK'
        BY <1>1, <2>2, <2>3 DEF LaunchInv, LaunchTypeOK, Values
  <2> QED BY <1>5, <2>2, <2>4 DEF LaunchInv, Progress, Before, Handed
<1>7. CASE ~privileged
  <2>1. ~MayBecome(probing, h, h + 1)
        BY <1>4, <1>7 DEF MayBecome
  <2>2. /\ todo' = todo \ {probing} /\ probing' = NoField
        /\ UNCHANGED <<stage, soft, hard>>
        BY <2>1 DEF Probe
  <2>3. Final(probing)
        BY <1>3, <1>4, <1>7 DEF Final
  <2>4. LaunchTypeOK'
        BY <1>1, <2>2 DEF LaunchInv, LaunchTypeOK
  <2>5. \A g \in DOMAIN argv : g \notin todo' => Final(g)
        BY <1>1, <2>2, <2>3 DEF LaunchInv, Progress
  <2>6. \A g \in DOMAIN argv : g \notin todo' => Final(g)'
        BY <1>1, <2>2, <2>5 DEF Final
  <2>7. \A g \in Limited : g \in todo' => hard'[g] = first'[g]
        BY <1>1, <2>2 DEF LaunchInv, Progress
  <2>8. Progress'
        BY <1>1, <2>2, <2>6, <2>7 DEF Progress
  <2> QED BY <1>1, <1>5, <2>2, <2>4, <2>8 DEF LaunchInv, Before, Handed
<1> QED BY <1>6, <1>7

\* A plugin that cannot raise a hard limit stays under it.
LEMMA PluginStep ==
    ASSUME LaunchInv, NEW f \in Limited, NEW s \in Values, NEW h \in Values,
           PluginSets(f, s, h)
    PROVE  LaunchInv'
<1>1. /\ stage = "plugin" /\ Leq(s, h) /\ (Leq(h, hard[f]) \/ privileged)
      /\ soft' = [soft EXCEPT ![f] = s] /\ hard' = [hard EXCEPT ![f] = h]
      /\ UNCHANGED <<stage, class, request, perUser, argv, todo, probing, first,
                     privileged>>
      BY DEF PluginSets, MayBecome, Become
<1>2. /\ hard \in [Limited -> Values] /\ soft \in [Limited -> Values]
      /\ first \in [Limited -> Values] /\ DOMAIN argv \subseteq Limited
      /\ \A g \in DOMAIN argv : argv[g] \in Values
      BY DEF LaunchInv, LaunchTypeOK, Values
<1>3. LaunchTypeOK'
  <2>1. hard' \in [Limited -> Values] /\ soft' \in [Limited -> Values]
        BY <1>1, <1>2
  <2> QED BY <1>1, <2>1 DEF LaunchInv, LaunchTypeOK, Values
<1>4. PlanKept'
      BY <1>1 DEF LaunchInv, PlanKept, Resolved, Planned, Effective, OsLimits, Profile
<1>5. ASSUME NEW g \in DOMAIN argv PROVE Final(g)'
  <2>1. Final(g) /\ g \in Limited
        BY <1>1, <1>2 DEF LaunchInv, Handed
  <2>2. CASE g = f
    <3>1. soft'[f] = s /\ hard'[f] = h
          BY <1>1, <1>2
    <3>2. Leq(h, hard[f]) /\ Leq(hard[f], argv[f]) /\ Leq(hard[f], first[f])
          BY <1>1, <2>1, <2>2 DEF Final
    <3>3. hard[f] \in Values /\ argv[f] \in Values /\ first[f] \in Values
          BY <1>2, <2>2
    <3>4. Leq(h, argv[f]) /\ Leq(h, first[f])
          BY <3>2, <3>3, LeqTransitive
    <3> QED BY <1>1, <2>1, <2>2, <3>1, <3>4 DEF Final
  <2>3. CASE g # f
    <3>1. soft'[g] = soft[g] /\ hard'[g] = hard[g]
          BY <1>1, <1>2, <2>1, <2>3
    <3> QED BY <1>1, <2>1, <3>1 DEF Final
  <2> QED BY <2>2, <2>3
<1> QED BY <1>1, <1>3, <1>4, <1>5 DEF LaunchInv, Progress, Before, Handed

\* The other steps change no limit.
LEMMA OtherStep ==
    ASSUME LaunchInv, Refuse \/ Parse \/ CannotApply \/ Exec \/ UNCHANGED launchVars
    PROVE  LaunchInv'
<1>1. UNCHANGED <<class, request, perUser, argv, probing, soft, hard, first, privileged>>
      BY DEF Refuse, Parse, CannotApply, Exec, launchVars
<1>2. \A f \in DOMAIN argv : Final(f)' <=> Final(f)
      BY <1>1 DEF Final
<1>3. CASE Refuse
      BY <1>1, <1>3 DEF Refuse, LaunchInv, LaunchTypeOK, PlanKept, Progress, Before, Handed
<1>4. CASE Parse
  <2>1. LaunchTypeOK' /\ Before' /\ Handed'
        BY <1>1, <1>4 DEF Parse, LaunchInv, LaunchTypeOK, Before, Handed
  <2>2. PlanKept'
        BY <1>1, <1>4 DEF Parse, LaunchInv, PlanKept, Resolved, Planned, Effective, OsLimits, Profile
  <2>3. Progress'
        BY <1>1, <1>4 DEF Parse, LaunchInv, LaunchTypeOK, Progress, Before
  <2> QED BY <2>1, <2>2, <2>3 DEF LaunchInv
<1>5. CASE CannotApply
  <2>1. PlanKept'
        BY <1>1, <1>5 DEF CannotApply, LaunchInv, PlanKept, Resolved, Planned, Effective,
                          OsLimits, Profile
  <2> QED BY <1>1, <1>5, <2>1 DEF CannotApply, LaunchInv, LaunchTypeOK, Progress, Before, Handed
<1>6. CASE Exec
  <2>1. PlanKept'
        BY <1>1, <1>6 DEF Exec, LaunchInv, PlanKept, Resolved, Planned, Effective, OsLimits, Profile
  <2>2. \A f \in DOMAIN argv : Final(f)
        BY <1>6 DEF Exec, LaunchInv, Progress
  <2> QED BY <1>1, <1>2, <1>6, <2>1, <2>2 DEF Exec, LaunchInv, LaunchTypeOK, Progress, Before, Handed
<1>7. CASE UNCHANGED launchVars
  <2>1. UNCHANGED <<stage, todo>>
        BY <1>7 DEF launchVars
  <2>2. PlanKept'
        BY <1>1, <2>1 DEF LaunchInv, PlanKept, Resolved, Planned, Effective, OsLimits, Profile
  <2> QED BY <1>1, <1>2, <2>1, <2>2 DEF LaunchInv, LaunchTypeOK, Progress, Before, Handed
<1> QED BY <1>3, <1>4, <1>5, <1>6, <1>7

\* Every behaviour of every policy keeps it.
THEOREM LaunchInvariance == LaunchSpec => []LaunchInv
<1>1. LaunchInv /\ [LaunchNext]_launchVars => LaunchInv'
  <2> SUFFICES ASSUME LaunchInv, [LaunchNext]_launchVars PROVE LaunchInv'
      OBVIOUS
  <2>1. CASE Launch
        BY <2>1, LaunchStep
  <2>2. CASE Probe
        BY <2>2, ProbeStep
  <2>3. CASE \E f \in Limited : Apply(f)
        BY <2>3, ApplyStep
  <2>4. CASE \E f \in Limited : \E s, h \in 0..Ceiling[f] \union {Unlimited} :
                PluginSets(f, s, h)
    <3>0. PICK f \in Limited : \E s, h \in 0..Ceiling[f] \union {Unlimited} :
                PluginSets(f, s, h)
          BY <2>4
    <3>1. PICK s \in 0..Ceiling[f] \union {Unlimited},
               h \in 0..Ceiling[f] \union {Unlimited} : PluginSets(f, s, h)
          BY <3>0
    <3>2. Ceiling[f] \in Nat
          BY FieldAssumption, BoundAssumption DEF Limited, Budget
    <3>3. s \in Values /\ h \in Values
          BY <3>2 DEF Values
    <3> QED BY <3>1, <3>3, PluginStep
  <2>5. CASE Refuse \/ Parse \/ CannotApply \/ Exec \/ UNCHANGED launchVars
        BY <2>5, OtherStep
  <2> QED BY <2>1, <2>2, <2>3, <2>4, <2>5 DEF LaunchNext
<1> QED BY Base, <1>1, PTL DEF LaunchSpec

----------------------------------------------------------------------------
(* The properties.                                                          *)

\* Every variable has its type.
THEOREM LaunchTypeCorrect == LaunchSpec => []LaunchTypeOK
<1>1. LaunchInv => LaunchTypeOK
      BY DEF LaunchInv
<1> QED BY <1>1, LaunchInvariance, PTL

\* Once apply_limits has let it pass, a plugin stays under its planned and its
\* inherited limits whatever it asks the kernel for.
THEOREM PluginIsConfined == LaunchSpec => []PluginConfined
<1>1. LaunchInv => PluginConfined
      BY DEF LaunchInv, Handed, Final, PluginConfined
<1> QED BY <1>1, LaunchInvariance, PTL

\* resolve_resource_budget and plan_enforcement: what is enforced is the lowest
\* of what was asked for, the profile and the ceiling.
THEOREM NarrowestIsEnforced == LaunchSpec => []NarrowestEnforced
<1>1. LaunchInv => NarrowestEnforced
  <2> SUFFICES ASSUME LaunchInv, stage \notin {"new", "refused"} PROVE NarrowestEnforced
      BY DEF NarrowestEnforced
  <2> DEFINE base == Catalog[Profile(class)]
             e == Effective(request, class)
  <2>1. /\ request \in Request /\ perUser \in BOOLEAN /\ Resolved(request, class)
        /\ Planned(e, request, perUser) /\ argv = OsLimits(e, perUser)
        BY DEF LaunchInv, LaunchTypeOK, PlanKept
  <2>2. /\ OsField \subseteq DOMAIN argv /\ DOMAIN argv \subseteq Limited
        /\ perUser => DOMAIN argv = Limited
        /\ \A f \in DOMAIN argv : f \in Field /\ argv[f] = e[f]
        BY <2>1, PlannedLimits
  <2>3. perUser \/ request[Processes] # None => Processes \in DOMAIN argv
        BY <2>1, <2>2 DEF Planned, Limited
  <2>4. ASSUME NEW f \in DOMAIN argv
        PROVE  LET bounds == {Ceiling[f], base[f]} \union ({request[f]} \ {None})
               IN  argv[f] \in bounds /\ \A b \in bounds : argv[f] <= b
    <3>1. /\ f \in Field /\ argv[f] = e[f]
          /\ e \in Budget /\ e[f] <= Ceiling[f] /\ e[f] <= base[f]
          /\ request[f] # None => e[f] = request[f]
          /\ request[f] = None => e[f] = base[f]
          BY <2>1, <2>2, EffectiveBudget
    <3>2. argv[f] \in Nat
          BY <3>1 DEF Budget
    <3> HIDE DEF base, e
    <3> QED BY <3>1, <3>2
  <2> QED BY <2>2, <2>3, <2>4 DEF NarrowestEnforced
<1> QED BY <1>1, LaunchInvariance, PTL

\* parse_launcher_argv rejects nothing that plan_enforcement has accepted.
THEOREM LauncherAccepts == LaunchSpec => []LauncherAgrees
<1> DEFINE J == LaunchInv /\ LauncherAgrees
<1>1. LaunchInit => J
      BY Base DEF LaunchInit, LauncherAgrees
<1>2. J /\ LaunchInv' /\ [LaunchNext]_launchVars => J'
  <2> SUFFICES ASSUME J, LaunchInv', [LaunchNext]_launchVars PROVE stage' # "exit78"
      BY DEF LauncherAgrees
  <2>1. CASE Parse
    <3>1. stage = "launcher"
          BY <2>1 DEF Parse
    <3>2. /\ request \in Request /\ perUser \in BOOLEAN /\ Resolved(request, class)
          /\ Planned(Effective(request, class), request, perUser)
          /\ argv = OsLimits(Effective(request, class), perUser)
          BY <3>1 DEF LaunchInv, LaunchTypeOK, PlanKept
    <3>3. Accepted
          BY <3>2, PlannedLimits DEF Accepted
    <3> QED BY <2>1, <3>3 DEF Parse
  <2>2. CASE ~Parse
        BY <2>2 DEF LaunchNext, launchVars, LauncherAgrees, Refuse, Launch, Probe, CannotApply, Exec,
                    Apply, PluginSets
  <2> QED BY <2>1, <2>2
<1>3. J => LauncherAgrees
      BY ZenonT(60)
<1> QED BY <1>1, <1>2, <1>3, LaunchInvariance, PTL DEF LaunchSpec

(***************************************************************************)
(* The runtime.  One formula per runtime, Good(r), in six parts that       *)
(* follow the threads' labels.  Each part has a lemma that takes it over   *)
(* the steps of its own runtime, action by action; OthersStep says that    *)
(* the other runtimes see nothing of that step.  All of it assumes that    *)
(* the event sink does not raise (~SinkMayRaise).                          *)
(***************************************************************************)
InTerm(r, t)  == pc[r][t] \in TermLabels
InFinal(r, t) == pc[r][t] \in FinalLabels

\* The thread is inside _finalize and holds _finalize_lock.
Finishing(r, t) ==
    \/ pc[r][t] \in {"clean", "settle"}
    \/ InTerm(r, t) /\ termBack[r][t] = "clean"

\* Which labels and return labels each thread can have.
Labels(r) ==
    /\ pc[r]["caller"] \in CallerLabels \union TermLabels \union FinalLabels
    /\ pc[r]["watchdog"] \in WatchdogLabels \union TermLabels \union FinalLabels
    /\ termBack[r]["caller"] \in {"clean", "cancel"}
    /\ termBack[r]["watchdog"] \in {"clean", "idleCheck"}
    /\ finBack[r]["caller"] \in {"leave", "idle", "goodbye"}
    /\ InFinal(r, "watchdog") \/ Finishing(r, "watchdog")
         => finBack[r]["watchdog"] = "ended"

\* _busy counts the operation the caller is in.
Busy(r) ==
    /\ pc[r]["caller"] \in {"idle", "enter", "bye"} => busy[r] = 0
    /\ pc[r]["caller"] \in CallerLabels \ {"idle", "enter", "bye"} => busy[r] = 1
    /\ InTerm(r, "caller") \/ InFinal(r, "caller")
         => busy[r] = (IF finBack[r]["caller"] = "idle" THEN 0 ELSE 1)

\* How far the runtime has come: what the state says of permit and threads.
Stages(r) ==
    /\ state[r] = "new" =>
         /\ pc[r]["caller"] \in {"idle", "spawn", "except", "fail"}
                                \union TermLabels \union FinalLabels
         /\ pc[r]["watchdog"] = "absent"
         /\ ~finalized[r] /\ ~closing[r]
         /\ violation[r] = "none"
    /\ state[r] = "new" /\ pc[r]["caller"] = "idle" => ~permit[r]
    /\ pc[r]["caller"] = "spawn" => state[r] = "new"
    /\ pc[r]["caller"] \in {"spawn", "hello", "ready"} =>
         /\ permit[r] /\ ~finalized[r] /\ ~closing[r]
         /\ ~InFinal(r, "watchdog") /\ ~Finishing(r, "watchdog")
    /\ finalized[r] => state[r] \in {"stopped", "failed"} /\ ~permit[r]
    /\ permit[r] \/ finalized[r] \/
         /\ pc[r]["caller"] = "idle" /\ pc[r]["watchdog"] = "absent"
         /\ state[r] \in {"new", "stopped"}
         /\ ~closing[r] /\ violation[r] = "none"

\* Who may finalize, and with which outcome.
Claims(r) ==
    /\ \A t \in Thread : Finishing(r, t) => permit[r] /\ ~finalized[r]
    /\ ~(Finishing(r, "caller") /\ Finishing(r, "watchdog"))
    /\ ~(closing[r] /\ violation[r] # "none")
    /\ closing[r] =>
         /\ pc[r]["caller"] \in {"bye", "ack", "wait", "goodbye", "leave", "idle"}
                                \union TermLabels \union FinalLabels
         /\ pc[r]["caller"] \in {"goodbye", "leave", "idle"} => finalized[r]
         /\ InTerm(r, "caller") \/ InFinal(r, "caller")
              => final[r]["caller"] = "stopped" /\ finBack[r]["caller"] = "goodbye"
    /\ ~closing[r] =>
         /\ pc[r]["caller"] \notin {"bye", "ack", "wait", "goodbye"}
         /\ InTerm(r, "caller") \/ InFinal(r, "caller")
              => final[r]["caller"] = "failed" /\ finBack[r]["caller"] # "goodbye"
    /\ pc[r]["watchdog"] \in {"report", "idleCheck"} \union TermLabels \union FinalLabels
         => violation[r] # "none"
    /\ InFinal(r, "watchdog") \/ Finishing(r, "watchdog")
         => final[r]["watchdog"] = "failed"

\* What was reported, and how the runtime ended.
Outcome(r) ==
    /\ pc[r]["caller"] = "oversize" => violation[r] # "none"
    /\ "RESOURCE" \in reported[r] => violation[r] # "none"
    /\ "STOPPED" \in reported[r] => closing[r]
    /\ finalized[r] => state[r] = (IF closing[r] THEN "stopped" ELSE "failed")
    /\ violation[r] # "none" /\ pc[r]["caller"] = "idle" =>
         \/ finalized[r]
         \/ pc[r]["watchdog"] \in {"report", "idleCheck"} \union TermLabels
                                  \union FinalLabels

\* Where the child and its group are when the threads are past terminating it.
Containment(r) ==
    /\ pc[r]["caller"] = "spawn" => leader[r] = "none" /\ ~groupReleased[r]
    /\ state[r] = "new" => leader[r] = "none" /\ ~groupReleased[r]
    /\ state[r] \in {"handshaking", "running"} \/ closing[r] => leader[r] # "none"
    /\ pc[r]["caller"] \in {"hello", "ready"} => leader[r] # "none"
    /\ \A t \in Thread : pc[r][t] \in {"grace", "kill", "last"} => leader[r] # "none"
    /\ leader[r] = "none" => pc[r]["watchdog"] = "absent" /\ ~kin[r]
    /\ groupReleased[r] =>
         /\ leader[r] \in {"zombie", "reaped"}
         /\ kin[r] => closing[r] /\ exit0[r]
    /\ \A t \in Thread : pc[r][t] = "last" =>
         leader[r] \in {"zombie", "reaped"} /\ ~kin[r]
    /\ \A t \in Thread : pc[r][t] \in {"clean", "settle"} =>
         leader[r] = "none" \/ groupReleased[r]
    /\ \A t \in Thread : pc[r][t] = "settle" => handles[r] = {}
    /\ finalized[r] =>
         /\ leader[r] = "none" \/ groupReleased[r]
         /\ handles[r] = {}
    /\ finalized[r] \/ Finishing(r, "caller") =>
         pc[r]["watchdog"] \in {"absent", "ended"}

Good(r) == Labels(r) /\ Busy(r) /\ Stages(r) /\ Claims(r) /\ Outcome(r) /\ Containment(r)

RuntimeInv == RuntimeTypeOK /\ PermitsBalance /\ \A r \in Runtime : Good(r)

\* A step of one runtime: its child, its caller or its watchdog.
Move(r) == Child(r) \/ Operation(r) \/ Caller(r) \/ Watchdog(r)

\* A step of a runtime preserves which labels its threads can be at (Labels).
LEMMA LabelsStep ==
    ASSUME RuntimeTypeOK, ~SinkMayRaise, NEW r \in Runtime, Good(r), Move(r)
    PROVE  Labels(r)'
<1> USE DEF Good, RuntimeTypeOK, FieldTypes, ThreadTypes, InTerm, InFinal, Finishing, Labels,
     CallerLabels, WatchdogLabels, TermLabels, FinalLabels, Thread
<1>1. CASE ChildExits(r)
  BY <1>1 DEF ChildExits, At, Goto, fields, permits, os, back, history
<1>2. CASE ChildForks(r)
  BY <1>2 DEF ChildForks, At, Goto, fields, permits, os, back, history
<1>3. CASE DescendantsExit(r)
  BY <1>3 DEF DescendantsExit, At, Goto, fields, permits, os, back, history
<1>4. CASE Recycle(r)
  BY <1>4 DEF Recycle, At, Goto, fields, permits, os, back, history
<1>5. CASE Start(r)
  BY <1>5 DEF Start, At, Goto, fields, permits, os, back, history
<1>6. CASE ServeOnce(r)
  BY <1>6 DEF ServeOnce, At, Goto, fields, permits, os, back, history
<1>7. CASE ShutdownUnstarted(r)
  BY <1>7 DEF ShutdownUnstarted, At, Goto, fields, permits, os, back, history
<1>8. CASE Shutdown(r)
  BY <1>8 DEF Shutdown, At, Goto, Finalizing, fields, permits, os, back, history
<1>9. CASE Spawn(r)
  BY <1>9 DEF Spawn, At, Goto, AfterEmit, fields, permits, os, back, history
<1>10. CASE SpawnFails(r)
  BY <1>10 DEF SpawnFails, At, Goto, fields, permits, os, back, history
<1>11. CASE Hello(r)
  BY <1>11 DEF Hello, At, Goto, AfterEmit, fields, permits, os, back, history
<1>12. CASE Ready(r)
  BY <1>12 DEF Ready, At, Goto, AfterEmit, fields, permits, os, back, history
<1>13. CASE Enter(r)
  BY <1>13 DEF Enter, At, Goto, fields, permits, os, back, history
<1>14. CASE Served(r)
  BY <1>14 DEF Served, At, Goto, fields, permits, os, back, history
<1>15. CASE ExchangeFails(r)
  BY <1>15 DEF ExchangeFails, At, Goto, Exchanging, Handler, fields, permits, os,
       back, history
<1>16. CASE FrameTooLarge(r)
  BY <1>16 DEF FrameTooLarge, At, Goto, Exchanging, Handler, Claimable, fields,
       permits, os, back, history
<1>17. CASE ReportOversize(r)
  BY <1>17 DEF ReportOversize, At, Goto, Handler, Report, fields, permits, os, back,
       history
<1>18. CASE Interrupted(r)
  BY <1>18 DEF Interrupted, At, Goto, Exchanging, Finalizing, fields, permits, os,
       back, history
<1>19. CASE Except(r)
  BY <1>19 DEF Except, At, Goto, Reap, fields, permits, os, back, history
<1>20. CASE Fail(r)
  BY <1>20 DEF Fail, At, Goto, Report, Finalizing, fields, permits, os, back, history
<1>21. CASE Leave(r)
  BY <1>21 DEF Leave, At, Goto, Finalizing, fields, permits, os, back, history
<1>22. CASE SayBye(r)
  BY <1>22 DEF SayBye, At, Goto, fields, permits, os, back, history
<1>23. CASE Acknowledged(r)
  BY <1>23 DEF Acknowledged, At, Goto, fields, permits, os, back, history
<1>24. CASE Graceful(r)
  BY <1>24 DEF Graceful, At, Goto, TermLockFree, Reap, Finalizing, fields, permits,
       os, back, history
<1>25. CASE WrongStatus(r)
  BY <1>25 DEF WrongStatus, At, Goto, Reap, ForceStop, Terminating, fields, permits,
       os, back, history
<1>26. CASE ShutdownFails(r)
  BY <1>26 DEF ShutdownFails, At, Goto, Report, ForceStop, Terminating, fields,
       permits, os, back, history
<1>27. CASE Goodbye(r)
  BY <1>27 DEF Goodbye, At, Goto, Report, fields, permits, os, back, history
<1>28. CASE WatchEnds(r)
  BY <1>28 DEF WatchEnds, At, Goto, fields, permits, os, back, history
<1>29. CASE Gate(r)
  BY <1>29 DEF Gate, At, Goto, fields, permits, os, back, history
<1>30. CASE Poll(r)
  BY <1>30 DEF Poll, At, Goto, Reap, fields, permits, os, back, history
<1>31. CASE ClaimWallClock(r)
  BY <1>31 DEF ClaimWallClock, At, Goto, Claimable, fields, permits, os, back, history
<1>32. CASE ReportWallClock(r)
  BY <1>32 DEF ReportWallClock, At, Goto, Report, Terminating, fields, permits, os,
       back, history
<1>33. CASE IdleCheck(r)
  BY <1>33 DEF IdleCheck, At, Goto, Finalizing, fields, permits, os, back, history
<1>34. ASSUME NEW t \in Thread, Terminate(r, t) PROVE Labels(r)'
  BY <1>34 DEF Terminate, At, Goto, TermLockFree, Signal, Thread, fields, permits, os,
       back, history
<1>35. ASSUME NEW t \in Thread, Grace(r, t) PROVE Labels(r)'
  BY <1>35 DEF Grace, At, Goto, Reap, Thread, fields, permits, os, back, history
<1>36. ASSUME NEW t \in Thread, Kill(r, t) PROVE Labels(r)'
  BY <1>36 DEF Kill, At, Goto, Signal, Thread, fields, permits, os, back, history
<1>37. ASSUME NEW t \in Thread, LastWait(r, t) PROVE Labels(r)'
  BY <1>37, SMTT(40) DEF LastWait, At, Goto, Reap, Thread, fields, permits, os, back, history
<1>38. ASSUME NEW t \in Thread, Cancel(r, t) PROVE Labels(r)'
  BY <1>38 DEF Cancel, At, Goto, Thread, fields, permits, os, back, history
<1>39. ASSUME NEW t \in Thread, Join(r, t) PROVE Labels(r)'
  BY <1>39 DEF Join, At, Goto, Joined, FinalizeLockFree, Terminating, Thread, fields,
       permits, os, back, history
<1>40. ASSUME NEW t \in Thread, Clean(r, t) PROVE Labels(r)'
  BY <1>40 DEF Clean, At, Goto, Thread, fields, permits, os, back, history
<1>41. ASSUME NEW t \in Thread, Settle(r, t) PROVE Labels(r)'
  BY <1>41, SMTT(40) DEF Settle, At, Goto, Thread, fields, permits, os, back, history
<1>42. QED
  BY <1>1, <1>2, <1>3, <1>4, <1>5, <1>6, <1>7, <1>8, <1>9, <1>10, <1>11, <1>12, <1>13,
       <1>14, <1>15, <1>16, <1>17, <1>18, <1>19, <1>20, <1>21, <1>22, <1>23, <1>24,
       <1>25, <1>26, <1>27, <1>28, <1>29, <1>30, <1>31, <1>32, <1>33, <1>34, <1>35,
       <1>36, <1>37, <1>38, <1>39, <1>40, <1>41 DEF Move, Child, Operation, Caller,
       Watchdog, Shared, Thread

\* A step of a runtime preserves what _busy counts (Busy).
LEMMA BusyStep ==
    ASSUME RuntimeTypeOK, ~SinkMayRaise, NEW r \in Runtime, Good(r), Move(r)
    PROVE  Busy(r)'
<1> USE DEF Good, RuntimeTypeOK, FieldTypes, ThreadTypes, InTerm, InFinal, Finishing, Labels,
     Busy, CallerLabels, WatchdogLabels, TermLabels, FinalLabels, Thread
<1>1. CASE ChildExits(r)
  BY <1>1 DEF ChildExits, At, Goto, fields, permits, os, back, history
<1>2. CASE ChildForks(r)
  BY <1>2 DEF ChildForks, At, Goto, fields, permits, os, back, history
<1>3. CASE DescendantsExit(r)
  BY <1>3 DEF DescendantsExit, At, Goto, fields, permits, os, back, history
<1>4. CASE Recycle(r)
  BY <1>4 DEF Recycle, At, Goto, fields, permits, os, back, history
<1>5. CASE Start(r)
  BY <1>5 DEF Start, At, Goto, fields, permits, os, back, history
<1>6. CASE ServeOnce(r)
  BY <1>6 DEF ServeOnce, At, Goto, fields, permits, os, back, history
<1>7. CASE ShutdownUnstarted(r)
  BY <1>7 DEF ShutdownUnstarted, At, Goto, fields, permits, os, back, history
<1>8. CASE Shutdown(r)
  BY <1>8 DEF Shutdown, At, Goto, Finalizing, fields, permits, os, back, history
<1>9. CASE Spawn(r)
  BY <1>9 DEF Spawn, At, Goto, AfterEmit, fields, permits, os, back, history
<1>10. CASE SpawnFails(r)
  BY <1>10 DEF SpawnFails, At, Goto, fields, permits, os, back, history
<1>11. CASE Hello(r)
  BY <1>11 DEF Hello, At, Goto, AfterEmit, fields, permits, os, back, history
<1>12. CASE Ready(r)
  BY <1>12 DEF Ready, At, Goto, AfterEmit, fields, permits, os, back, history
<1>13. CASE Enter(r)
  BY <1>13 DEF Enter, At, Goto, fields, permits, os, back, history
<1>14. CASE Served(r)
  BY <1>14 DEF Served, At, Goto, fields, permits, os, back, history
<1>15. CASE ExchangeFails(r)
  BY <1>15 DEF ExchangeFails, At, Goto, Exchanging, Handler, fields, permits, os,
       back, history
<1>16. CASE FrameTooLarge(r)
  BY <1>16 DEF FrameTooLarge, At, Goto, Exchanging, Handler, Claimable, fields,
       permits, os, back, history
<1>17. CASE ReportOversize(r)
  BY <1>17 DEF ReportOversize, At, Goto, Handler, Report, fields, permits, os, back,
       history
<1>18. CASE Interrupted(r)
  BY <1>18 DEF Interrupted, At, Goto, Exchanging, Finalizing, fields, permits, os,
       back, history
<1>19. CASE Except(r)
  BY <1>19 DEF Except, At, Goto, Reap, fields, permits, os, back, history
<1>20. CASE Fail(r)
  BY <1>20 DEF Fail, At, Goto, Report, Finalizing, fields, permits, os, back, history
<1>21. CASE Leave(r)
  BY <1>21 DEF Leave, At, Goto, Finalizing, fields, permits, os, back, history
<1>22. CASE SayBye(r)
  BY <1>22 DEF SayBye, At, Goto, fields, permits, os, back, history
<1>23. CASE Acknowledged(r)
  BY <1>23 DEF Acknowledged, At, Goto, fields, permits, os, back, history
<1>24. CASE Graceful(r)
  BY <1>24 DEF Graceful, At, Goto, TermLockFree, Reap, Finalizing, fields, permits,
       os, back, history
<1>25. CASE WrongStatus(r)
  BY <1>25 DEF WrongStatus, At, Goto, Reap, ForceStop, Terminating, fields, permits,
       os, back, history
<1>26. CASE ShutdownFails(r)
  BY <1>26 DEF ShutdownFails, At, Goto, Report, ForceStop, Terminating, fields,
       permits, os, back, history
<1>27. CASE Goodbye(r)
  BY <1>27 DEF Goodbye, At, Goto, Report, fields, permits, os, back, history
<1>28. CASE WatchEnds(r)
  BY <1>28 DEF WatchEnds, At, Goto, fields, permits, os, back, history
<1>29. CASE Gate(r)
  BY <1>29 DEF Gate, At, Goto, fields, permits, os, back, history
<1>30. CASE Poll(r)
  BY <1>30 DEF Poll, At, Goto, Reap, fields, permits, os, back, history
<1>31. CASE ClaimWallClock(r)
  BY <1>31 DEF ClaimWallClock, At, Goto, Claimable, fields, permits, os, back, history
<1>32. CASE ReportWallClock(r)
  BY <1>32 DEF ReportWallClock, At, Goto, Report, Terminating, fields, permits, os,
       back, history
<1>33. CASE IdleCheck(r)
  BY <1>33 DEF IdleCheck, At, Goto, Finalizing, fields, permits, os, back, history
<1>34. ASSUME NEW t \in Thread, Terminate(r, t) PROVE Busy(r)'
  BY <1>34 DEF Terminate, At, Goto, TermLockFree, Signal, Thread, fields, permits, os,
       back, history
<1>35. ASSUME NEW t \in Thread, Grace(r, t) PROVE Busy(r)'
  BY <1>35 DEF Grace, At, Goto, Reap, Thread, fields, permits, os, back, history
<1>36. ASSUME NEW t \in Thread, Kill(r, t) PROVE Busy(r)'
  BY <1>36 DEF Kill, At, Goto, Signal, Thread, fields, permits, os, back, history
<1>37. ASSUME NEW t \in Thread, LastWait(r, t) PROVE Busy(r)'
  BY <1>37, SMTT(40) DEF LastWait, At, Goto, Reap, Thread, fields, permits, os, back, history
<1>38. ASSUME NEW t \in Thread, Cancel(r, t) PROVE Busy(r)'
  BY <1>38 DEF Cancel, At, Goto, Thread, fields, permits, os, back, history
<1>39. ASSUME NEW t \in Thread, Join(r, t) PROVE Busy(r)'
  BY <1>39 DEF Join, At, Goto, Joined, FinalizeLockFree, Terminating, Thread, fields,
       permits, os, back, history
<1>40. ASSUME NEW t \in Thread, Clean(r, t) PROVE Busy(r)'
  BY <1>40 DEF Clean, At, Goto, Thread, fields, permits, os, back, history
<1>41. ASSUME NEW t \in Thread, Settle(r, t) PROVE Busy(r)'
  BY <1>41, SMTT(40) DEF Settle, At, Goto, Thread, fields, permits, os, back, history
<1>42. QED
  BY <1>1, <1>2, <1>3, <1>4, <1>5, <1>6, <1>7, <1>8, <1>9, <1>10, <1>11, <1>12, <1>13,
       <1>14, <1>15, <1>16, <1>17, <1>18, <1>19, <1>20, <1>21, <1>22, <1>23, <1>24,
       <1>25, <1>26, <1>27, <1>28, <1>29, <1>30, <1>31, <1>32, <1>33, <1>34, <1>35,
       <1>36, <1>37, <1>38, <1>39, <1>40, <1>41 DEF Move, Child, Operation, Caller,
       Watchdog, Shared, Thread

\* A step of a runtime preserves how far it has come (Stages).
LEMMA StagesStep ==
    ASSUME RuntimeTypeOK, ~SinkMayRaise, NEW r \in Runtime, Good(r), Move(r)
    PROVE  Stages(r)'
<1> USE DEF Good, RuntimeTypeOK, FieldTypes, ThreadTypes, InTerm, InFinal, Finishing, Labels,
     Busy, Stages, Claims, CallerLabels, WatchdogLabels, TermLabels, FinalLabels, Thread
<1>1. CASE ChildExits(r)
  BY <1>1 DEF ChildExits, At, Goto, fields, permits, os, back, history
<1>2. CASE ChildForks(r)
  BY <1>2 DEF ChildForks, At, Goto, fields, permits, os, back, history
<1>3. CASE DescendantsExit(r)
  BY <1>3 DEF DescendantsExit, At, Goto, fields, permits, os, back, history
<1>4. CASE Recycle(r)
  BY <1>4 DEF Recycle, At, Goto, fields, permits, os, back, history
<1>5. CASE Start(r)
  BY <1>5 DEF Start, At, Goto, fields, permits, os, back, history
<1>6. CASE ServeOnce(r)
  BY <1>6 DEF ServeOnce, At, Goto, fields, permits, os, back, history
<1>7. CASE ShutdownUnstarted(r)
  BY <1>7 DEF ShutdownUnstarted, At, Goto, fields, permits, os, back, history
<1>8. CASE Shutdown(r)
  BY <1>8 DEF Shutdown, At, Goto, Finalizing, fields, permits, os, back, history
<1>9. CASE Spawn(r)
  BY <1>9 DEF Spawn, At, Goto, AfterEmit, fields, permits, os, back, history
<1>10. CASE SpawnFails(r)
  BY <1>10 DEF SpawnFails, At, Goto, fields, permits, os, back, history
<1>11. CASE Hello(r)
  BY <1>11 DEF Hello, At, Goto, AfterEmit, fields, permits, os, back, history
<1>12. CASE Ready(r)
  BY <1>12 DEF Ready, At, Goto, AfterEmit, fields, permits, os, back, history
<1>13. CASE Enter(r)
  BY <1>13 DEF Enter, At, Goto, fields, permits, os, back, history
<1>14. CASE Served(r)
  BY <1>14 DEF Served, At, Goto, fields, permits, os, back, history
<1>15. CASE ExchangeFails(r)
  BY <1>15 DEF ExchangeFails, At, Goto, Exchanging, Handler, fields, permits, os,
       back, history
<1>16. CASE FrameTooLarge(r)
  BY <1>16 DEF FrameTooLarge, At, Goto, Exchanging, Handler, Claimable, fields,
       permits, os, back, history
<1>17. CASE ReportOversize(r)
  BY <1>17 DEF ReportOversize, At, Goto, Handler, Report, fields, permits, os, back,
       history
<1>18. CASE Interrupted(r)
  BY <1>18 DEF Interrupted, At, Goto, Exchanging, Finalizing, fields, permits, os,
       back, history
<1>19. CASE Except(r)
  BY <1>19 DEF Except, At, Goto, Reap, fields, permits, os, back, history
<1>20. CASE Fail(r)
  BY <1>20 DEF Fail, At, Goto, Report, Finalizing, fields, permits, os, back, history
<1>21. CASE Leave(r)
  BY <1>21 DEF Leave, At, Goto, Finalizing, fields, permits, os, back, history
<1>22. CASE SayBye(r)
  BY <1>22 DEF SayBye, At, Goto, fields, permits, os, back, history
<1>23. CASE Acknowledged(r)
  BY <1>23 DEF Acknowledged, At, Goto, fields, permits, os, back, history
<1>24. CASE Graceful(r)
  BY <1>24 DEF Graceful, At, Goto, TermLockFree, Reap, Finalizing, fields, permits,
       os, back, history
<1>25. CASE WrongStatus(r)
  BY <1>25 DEF WrongStatus, At, Goto, Reap, ForceStop, Terminating, fields, permits,
       os, back, history
<1>26. CASE ShutdownFails(r)
  BY <1>26 DEF ShutdownFails, At, Goto, Report, ForceStop, Terminating, fields,
       permits, os, back, history
<1>27. CASE Goodbye(r)
  BY <1>27 DEF Goodbye, At, Goto, Report, fields, permits, os, back, history
<1>28. CASE WatchEnds(r)
  BY <1>28 DEF WatchEnds, At, Goto, fields, permits, os, back, history
<1>29. CASE Gate(r)
  BY <1>29 DEF Gate, At, Goto, fields, permits, os, back, history
<1>30. CASE Poll(r)
  BY <1>30 DEF Poll, At, Goto, Reap, fields, permits, os, back, history
<1>31. CASE ClaimWallClock(r)
  BY <1>31 DEF ClaimWallClock, At, Goto, Claimable, fields, permits, os, back, history
<1>32. CASE ReportWallClock(r)
  BY <1>32 DEF ReportWallClock, At, Goto, Report, Terminating, fields, permits, os,
       back, history
<1>33. CASE IdleCheck(r)
  BY <1>33 DEF IdleCheck, At, Goto, Finalizing, fields, permits, os, back, history
<1>34. ASSUME NEW t \in Thread, Terminate(r, t) PROVE Stages(r)'
  BY <1>34 DEF Terminate, At, Goto, TermLockFree, Signal, Thread, fields, permits, os,
       back, history
<1>35. ASSUME NEW t \in Thread, Grace(r, t) PROVE Stages(r)'
  BY <1>35 DEF Grace, At, Goto, Reap, Thread, fields, permits, os, back, history
<1>36. ASSUME NEW t \in Thread, Kill(r, t) PROVE Stages(r)'
  BY <1>36 DEF Kill, At, Goto, Signal, Thread, fields, permits, os, back, history
<1>37. ASSUME NEW t \in Thread, LastWait(r, t) PROVE Stages(r)'
  BY <1>37, SMTT(40) DEF LastWait, At, Goto, Reap, Thread, fields, permits, os, back, history
<1>38. ASSUME NEW t \in Thread, Cancel(r, t) PROVE Stages(r)'
  BY <1>38 DEF Cancel, At, Goto, Thread, fields, permits, os, back, history
<1>39. ASSUME NEW t \in Thread, Join(r, t) PROVE Stages(r)'
  BY <1>39 DEF Join, At, Goto, Joined, FinalizeLockFree, Terminating, Thread, fields,
       permits, os, back, history
<1>40. ASSUME NEW t \in Thread, Clean(r, t) PROVE Stages(r)'
  BY <1>40 DEF Clean, At, Goto, Thread, fields, permits, os, back, history
<1>41. ASSUME NEW t \in Thread, Settle(r, t) PROVE Stages(r)'
  BY <1>41, SMTT(40) DEF Settle, At, Goto, Thread, fields, permits, os, back, history
<1>42. QED
  BY <1>1, <1>2, <1>3, <1>4, <1>5, <1>6, <1>7, <1>8, <1>9, <1>10, <1>11, <1>12, <1>13,
       <1>14, <1>15, <1>16, <1>17, <1>18, <1>19, <1>20, <1>21, <1>22, <1>23, <1>24,
       <1>25, <1>26, <1>27, <1>28, <1>29, <1>30, <1>31, <1>32, <1>33, <1>34, <1>35,
       <1>36, <1>37, <1>38, <1>39, <1>40, <1>41 DEF Move, Child, Operation, Caller,
       Watchdog, Shared, Thread

\* A step of a runtime preserves who may finalize it and with which outcome (Claims).
LEMMA ClaimsStep ==
    ASSUME RuntimeTypeOK, ~SinkMayRaise, NEW r \in Runtime, Good(r), Move(r)
    PROVE  Claims(r)'
<1> USE DEF Good, RuntimeTypeOK, FieldTypes, ThreadTypes, InTerm, InFinal, Finishing, Labels,
     Stages, Claims, CallerLabels, WatchdogLabels, TermLabels, FinalLabels, Thread
<1>1. CASE ChildExits(r)
  BY <1>1 DEF ChildExits, At, Goto, fields, permits, os, back, history
<1>2. CASE ChildForks(r)
  BY <1>2 DEF ChildForks, At, Goto, fields, permits, os, back, history
<1>3. CASE DescendantsExit(r)
  BY <1>3 DEF DescendantsExit, At, Goto, fields, permits, os, back, history
<1>4. CASE Recycle(r)
  BY <1>4 DEF Recycle, At, Goto, fields, permits, os, back, history
<1>5. CASE Start(r)
  BY <1>5 DEF Start, At, Goto, fields, permits, os, back, history
<1>6. CASE ServeOnce(r)
  BY <1>6 DEF ServeOnce, At, Goto, fields, permits, os, back, history
<1>7. CASE ShutdownUnstarted(r)
  BY <1>7 DEF ShutdownUnstarted, At, Goto, fields, permits, os, back, history
<1>8. CASE Shutdown(r)
  BY <1>8 DEF Shutdown, At, Goto, Finalizing, fields, permits, os, back, history
<1>9. CASE Spawn(r)
  BY <1>9 DEF Spawn, At, Goto, AfterEmit, fields, permits, os, back, history
<1>10. CASE SpawnFails(r)
  BY <1>10 DEF SpawnFails, At, Goto, fields, permits, os, back, history
<1>11. CASE Hello(r)
  BY <1>11 DEF Hello, At, Goto, AfterEmit, fields, permits, os, back, history
<1>12. CASE Ready(r)
  BY <1>12 DEF Ready, At, Goto, AfterEmit, fields, permits, os, back, history
<1>13. CASE Enter(r)
  BY <1>13 DEF Enter, At, Goto, fields, permits, os, back, history
<1>14. CASE Served(r)
  BY <1>14 DEF Served, At, Goto, fields, permits, os, back, history
<1>15. CASE ExchangeFails(r)
  BY <1>15 DEF ExchangeFails, At, Goto, Exchanging, Handler, fields, permits, os,
       back, history
<1>16. CASE FrameTooLarge(r)
  BY <1>16 DEF FrameTooLarge, At, Goto, Exchanging, Handler, Claimable, fields,
       permits, os, back, history
<1>17. CASE ReportOversize(r)
  BY <1>17 DEF ReportOversize, At, Goto, Handler, Report, fields, permits, os, back,
       history
<1>18. CASE Interrupted(r)
  BY <1>18 DEF Interrupted, At, Goto, Exchanging, Finalizing, fields, permits, os,
       back, history
<1>19. CASE Except(r)
  BY <1>19 DEF Except, At, Goto, Reap, fields, permits, os, back, history
<1>20. CASE Fail(r)
  BY <1>20 DEF Fail, At, Goto, Report, Finalizing, fields, permits, os, back, history
<1>21. CASE Leave(r)
  BY <1>21 DEF Leave, At, Goto, Finalizing, fields, permits, os, back, history
<1>22. CASE SayBye(r)
  BY <1>22 DEF SayBye, At, Goto, fields, permits, os, back, history
<1>23. CASE Acknowledged(r)
  BY <1>23 DEF Acknowledged, At, Goto, fields, permits, os, back, history
<1>24. CASE Graceful(r)
  BY <1>24 DEF Graceful, At, Goto, TermLockFree, Reap, Finalizing, fields, permits,
       os, back, history
<1>25. CASE WrongStatus(r)
  BY <1>25 DEF WrongStatus, At, Goto, Reap, ForceStop, Terminating, fields, permits,
       os, back, history
<1>26. CASE ShutdownFails(r)
  BY <1>26 DEF ShutdownFails, At, Goto, Report, ForceStop, Terminating, fields,
       permits, os, back, history
<1>27. CASE Goodbye(r)
  BY <1>27 DEF Goodbye, At, Goto, Report, fields, permits, os, back, history
<1>28. CASE WatchEnds(r)
  BY <1>28 DEF WatchEnds, At, Goto, fields, permits, os, back, history
<1>29. CASE Gate(r)
  BY <1>29 DEF Gate, At, Goto, fields, permits, os, back, history
<1>30. CASE Poll(r)
  BY <1>30 DEF Poll, At, Goto, Reap, fields, permits, os, back, history
<1>31. CASE ClaimWallClock(r)
  BY <1>31 DEF ClaimWallClock, At, Goto, Claimable, fields, permits, os, back, history
<1>32. CASE ReportWallClock(r)
  BY <1>32 DEF ReportWallClock, At, Goto, Report, Terminating, fields, permits, os,
       back, history
<1>33. CASE IdleCheck(r)
  BY <1>33 DEF IdleCheck, At, Goto, Finalizing, fields, permits, os, back, history
<1>34. ASSUME NEW t \in Thread, Terminate(r, t) PROVE Claims(r)'
  BY <1>34 DEF Terminate, At, Goto, TermLockFree, Signal, Thread, fields, permits, os,
       back, history
<1>35. ASSUME NEW t \in Thread, Grace(r, t) PROVE Claims(r)'
  BY <1>35 DEF Grace, At, Goto, Reap, Thread, fields, permits, os, back, history
<1>36. ASSUME NEW t \in Thread, Kill(r, t) PROVE Claims(r)'
  BY <1>36 DEF Kill, At, Goto, Signal, Thread, fields, permits, os, back, history
<1>37. ASSUME NEW t \in Thread, LastWait(r, t) PROVE Claims(r)'
  BY <1>37, SMTT(40) DEF LastWait, At, Goto, Reap, Thread, fields, permits, os, back, history
<1>38. ASSUME NEW t \in Thread, Cancel(r, t) PROVE Claims(r)'
  BY <1>38 DEF Cancel, At, Goto, Thread, fields, permits, os, back, history
<1>39. ASSUME NEW t \in Thread, Join(r, t) PROVE Claims(r)'
  BY <1>39 DEF Join, At, Goto, Joined, FinalizeLockFree, Terminating, Thread, fields,
       permits, os, back, history
<1>40. ASSUME NEW t \in Thread, Clean(r, t) PROVE Claims(r)'
  BY <1>40 DEF Clean, At, Goto, Thread, fields, permits, os, back, history
<1>41. ASSUME NEW t \in Thread, Settle(r, t) PROVE Claims(r)'
  BY <1>41, SMTT(40) DEF Settle, At, Goto, Thread, fields, permits, os, back, history
<1>42. QED
  BY <1>1, <1>2, <1>3, <1>4, <1>5, <1>6, <1>7, <1>8, <1>9, <1>10, <1>11, <1>12, <1>13,
       <1>14, <1>15, <1>16, <1>17, <1>18, <1>19, <1>20, <1>21, <1>22, <1>23, <1>24,
       <1>25, <1>26, <1>27, <1>28, <1>29, <1>30, <1>31, <1>32, <1>33, <1>34, <1>35,
       <1>36, <1>37, <1>38, <1>39, <1>40, <1>41, ZenonT(60) DEF Move, Child, Operation, Caller,
       Watchdog, Shared, Thread

\* A step of a runtime preserves what was reported and how it ended (Outcome).
LEMMA OutcomeStep ==
    ASSUME RuntimeTypeOK, ~SinkMayRaise, NEW r \in Runtime, Good(r), Move(r)
    PROVE  Outcome(r)'
<1> USE DEF Good, RuntimeTypeOK, FieldTypes, ThreadTypes, InTerm, InFinal, Finishing,
     OsTypes, HistoryTypes, Labels, Busy, Stages, Claims, Outcome, CallerLabels,
     WatchdogLabels, TermLabels, FinalLabels, Thread
<1>1. CASE ChildExits(r)
  BY <1>1 DEF ChildExits, At, Goto, fields, permits, os, back, history
<1>2. CASE ChildForks(r)
  BY <1>2 DEF ChildForks, At, Goto, fields, permits, os, back, history
<1>3. CASE DescendantsExit(r)
  BY <1>3 DEF DescendantsExit, At, Goto, fields, permits, os, back, history
<1>4. CASE Recycle(r)
  BY <1>4 DEF Recycle, At, Goto, fields, permits, os, back, history
<1>5. CASE Start(r)
  BY <1>5 DEF Start, At, Goto, fields, permits, os, back, history
<1>6. CASE ServeOnce(r)
  BY <1>6 DEF ServeOnce, At, Goto, fields, permits, os, back, history
<1>7. CASE ShutdownUnstarted(r)
  BY <1>7 DEF ShutdownUnstarted, At, Goto, fields, permits, os, back, history
<1>8. CASE Shutdown(r)
  BY <1>8 DEF Shutdown, At, Goto, Finalizing, fields, permits, os, back, history
<1>9. CASE Spawn(r)
  BY <1>9 DEF Spawn, At, Goto, AfterEmit, fields, permits, os, back, history
<1>10. CASE SpawnFails(r)
  BY <1>10 DEF SpawnFails, At, Goto, fields, permits, os, back, history
<1>11. CASE Hello(r)
  BY <1>11 DEF Hello, At, Goto, AfterEmit, fields, permits, os, back, history
<1>12. CASE Ready(r)
  BY <1>12 DEF Ready, At, Goto, AfterEmit, fields, permits, os, back, history
<1>13. CASE Enter(r)
  BY <1>13 DEF Enter, At, Goto, fields, permits, os, back, history
<1>14. CASE Served(r)
  BY <1>14 DEF Served, At, Goto, fields, permits, os, back, history
<1>15. CASE ExchangeFails(r)
  BY <1>15 DEF ExchangeFails, At, Goto, Exchanging, Handler, fields, permits, os,
       back, history
<1>16. CASE FrameTooLarge(r)
  BY <1>16 DEF FrameTooLarge, At, Goto, Exchanging, Handler, Claimable, fields,
       permits, os, back, history
<1>17. CASE ReportOversize(r)
  BY <1>17 DEF ReportOversize, At, Goto, Handler, Report, fields, permits, os, back,
       history
<1>18. CASE Interrupted(r)
  BY <1>18 DEF Interrupted, At, Goto, Exchanging, Finalizing, fields, permits, os,
       back, history
<1>19. CASE Except(r)
  BY <1>19 DEF Except, At, Goto, Reap, fields, permits, os, back, history
<1>20. CASE Fail(r)
  BY <1>20 DEF Fail, At, Goto, Report, Finalizing, fields, permits, os, back, history
<1>21. CASE Leave(r)
  BY <1>21 DEF Leave, At, Goto, Finalizing, fields, permits, os, back, history
<1>22. CASE SayBye(r)
  BY <1>22 DEF SayBye, At, Goto, fields, permits, os, back, history
<1>23. CASE Acknowledged(r)
  BY <1>23 DEF Acknowledged, At, Goto, fields, permits, os, back, history
<1>24. CASE Graceful(r)
  BY <1>24 DEF Graceful, At, Goto, TermLockFree, Reap, Finalizing, fields, permits,
       os, back, history
<1>25. CASE WrongStatus(r)
  BY <1>25 DEF WrongStatus, At, Goto, Reap, ForceStop, Terminating, fields, permits,
       os, back, history
<1>26. CASE ShutdownFails(r)
  BY <1>26 DEF ShutdownFails, At, Goto, Report, ForceStop, Terminating, fields,
       permits, os, back, history
<1>27. CASE Goodbye(r)
  BY <1>27 DEF Goodbye, At, Goto, Report, fields, permits, os, back, history
<1>28. CASE WatchEnds(r)
  BY <1>28 DEF WatchEnds, At, Goto, fields, permits, os, back, history
<1>29. CASE Gate(r)
  BY <1>29 DEF Gate, At, Goto, fields, permits, os, back, history
<1>30. CASE Poll(r)
  BY <1>30 DEF Poll, At, Goto, Reap, fields, permits, os, back, history
<1>31. CASE ClaimWallClock(r)
  BY <1>31 DEF ClaimWallClock, At, Goto, Claimable, fields, permits, os, back, history
<1>32. CASE ReportWallClock(r)
  BY <1>32 DEF ReportWallClock, At, Goto, Report, Terminating, fields, permits, os,
       back, history
<1>33. CASE IdleCheck(r)
  BY <1>33 DEF IdleCheck, At, Goto, Finalizing, fields, permits, os, back, history
<1>34. ASSUME NEW t \in Thread, Terminate(r, t) PROVE Outcome(r)'
  BY <1>34 DEF Terminate, At, Goto, TermLockFree, Signal, Thread, fields, permits, os,
       back, history
<1>35. ASSUME NEW t \in Thread, Grace(r, t) PROVE Outcome(r)'
  BY <1>35 DEF Grace, At, Goto, Reap, Thread, fields, permits, os, back, history
<1>36. ASSUME NEW t \in Thread, Kill(r, t) PROVE Outcome(r)'
  BY <1>36 DEF Kill, At, Goto, Signal, Thread, fields, permits, os, back, history
<1>37. ASSUME NEW t \in Thread, LastWait(r, t) PROVE Outcome(r)'
  BY <1>37, SMTT(40) DEF LastWait, At, Goto, Reap, Thread, fields, permits, os, back, history
<1>38. ASSUME NEW t \in Thread, Cancel(r, t) PROVE Outcome(r)'
  BY <1>38 DEF Cancel, At, Goto, Thread, fields, permits, os, back, history
<1>39. ASSUME NEW t \in Thread, Join(r, t) PROVE Outcome(r)'
  BY <1>39 DEF Join, At, Goto, Joined, FinalizeLockFree, Terminating, Thread, fields,
       permits, os, back, history
<1>40. ASSUME NEW t \in Thread, Clean(r, t) PROVE Outcome(r)'
  BY <1>40 DEF Clean, At, Goto, Thread, fields, permits, os, back, history
<1>41. ASSUME NEW t \in Thread, Settle(r, t) PROVE Outcome(r)'
  BY <1>41, SMTT(40) DEF Settle, At, Goto, Thread, fields, permits, os, back, history
<1>42. QED
  BY <1>1, <1>2, <1>3, <1>4, <1>5, <1>6, <1>7, <1>8, <1>9, <1>10, <1>11, <1>12, <1>13,
       <1>14, <1>15, <1>16, <1>17, <1>18, <1>19, <1>20, <1>21, <1>22, <1>23, <1>24,
       <1>25, <1>26, <1>27, <1>28, <1>29, <1>30, <1>31, <1>32, <1>33, <1>34, <1>35,
       <1>36, <1>37, <1>38, <1>39, <1>40, <1>41 DEF Move, Child, Operation, Caller,
       Watchdog, Shared, Thread

\* A step of a runtime preserves where its child and the group are (Containment).
LEMMA ContainmentStep ==
    ASSUME RuntimeTypeOK, ~SinkMayRaise, NEW r \in Runtime, Good(r), Move(r)
    PROVE  Containment(r)'
<1> USE DEF Good, RuntimeTypeOK, FieldTypes, ThreadTypes, InTerm, InFinal, Finishing,
     OsTypes, HistoryTypes, Labels, Stages, Claims, Containment, CallerLabels,
     WatchdogLabels, TermLabels, FinalLabels, Thread
<1>1. CASE ChildExits(r)
  BY <1>1 DEF ChildExits, At, Goto, fields, permits, os, back, history
<1>2. CASE ChildForks(r)
  BY <1>2 DEF ChildForks, At, Goto, fields, permits, os, back, history
<1>3. CASE DescendantsExit(r)
  BY <1>3 DEF DescendantsExit, At, Goto, fields, permits, os, back, history
<1>4. CASE Recycle(r)
  BY <1>4 DEF Recycle, At, Goto, fields, permits, os, back, history
<1>5. CASE Start(r)
  BY <1>5 DEF Start, At, Goto, fields, permits, os, back, history
<1>6. CASE ServeOnce(r)
  BY <1>6 DEF ServeOnce, At, Goto, fields, permits, os, back, history
<1>7. CASE ShutdownUnstarted(r)
  BY <1>7 DEF ShutdownUnstarted, At, Goto, fields, permits, os, back, history
<1>8. CASE Shutdown(r)
  BY <1>8 DEF Shutdown, At, Goto, Finalizing, fields, permits, os, back, history
<1>9. CASE Spawn(r)
  BY <1>9 DEF Spawn, At, Goto, AfterEmit, fields, permits, os, back, history
<1>10. CASE SpawnFails(r)
  BY <1>10 DEF SpawnFails, At, Goto, fields, permits, os, back, history
<1>11. CASE Hello(r)
  BY <1>11 DEF Hello, At, Goto, AfterEmit, fields, permits, os, back, history
<1>12. CASE Ready(r)
  BY <1>12 DEF Ready, At, Goto, AfterEmit, fields, permits, os, back, history
<1>13. CASE Enter(r)
  BY <1>13 DEF Enter, At, Goto, fields, permits, os, back, history
<1>14. CASE Served(r)
  BY <1>14 DEF Served, At, Goto, fields, permits, os, back, history
<1>15. CASE ExchangeFails(r)
  BY <1>15 DEF ExchangeFails, At, Goto, Exchanging, Handler, fields, permits, os,
       back, history
<1>16. CASE FrameTooLarge(r)
  BY <1>16 DEF FrameTooLarge, At, Goto, Exchanging, Handler, Claimable, fields,
       permits, os, back, history
<1>17. CASE ReportOversize(r)
  BY <1>17 DEF ReportOversize, At, Goto, Handler, Report, fields, permits, os, back,
       history
<1>18. CASE Interrupted(r)
  BY <1>18 DEF Interrupted, At, Goto, Exchanging, Finalizing, fields, permits, os,
       back, history
<1>19. CASE Except(r)
  BY <1>19 DEF Except, At, Goto, Reap, fields, permits, os, back, history
<1>20. CASE Fail(r)
  BY <1>20 DEF Fail, At, Goto, Report, Finalizing, fields, permits, os, back, history
<1>21. CASE Leave(r)
  BY <1>21 DEF Leave, At, Goto, Finalizing, fields, permits, os, back, history
<1>22. CASE SayBye(r)
  BY <1>22 DEF SayBye, At, Goto, fields, permits, os, back, history
<1>23. CASE Acknowledged(r)
  BY <1>23 DEF Acknowledged, At, Goto, fields, permits, os, back, history
<1>24. CASE Graceful(r)
  BY <1>24 DEF Graceful, At, Goto, TermLockFree, Reap, Finalizing, fields, permits,
       os, back, history
<1>25. CASE WrongStatus(r)
  BY <1>25 DEF WrongStatus, At, Goto, Reap, ForceStop, Terminating, fields, permits,
       os, back, history
<1>26. CASE ShutdownFails(r)
  BY <1>26 DEF ShutdownFails, At, Goto, Report, ForceStop, Terminating, fields,
       permits, os, back, history
<1>27. CASE Goodbye(r)
  BY <1>27 DEF Goodbye, At, Goto, Report, fields, permits, os, back, history
<1>28. CASE WatchEnds(r)
  BY <1>28 DEF WatchEnds, At, Goto, fields, permits, os, back, history
<1>29. CASE Gate(r)
  BY <1>29 DEF Gate, At, Goto, fields, permits, os, back, history
<1>30. CASE Poll(r)
  BY <1>30 DEF Poll, At, Goto, Reap, fields, permits, os, back, history
<1>31. CASE ClaimWallClock(r)
  BY <1>31 DEF ClaimWallClock, At, Goto, Claimable, fields, permits, os, back, history
<1>32. CASE ReportWallClock(r)
  BY <1>32 DEF ReportWallClock, At, Goto, Report, Terminating, fields, permits, os,
       back, history
<1>33. CASE IdleCheck(r)
  BY <1>33 DEF IdleCheck, At, Goto, Finalizing, fields, permits, os, back, history
<1>34. ASSUME NEW t \in Thread, Terminate(r, t) PROVE Containment(r)'
  BY <1>34 DEF Terminate, At, Goto, TermLockFree, Signal, Thread, fields, permits, os,
       back, history
<1>35. ASSUME NEW t \in Thread, Grace(r, t) PROVE Containment(r)'
  BY <1>35 DEF Grace, At, Goto, Reap, Thread, fields, permits, os, back, history
<1>36. ASSUME NEW t \in Thread, Kill(r, t) PROVE Containment(r)'
  BY <1>36 DEF Kill, At, Goto, Signal, Thread, fields, permits, os, back, history
<1>37. ASSUME NEW t \in Thread, LastWait(r, t) PROVE Containment(r)'
  BY <1>37, SMTT(40) DEF LastWait, At, Goto, Reap, Thread, fields, permits, os, back, history
<1>38. ASSUME NEW t \in Thread, Cancel(r, t) PROVE Containment(r)'
  BY <1>38 DEF Cancel, At, Goto, Thread, fields, permits, os, back, history
<1>39. ASSUME NEW t \in Thread, Join(r, t) PROVE Containment(r)'
  BY <1>39 DEF Join, At, Goto, Joined, FinalizeLockFree, Terminating, Thread, fields,
       permits, os, back, history
<1>40. ASSUME NEW t \in Thread, Clean(r, t) PROVE Containment(r)'
  BY <1>40 DEF Clean, At, Goto, Thread, fields, permits, os, back, history
<1>41. ASSUME NEW t \in Thread, Settle(r, t) PROVE Containment(r)'
  BY <1>41 DEF Settle, At, Goto, Thread, fields, permits, os, back, history
<1>42. QED
  BY <1>1, <1>2, <1>3, <1>4, <1>5, <1>6, <1>7, <1>8, <1>9, <1>10, <1>11, <1>12, <1>13,
       <1>14, <1>15, <1>16, <1>17, <1>18, <1>19, <1>20, <1>21, <1>22, <1>23, <1>24,
       <1>25, <1>26, <1>27, <1>28, <1>29, <1>30, <1>31, <1>32, <1>33, <1>34, <1>35,
       <1>36, <1>37, <1>38, <1>39, <1>40, <1>41, ZenonT(60) DEF Move, Child, Operation, Caller,
       Watchdog, Shared, Thread

(***************************************************************************)
(* A step of one runtime leaves the others alone.                          *)
(***************************************************************************)
Same(q) ==
    /\ state'[q] = state[q] /\ busy'[q] = busy[q] /\ closing'[q] = closing[q]
    /\ finalized'[q] = finalized[q] /\ groupReleased'[q] = groupReleased[q]
    /\ violation'[q] = violation[q] /\ permit'[q] = permit[q]
    /\ leader'[q] = leader[q] /\ exit0'[q] = exit0[q] /\ kin'[q] = kin[q]
    /\ handles'[q] = handles[q] /\ pc'[q] = pc[q]
    /\ termBack'[q] = termBack[q] /\ finBack'[q] = finBack[q]
    /\ final'[q] = final[q] /\ reported'[q] = reported[q]

\* No thread of one runtime writes a field of another one.
LEMMA OthersStep ==
    ASSUME RuntimeTypeOK, NEW r \in Runtime, NEW q \in Runtime, q # r, Move(r)
    PROVE  Same(q)
<1> USE DEF RuntimeTypeOK, FieldTypes, OsTypes, ThreadTypes, HistoryTypes, Same
<1>1. CASE ChildExits(r)
  BY <1>1 DEF ChildExits, At, Goto, fields, permits, os, back, history
<1>2. CASE ChildForks(r)
  BY <1>2 DEF ChildForks, At, Goto, fields, permits, os, back, history
<1>3. CASE DescendantsExit(r)
  BY <1>3 DEF DescendantsExit, At, Goto, fields, permits, os, back, history
<1>4. CASE Recycle(r)
  BY <1>4 DEF Recycle, At, Goto, fields, permits, os, back, history
<1>5. CASE Start(r)
  BY <1>5 DEF Start, At, Goto, fields, permits, os, back, history
<1>6. CASE ServeOnce(r)
  BY <1>6 DEF ServeOnce, At, Goto, fields, permits, os, back, history
<1>7. CASE ShutdownUnstarted(r)
  BY <1>7 DEF ShutdownUnstarted, At, Goto, fields, permits, os, back, history
<1>8. CASE Shutdown(r)
  BY <1>8 DEF Shutdown, At, Goto, Finalizing, fields, permits, os, back, history
<1>9. CASE Spawn(r)
  BY <1>9 DEF Spawn, At, Goto, AfterEmit, fields, permits, os, back, history
<1>10. CASE SpawnFails(r)
  BY <1>10 DEF SpawnFails, At, Goto, fields, permits, os, back, history
<1>11. CASE Hello(r)
  BY <1>11 DEF Hello, At, Goto, AfterEmit, fields, permits, os, back, history
<1>12. CASE Ready(r)
  BY <1>12 DEF Ready, At, Goto, AfterEmit, fields, permits, os, back, history
<1>13. CASE Enter(r)
  BY <1>13 DEF Enter, At, Goto, fields, permits, os, back, history
<1>14. CASE Served(r)
  BY <1>14 DEF Served, At, Goto, fields, permits, os, back, history
<1>15. CASE ExchangeFails(r)
  BY <1>15 DEF ExchangeFails, At, Goto, Exchanging, Handler, fields, permits, os,
       back, history
<1>16. CASE FrameTooLarge(r)
  BY <1>16 DEF FrameTooLarge, At, Goto, Exchanging, Handler, Claimable, fields,
       permits, os, back, history
<1>17. CASE ReportOversize(r)
  BY <1>17 DEF ReportOversize, At, Goto, Handler, Report, fields, permits, os, back,
       history
<1>18. CASE Interrupted(r)
  BY <1>18 DEF Interrupted, At, Goto, Exchanging, Finalizing, fields, permits, os,
       back, history
<1>19. CASE Except(r)
  BY <1>19 DEF Except, At, Goto, Reap, fields, permits, os, back, history
<1>20. CASE Fail(r)
  BY <1>20 DEF Fail, At, Goto, Report, Finalizing, fields, permits, os, back, history
<1>21. CASE Leave(r)
  BY <1>21 DEF Leave, At, Goto, Finalizing, fields, permits, os, back, history
<1>22. CASE SayBye(r)
  BY <1>22 DEF SayBye, At, Goto, fields, permits, os, back, history
<1>23. CASE Acknowledged(r)
  BY <1>23 DEF Acknowledged, At, Goto, fields, permits, os, back, history
<1>24. CASE Graceful(r)
  BY <1>24 DEF Graceful, At, Goto, TermLockFree, Reap, Finalizing, fields, permits,
       os, back, history
<1>25. CASE WrongStatus(r)
  BY <1>25 DEF WrongStatus, At, Goto, Reap, ForceStop, Terminating, fields, permits,
       os, back, history
<1>26. CASE ShutdownFails(r)
  BY <1>26 DEF ShutdownFails, At, Goto, Report, ForceStop, Terminating, fields,
       permits, os, back, history
<1>27. CASE Goodbye(r)
  BY <1>27 DEF Goodbye, At, Goto, Report, fields, permits, os, back, history
<1>28. CASE WatchEnds(r)
  BY <1>28 DEF WatchEnds, At, Goto, fields, permits, os, back, history
<1>29. CASE Gate(r)
  BY <1>29 DEF Gate, At, Goto, fields, permits, os, back, history
<1>30. CASE Poll(r)
  BY <1>30 DEF Poll, At, Goto, Reap, fields, permits, os, back, history
<1>31. CASE ClaimWallClock(r)
  BY <1>31 DEF ClaimWallClock, At, Goto, Claimable, fields, permits, os, back, history
<1>32. CASE ReportWallClock(r)
  BY <1>32 DEF ReportWallClock, At, Goto, Report, Terminating, fields, permits, os,
       back, history
<1>33. CASE IdleCheck(r)
  BY <1>33 DEF IdleCheck, At, Goto, Finalizing, fields, permits, os, back, history
<1>34. ASSUME NEW t \in Thread, Terminate(r, t) PROVE Same(q)
  BY <1>34 DEF Terminate, At, Goto, TermLockFree, Signal, fields, permits, os, back,
       history
<1>35. ASSUME NEW t \in Thread, Grace(r, t) PROVE Same(q)
  BY <1>35 DEF Grace, At, Goto, Reap, fields, permits, os, back, history
<1>36. ASSUME NEW t \in Thread, Kill(r, t) PROVE Same(q)
  BY <1>36 DEF Kill, At, Goto, Signal, fields, permits, os, back, history
<1>37. ASSUME NEW t \in Thread, LastWait(r, t) PROVE Same(q)
  BY <1>37, SMTT(40) DEF LastWait, At, Goto, Reap, fields, permits, os, back, history
<1>38. ASSUME NEW t \in Thread, Cancel(r, t) PROVE Same(q)
  BY <1>38 DEF Cancel, At, Goto, fields, permits, os, back, history
<1>39. ASSUME NEW t \in Thread, Join(r, t) PROVE Same(q)
  BY <1>39 DEF Join, At, Goto, Joined, FinalizeLockFree, Terminating, fields, permits,
       os, back, history
<1>40. ASSUME NEW t \in Thread, Clean(r, t) PROVE Same(q)
  BY <1>40 DEF Clean, At, Goto, fields, permits, os, back, history
<1>41. ASSUME NEW t \in Thread, Settle(r, t) PROVE Same(q)
  BY <1>41 DEF Settle, At, Goto, fields, permits, os, back, history
<1> QED
  BY <1>1, <1>2, <1>3, <1>4, <1>5, <1>6, <1>7, <1>8, <1>9, <1>10, <1>11, <1>12, <1>13,
       <1>14, <1>15, <1>16, <1>17, <1>18, <1>19, <1>20, <1>21, <1>22, <1>23, <1>24,
       <1>25, <1>26, <1>27, <1>28, <1>29, <1>30, <1>31, <1>32, <1>33, <1>34, <1>35,
       <1>36, <1>37, <1>38, <1>39, <1>40, <1>41 DEF Move, Child, Operation, Caller,
       Watchdog, Shared, Thread

\* What holds of a runtime depends on nothing but its own fields.
LEMMA GoodSame ==
    ASSUME NEW q \in Runtime, Good(q), Same(q)
    PROVE  Good(q)'
<1> USE DEF Good, Same, InTerm, InFinal, Finishing
<1>1. Labels(q)' /\ Busy(q)' /\ Stages(q)'
  BY DEF Labels, Busy, Stages
<1>2. Claims(q)' /\ Outcome(q)'
  BY DEF Claims, Outcome
<1>3. Containment(q)'
  BY DEF Containment
<1> QED
  BY <1>1, <1>2, <1>3

\* A step of a runtime preserves what holds of every runtime.
LEMMA GoodStep ==
    ASSUME RuntimeTypeOK, ~SinkMayRaise, \A q \in Runtime : Good(q), NEW r \in Runtime, Move(r)
    PROVE  \A q \in Runtime : Good(q)'
<1> SUFFICES ASSUME NEW q \in Runtime PROVE Good(q)'
  OBVIOUS
<1>1. CASE q = r
  BY <1>1, LabelsStep, BusyStep, StagesStep, ClaimsStep, OutcomeStep, ContainmentStep
     DEF Good
<1>2. CASE q # r
  BY <1>2, OthersStep, GoodSame
<1> QED
  BY <1>1, <1>2

(***************************************************************************)
(* Permits.                                                                *)
(***************************************************************************)
Granted(r) ==
    /\ ~permit[r] /\ active < Limit
    /\ permit' = [permit EXCEPT ![r] = TRUE] /\ active' = active + 1

Returned(r) ==
    /\ permit[r]
    /\ permit' = [permit EXCEPT ![r] = FALSE] /\ active' = active - 1

\* Only start takes a permit and only _finalize gives one back, and it does so
\* for a runtime that holds one: _release is never called twice.
LEMMA PermitStep ==
    ASSUME RuntimeTypeOK, NEW r \in Runtime, Good(r), Move(r)
    PROVE  UNCHANGED permits \/ Granted(r) \/ Returned(r)
<1>1. CASE ChildExits(r)
  BY <1>1 DEF ChildExits, At, Goto, fields, permits, os, back, history
<1>2. CASE ChildForks(r)
  BY <1>2 DEF ChildForks, At, Goto, fields, permits, os, back, history
<1>3. CASE DescendantsExit(r)
  BY <1>3 DEF DescendantsExit, At, Goto, fields, permits, os, back, history
<1>4. CASE Recycle(r)
  BY <1>4 DEF Recycle, At, Goto, fields, permits, os, back, history
<1>5. CASE Start(r)
  BY <1>5 DEF Start, At, Goto, RuntimeTypeOK, FieldTypes, Good, Stages, Claims, Finishing,
       Granted, Returned, fields, permits, os, back, history
<1>6. CASE ServeOnce(r)
  BY <1>6 DEF ServeOnce, At, Goto, fields, permits, os, back, history
<1>7. CASE ShutdownUnstarted(r)
  BY <1>7 DEF ShutdownUnstarted, At, Goto, fields, permits, os, back, history
<1>8. CASE Shutdown(r)
  BY <1>8 DEF Shutdown, At, Goto, Finalizing, fields, permits, os, back, history
<1>9. CASE Spawn(r)
  BY <1>9 DEF Spawn, At, Goto, AfterEmit, fields, permits, os, back, history
<1>10. CASE SpawnFails(r)
  BY <1>10 DEF SpawnFails, At, Goto, fields, permits, os, back, history
<1>11. CASE Hello(r)
  BY <1>11 DEF Hello, At, Goto, AfterEmit, fields, permits, os, back, history
<1>12. CASE Ready(r)
  BY <1>12 DEF Ready, At, Goto, AfterEmit, fields, permits, os, back, history
<1>13. CASE Enter(r)
  BY <1>13 DEF Enter, At, Goto, fields, permits, os, back, history
<1>14. CASE Served(r)
  BY <1>14 DEF Served, At, Goto, fields, permits, os, back, history
<1>15. CASE ExchangeFails(r)
  BY <1>15 DEF ExchangeFails, At, Goto, Exchanging, Handler, fields, permits, os,
       back, history
<1>16. CASE FrameTooLarge(r)
  BY <1>16 DEF FrameTooLarge, At, Goto, Exchanging, Handler, Claimable, fields,
       permits, os, back, history
<1>17. CASE ReportOversize(r)
  BY <1>17 DEF ReportOversize, At, Goto, Handler, Report, fields, permits, os, back,
       history
<1>18. CASE Interrupted(r)
  BY <1>18 DEF Interrupted, At, Goto, Exchanging, Finalizing, fields, permits, os,
       back, history
<1>19. CASE Except(r)
  BY <1>19 DEF Except, At, Goto, Reap, fields, permits, os, back, history
<1>20. CASE Fail(r)
  BY <1>20 DEF Fail, At, Goto, Report, Finalizing, fields, permits, os, back, history
<1>21. CASE Leave(r)
  BY <1>21 DEF Leave, At, Goto, Finalizing, fields, permits, os, back, history
<1>22. CASE SayBye(r)
  BY <1>22 DEF SayBye, At, Goto, fields, permits, os, back, history
<1>23. CASE Acknowledged(r)
  BY <1>23 DEF Acknowledged, At, Goto, fields, permits, os, back, history
<1>24. CASE Graceful(r)
  BY <1>24 DEF Graceful, At, Goto, TermLockFree, Reap, Finalizing, fields, permits,
       os, back, history
<1>25. CASE WrongStatus(r)
  BY <1>25 DEF WrongStatus, At, Goto, Reap, ForceStop, Terminating, fields, permits,
       os, back, history
<1>26. CASE ShutdownFails(r)
  BY <1>26 DEF ShutdownFails, At, Goto, Report, ForceStop, Terminating, fields,
       permits, os, back, history
<1>27. CASE Goodbye(r)
  BY <1>27 DEF Goodbye, At, Goto, Report, fields, permits, os, back, history
<1>28. CASE WatchEnds(r)
  BY <1>28 DEF WatchEnds, At, Goto, fields, permits, os, back, history
<1>29. CASE Gate(r)
  BY <1>29 DEF Gate, At, Goto, fields, permits, os, back, history
<1>30. CASE Poll(r)
  BY <1>30 DEF Poll, At, Goto, Reap, fields, permits, os, back, history
<1>31. CASE ClaimWallClock(r)
  BY <1>31 DEF ClaimWallClock, At, Goto, Claimable, fields, permits, os, back, history
<1>32. CASE ReportWallClock(r)
  BY <1>32 DEF ReportWallClock, At, Goto, Report, Terminating, fields, permits, os,
       back, history
<1>33. CASE IdleCheck(r)
  BY <1>33 DEF IdleCheck, At, Goto, Finalizing, fields, permits, os, back, history
<1>34. ASSUME NEW t \in Thread, Terminate(r, t) PROVE UNCHANGED permits \/ Granted(r) \/ Returned(r)
  BY <1>34 DEF Terminate, At, Goto, TermLockFree, Signal, fields, permits, os, back,
       history
<1>35. ASSUME NEW t \in Thread, Grace(r, t) PROVE UNCHANGED permits \/ Granted(r) \/ Returned(r)
  BY <1>35 DEF Grace, At, Goto, Reap, fields, permits, os, back, history
<1>36. ASSUME NEW t \in Thread, Kill(r, t) PROVE UNCHANGED permits \/ Granted(r) \/ Returned(r)
  BY <1>36 DEF Kill, At, Goto, Signal, fields, permits, os, back, history
<1>37. ASSUME NEW t \in Thread, LastWait(r, t) PROVE UNCHANGED permits \/ Granted(r) \/ Returned(r)
  BY <1>37, SMTT(40) DEF LastWait, At, Goto, Reap, fields, permits, os, back, history
<1>38. ASSUME NEW t \in Thread, Cancel(r, t) PROVE UNCHANGED permits \/ Granted(r) \/ Returned(r)
  BY <1>38 DEF Cancel, At, Goto, fields, permits, os, back, history
<1>39. ASSUME NEW t \in Thread, Join(r, t) PROVE UNCHANGED permits \/ Granted(r) \/ Returned(r)
  BY <1>39 DEF Join, At, Goto, Joined, FinalizeLockFree, Terminating, fields, permits,
       os, back, history
<1>40. ASSUME NEW t \in Thread, Clean(r, t) PROVE UNCHANGED permits \/ Granted(r) \/ Returned(r)
  BY <1>40 DEF Clean, At, Goto, fields, permits, os, back, history
<1>41. ASSUME NEW t \in Thread, Settle(r, t) PROVE UNCHANGED permits \/ Granted(r) \/ Returned(r)
  BY <1>41 DEF Settle, At, Goto, RuntimeTypeOK, FieldTypes, Good, Stages, Claims, Finishing,
       Granted, Returned, fields, permits, os, back, history
<1> QED
  BY <1>1, <1>2, <1>3, <1>4, <1>5, <1>6, <1>7, <1>8, <1>9, <1>10, <1>11, <1>12, <1>13,
       <1>14, <1>15, <1>16, <1>17, <1>18, <1>19, <1>20, <1>21, <1>22, <1>23, <1>24,
       <1>25, <1>26, <1>27, <1>28, <1>29, <1>30, <1>31, <1>32, <1>33, <1>34, <1>35,
       <1>36, <1>37, <1>38, <1>39, <1>40, <1>41 DEF Move, Child, Operation, Caller,
       Watchdog, Shared, Thread

\* The governor's counter equals the number of runtimes that hold a permit.
LEMMA BalanceStep ==
    ASSUME RuntimeTypeOK, PermitsBalance, \A q \in Runtime : Good(q), NEW r \in Runtime, Move(r)
    PROVE  PermitsBalance' /\ active' \in Nat /\ permit' \in [Runtime -> BOOLEAN]
<1> DEFINE H == {q \in Runtime : permit[q]}
<1>1. IsFiniteSet(H) /\ Cardinality(H) \in Nat /\ active = Cardinality(H)
  BY RuntimeAssumption, FS_Subset, FS_CardinalityType DEF PermitsBalance
<1>2. permit \in [Runtime -> BOOLEAN] /\ active \in Nat
  BY DEF RuntimeTypeOK, FieldTypes
<1>3. CASE UNCHANGED permits
  BY <1>2, <1>3 DEF permits, PermitsBalance
<1>4. CASE Granted(r)
  <2>1. {q \in Runtime : permit'[q]} = H \union {r} /\ r \notin H
    BY <1>2, <1>4 DEF Granted
  <2>2. Cardinality(H \union {r}) = Cardinality(H) + 1
    BY <1>1, <2>1, FS_AddElement
  <2>3. active + 1 <= Limit
    BY <1>2, <1>4, LimitAssumption DEF Granted
  <2> QED
    BY <1>1, <1>2, <1>4, <2>1, <2>2, <2>3 DEF Granted, PermitsBalance
<1>5. CASE Returned(r)
  <2>1. {q \in Runtime : permit'[q]} = H \ {r} /\ r \in H
    BY <1>2, <1>5 DEF Returned
  <2>2. Cardinality(H \ {r}) = Cardinality(H) - 1 /\ IsFiniteSet(H \ {r})
    BY <1>1, <2>1, FS_RemoveElement
  <2>3. Cardinality(H \ {r}) \in Nat
    BY <2>2, FS_CardinalityType
  <2>4. active' = Cardinality(H \ {r}) /\ active' <= Limit
    BY <1>1, <1>2, <1>5, <2>2, LimitAssumption DEF Returned, PermitsBalance
  <2> QED
    BY <1>2, <1>5, <2>1, <2>3, <2>4 DEF Returned, PermitsBalance
<1> QED
  BY <1>3, <1>4, <1>5, PermitStep

(***************************************************************************)
(* Types.                                                                  *)
(***************************************************************************)
\* FieldTypes without the permits, which BalanceStep is about.
FieldsTyped ==
    /\ state \in [Runtime -> State] /\ busy \in [Runtime -> {0, 1}]
    /\ closing \in [Runtime -> BOOLEAN] /\ finalized \in [Runtime -> BOOLEAN]
    /\ groupReleased \in [Runtime -> BOOLEAN] /\ violation \in [Runtime -> Violation]

\* Every step keeps the fields of the runtimes in their types.
LEMMA FieldTypesStep ==
    ASSUME RuntimeTypeOK, NEW r \in Runtime, Good(r), Move(r)
    PROVE  FieldsTyped'
<1> USE DEF RuntimeTypeOK, FieldTypes, FieldsTyped, Good, Busy, State, Violation, Thread,
     InTerm, InFinal, CallerLabels, WatchdogLabels, TermLabels, FinalLabels
<1>1. CASE ChildExits(r)
  BY <1>1 DEF ChildExits, At, Goto, fields, permits, os, back, history
<1>2. CASE ChildForks(r)
  BY <1>2 DEF ChildForks, At, Goto, fields, permits, os, back, history
<1>3. CASE DescendantsExit(r)
  BY <1>3 DEF DescendantsExit, At, Goto, fields, permits, os, back, history
<1>4. CASE Recycle(r)
  BY <1>4 DEF Recycle, At, Goto, fields, permits, os, back, history
<1>5. CASE Start(r)
  BY <1>5 DEF Start, At, Goto, fields, permits, os, back, history
<1>6. CASE ServeOnce(r)
  BY <1>6 DEF ServeOnce, At, Goto, fields, permits, os, back, history
<1>7. CASE ShutdownUnstarted(r)
  BY <1>7 DEF ShutdownUnstarted, At, Goto, fields, permits, os, back, history
<1>8. CASE Shutdown(r)
  BY <1>8 DEF Shutdown, At, Goto, Finalizing, fields, permits, os, back, history
<1>9. CASE Spawn(r)
  BY <1>9 DEF Spawn, At, Goto, AfterEmit, fields, permits, os, back, history
<1>10. CASE SpawnFails(r)
  BY <1>10 DEF SpawnFails, At, Goto, fields, permits, os, back, history
<1>11. CASE Hello(r)
  BY <1>11 DEF Hello, At, Goto, AfterEmit, fields, permits, os, back, history
<1>12. CASE Ready(r)
  BY <1>12 DEF Ready, At, Goto, AfterEmit, fields, permits, os, back, history
<1>13. CASE Enter(r)
  BY <1>13 DEF Enter, At, Goto, fields, permits, os, back, history
<1>14. CASE Served(r)
  BY <1>14 DEF Served, At, Goto, fields, permits, os, back, history
<1>15. CASE ExchangeFails(r)
  BY <1>15 DEF ExchangeFails, At, Goto, Exchanging, Handler, fields, permits, os,
       back, history
<1>16. CASE FrameTooLarge(r)
  BY <1>16 DEF FrameTooLarge, At, Goto, Exchanging, Handler, Claimable, fields,
       permits, os, back, history
<1>17. CASE ReportOversize(r)
  BY <1>17 DEF ReportOversize, At, Goto, Handler, Report, fields, permits, os, back,
       history
<1>18. CASE Interrupted(r)
  BY <1>18 DEF Interrupted, At, Goto, Exchanging, Finalizing, fields, permits, os,
       back, history
<1>19. CASE Except(r)
  BY <1>19 DEF Except, At, Goto, Reap, fields, permits, os, back, history
<1>20. CASE Fail(r)
  BY <1>20 DEF Fail, At, Goto, Report, Finalizing, fields, permits, os, back, history
<1>21. CASE Leave(r)
  BY <1>21 DEF Leave, At, Goto, Finalizing, fields, permits, os, back, history
<1>22. CASE SayBye(r)
  BY <1>22 DEF SayBye, At, Goto, fields, permits, os, back, history
<1>23. CASE Acknowledged(r)
  BY <1>23 DEF Acknowledged, At, Goto, fields, permits, os, back, history
<1>24. CASE Graceful(r)
  BY <1>24 DEF Graceful, At, Goto, TermLockFree, Reap, Finalizing, fields, permits,
       os, back, history
<1>25. CASE WrongStatus(r)
  BY <1>25 DEF WrongStatus, At, Goto, Reap, ForceStop, Terminating, fields, permits,
       os, back, history
<1>26. CASE ShutdownFails(r)
  BY <1>26 DEF ShutdownFails, At, Goto, Report, ForceStop, Terminating, fields,
       permits, os, back, history
<1>27. CASE Goodbye(r)
  BY <1>27 DEF Goodbye, At, Goto, Report, fields, permits, os, back, history
<1>28. CASE WatchEnds(r)
  BY <1>28 DEF WatchEnds, At, Goto, fields, permits, os, back, history
<1>29. CASE Gate(r)
  BY <1>29 DEF Gate, At, Goto, fields, permits, os, back, history
<1>30. CASE Poll(r)
  BY <1>30 DEF Poll, At, Goto, Reap, fields, permits, os, back, history
<1>31. CASE ClaimWallClock(r)
  BY <1>31 DEF ClaimWallClock, At, Goto, Claimable, fields, permits, os, back, history
<1>32. CASE ReportWallClock(r)
  BY <1>32 DEF ReportWallClock, At, Goto, Report, Terminating, fields, permits, os,
       back, history
<1>33. CASE IdleCheck(r)
  BY <1>33 DEF IdleCheck, At, Goto, Finalizing, fields, permits, os, back, history
<1>34. ASSUME NEW t \in Thread, Terminate(r, t) PROVE FieldsTyped'
  BY <1>34 DEF Terminate, At, Goto, TermLockFree, Signal, fields, permits, os, back,
       history
<1>35. ASSUME NEW t \in Thread, Grace(r, t) PROVE FieldsTyped'
  BY <1>35 DEF Grace, At, Goto, Reap, fields, permits, os, back, history
<1>36. ASSUME NEW t \in Thread, Kill(r, t) PROVE FieldsTyped'
  BY <1>36 DEF Kill, At, Goto, Signal, fields, permits, os, back, history
<1>37. ASSUME NEW t \in Thread, LastWait(r, t) PROVE FieldsTyped'
  BY <1>37, SMTT(40) DEF LastWait, At, Goto, Reap, fields, permits, os, back, history
<1>38. ASSUME NEW t \in Thread, Cancel(r, t) PROVE FieldsTyped'
  BY <1>38 DEF Cancel, At, Goto, fields, permits, os, back, history
<1>39. ASSUME NEW t \in Thread, Join(r, t) PROVE FieldsTyped'
  BY <1>39 DEF Join, At, Goto, Joined, FinalizeLockFree, Terminating, fields, permits,
       os, back, history
<1>40. ASSUME NEW t \in Thread, Clean(r, t) PROVE FieldsTyped'
  BY <1>40 DEF Clean, At, Goto, fields, permits, os, back, history
<1>41. ASSUME NEW t \in Thread, Settle(r, t) PROVE FieldsTyped'
  BY <1>41 DEF Settle, At, Goto, ThreadTypes, fields, permits, os, back, history
<1> QED
  BY <1>1, <1>2, <1>3, <1>4, <1>5, <1>6, <1>7, <1>8, <1>9, <1>10, <1>11, <1>12, <1>13,
       <1>14, <1>15, <1>16, <1>17, <1>18, <1>19, <1>20, <1>21, <1>22, <1>23, <1>24,
       <1>25, <1>26, <1>27, <1>28, <1>29, <1>30, <1>31, <1>32, <1>33, <1>34, <1>35,
       <1>36, <1>37, <1>38, <1>39, <1>40, <1>41 DEF Move, Child, Operation, Caller,
       Watchdog, Shared, Thread

\* Every step keeps child, group and history in their types.
LEMMA OsTypesStep ==
    ASSUME RuntimeTypeOK, NEW r \in Runtime, Move(r)
    PROVE  OsTypes' /\ HistoryTypes'
<1> USE DEF RuntimeTypeOK, OsTypes, HistoryTypes
<1>1. CASE ChildExits(r)
  BY <1>1 DEF ChildExits, At, Goto, fields, permits, os, back, history
<1>2. CASE ChildForks(r)
  BY <1>2 DEF ChildForks, At, Goto, fields, permits, os, back, history
<1>3. CASE DescendantsExit(r)
  BY <1>3 DEF DescendantsExit, At, Goto, fields, permits, os, back, history
<1>4. CASE Recycle(r)
  BY <1>4 DEF Recycle, At, Goto, fields, permits, os, back, history
<1>5. CASE Start(r)
  BY <1>5 DEF Start, At, Goto, fields, permits, os, back, history
<1>6. CASE ServeOnce(r)
  BY <1>6 DEF ServeOnce, At, Goto, fields, permits, os, back, history
<1>7. CASE ShutdownUnstarted(r)
  BY <1>7 DEF ShutdownUnstarted, At, Goto, fields, permits, os, back, history
<1>8. CASE Shutdown(r)
  BY <1>8 DEF Shutdown, At, Goto, Finalizing, fields, permits, os, back, history
<1>9. CASE Spawn(r)
  BY <1>9 DEF Spawn, At, Goto, AfterEmit, fields, permits, os, back, history
<1>10. CASE SpawnFails(r)
  BY <1>10 DEF SpawnFails, At, Goto, fields, permits, os, back, history
<1>11. CASE Hello(r)
  BY <1>11 DEF Hello, At, Goto, AfterEmit, fields, permits, os, back, history
<1>12. CASE Ready(r)
  BY <1>12 DEF Ready, At, Goto, AfterEmit, fields, permits, os, back, history
<1>13. CASE Enter(r)
  BY <1>13 DEF Enter, At, Goto, fields, permits, os, back, history
<1>14. CASE Served(r)
  BY <1>14 DEF Served, At, Goto, fields, permits, os, back, history
<1>15. CASE ExchangeFails(r)
  BY <1>15 DEF ExchangeFails, At, Goto, Exchanging, Handler, fields, permits, os,
       back, history
<1>16. CASE FrameTooLarge(r)
  BY <1>16 DEF FrameTooLarge, At, Goto, Exchanging, Handler, Claimable, fields,
       permits, os, back, history
<1>17. CASE ReportOversize(r)
  BY <1>17 DEF ReportOversize, At, Goto, Handler, Report, fields, permits, os, back,
       history
<1>18. CASE Interrupted(r)
  BY <1>18 DEF Interrupted, At, Goto, Exchanging, Finalizing, fields, permits, os,
       back, history
<1>19. CASE Except(r)
  BY <1>19 DEF Except, At, Goto, Reap, fields, permits, os, back, history
<1>20. CASE Fail(r)
  BY <1>20 DEF Fail, At, Goto, Report, Finalizing, fields, permits, os, back, history
<1>21. CASE Leave(r)
  BY <1>21 DEF Leave, At, Goto, Finalizing, fields, permits, os, back, history
<1>22. CASE SayBye(r)
  BY <1>22 DEF SayBye, At, Goto, fields, permits, os, back, history
<1>23. CASE Acknowledged(r)
  BY <1>23 DEF Acknowledged, At, Goto, fields, permits, os, back, history
<1>24. CASE Graceful(r)
  BY <1>24 DEF Graceful, At, Goto, TermLockFree, Reap, Finalizing, fields, permits,
       os, back, history
<1>25. CASE WrongStatus(r)
  BY <1>25 DEF WrongStatus, At, Goto, Reap, ForceStop, Terminating, fields, permits,
       os, back, history
<1>26. CASE ShutdownFails(r)
  BY <1>26 DEF ShutdownFails, At, Goto, Report, ForceStop, Terminating, fields,
       permits, os, back, history
<1>27. CASE Goodbye(r)
  BY <1>27 DEF Goodbye, At, Goto, Report, fields, permits, os, back, history
<1>28. CASE WatchEnds(r)
  BY <1>28 DEF WatchEnds, At, Goto, fields, permits, os, back, history
<1>29. CASE Gate(r)
  BY <1>29 DEF Gate, At, Goto, fields, permits, os, back, history
<1>30. CASE Poll(r)
  BY <1>30 DEF Poll, At, Goto, Reap, fields, permits, os, back, history
<1>31. CASE ClaimWallClock(r)
  BY <1>31 DEF ClaimWallClock, At, Goto, Claimable, fields, permits, os, back, history
<1>32. CASE ReportWallClock(r)
  BY <1>32 DEF ReportWallClock, At, Goto, Report, Terminating, fields, permits, os,
       back, history
<1>33. CASE IdleCheck(r)
  BY <1>33 DEF IdleCheck, At, Goto, Finalizing, fields, permits, os, back, history
<1>34. ASSUME NEW t \in Thread, Terminate(r, t) PROVE OsTypes' /\ HistoryTypes'
  <2>1. leader' \in [Runtime -> {"none", "alive", "zombie", "reaped"}]
    BY <1>34 DEF Terminate, At, Goto, TermLockFree, Signal, fields, permits, os, back,
         history
  <2>2. kin' \in [Runtime -> BOOLEAN]
    BY <1>34 DEF Terminate, At, Goto, TermLockFree, Signal, fields, permits, os, back,
         history
  <2>3. hit' \in [Runtime -> SUBSET {"TERM", "KILL"}]
    BY <1>34 DEF Terminate, At, Goto, TermLockFree, Signal, fields, permits, os, back,
         history
  <2>4. UNCHANGED <<exit0, stranger, handles, reported>>
    BY <1>34 DEF Terminate, At, Goto, TermLockFree, Signal, fields, permits, os, back,
         history
  <2> QED
    BY <2>1, <2>2, <2>3, <2>4
<1>35. ASSUME NEW t \in Thread, Grace(r, t) PROVE OsTypes' /\ HistoryTypes'
  BY <1>35 DEF Grace, At, Goto, Reap, fields, permits, os, back, history
<1>36. ASSUME NEW t \in Thread, Kill(r, t) PROVE OsTypes' /\ HistoryTypes'
  BY <1>36 DEF Kill, At, Goto, Signal, fields, permits, os, back, history
<1>37. ASSUME NEW t \in Thread, LastWait(r, t) PROVE OsTypes' /\ HistoryTypes'
  BY <1>37, SMTT(40) DEF LastWait, At, Goto, Reap, fields, permits, os, back, history
<1>38. ASSUME NEW t \in Thread, Cancel(r, t) PROVE OsTypes' /\ HistoryTypes'
  BY <1>38 DEF Cancel, At, Goto, fields, permits, os, back, history
<1>39. ASSUME NEW t \in Thread, Join(r, t) PROVE OsTypes' /\ HistoryTypes'
  BY <1>39 DEF Join, At, Goto, Joined, FinalizeLockFree, Terminating, fields, permits,
       os, back, history
<1>40. ASSUME NEW t \in Thread, Clean(r, t) PROVE OsTypes' /\ HistoryTypes'
  BY <1>40 DEF Clean, At, Goto, fields, permits, os, back, history
<1>41. ASSUME NEW t \in Thread, Settle(r, t) PROVE OsTypes' /\ HistoryTypes'
  BY <1>41 DEF Settle, At, Goto, fields, permits, os, back, history
<1> QED
  BY <1>1, <1>2, <1>3, <1>4, <1>5, <1>6, <1>7, <1>8, <1>9, <1>10, <1>11, <1>12, <1>13,
       <1>14, <1>15, <1>16, <1>17, <1>18, <1>19, <1>20, <1>21, <1>22, <1>23, <1>24,
       <1>25, <1>26, <1>27, <1>28, <1>29, <1>30, <1>31, <1>32, <1>33, <1>34, <1>35,
       <1>36, <1>37, <1>38, <1>39, <1>40, <1>41 DEF Move, Child, Operation, Caller,
       Watchdog, Shared, Thread

\* A jump to a label keeps the program counters in their type.
LEMMA GotoTyped ==
    ASSUME ThreadTypes, NEW r \in Runtime, NEW t \in Thread, NEW label \in Label,
           Goto(r, t, label)
    PROVE  pc' \in [Runtime -> [Thread -> Label]]
BY DEF ThreadTypes, Goto

\* A call of _terminate_process does so too.
LEMMA TerminatingTyped ==
    ASSUME ThreadTypes, NEW r \in Runtime, NEW t \in Thread,
           NEW after \in {"clean", "cancel", "idleCheck"}, Terminating(r, t, after)
    PROVE  /\ pc' \in [Runtime -> [Thread -> Label]]
           /\ termBack' \in [Runtime -> [Thread -> {"clean", "cancel", "idleCheck"}]]
<1>1. "term" \in Label
  BY DEF Label, TermLabels
<1>2. pc' \in [Runtime -> [Thread -> Label]]
  BY <1>1, GotoTyped DEF Terminating
<1> QED
  BY <1>2 DEF Terminating, ThreadTypes

\* And so does a call of _finalize.
LEMMA FinalizingTyped ==
    ASSUME ThreadTypes, NEW r \in Runtime, NEW t \in Thread,
           NEW outcome \in {"stopped", "failed"},
           NEW after \in {"leave", "idle", "goodbye", "ended"},
           Finalizing(r, t, outcome, after)
    PROVE  /\ pc' \in [Runtime -> [Thread -> Label]]
           /\ termBack' \in [Runtime -> [Thread -> {"clean", "cancel", "idleCheck"}]]
           /\ finBack' \in [Runtime -> [Thread -> {"leave", "idle", "goodbye", "ended"}]]
           /\ final' \in [Runtime -> [Thread -> {"stopped", "failed"}]]
<1>1. "cancel" \in Label
  BY DEF Label, FinalLabels
<1>2. pc' \in [Runtime -> [Thread -> Label]]
  BY <1>1, GotoTyped DEF Finalizing
<1>3. finBack' \in [Runtime -> [Thread -> {"leave", "idle", "goodbye", "ended"}]]
  BY DEF Finalizing, ThreadTypes
<1>4. final' \in [Runtime -> [Thread -> {"stopped", "failed"}]]
  BY DEF Finalizing, ThreadTypes
<1> QED
  BY <1>2, <1>3, <1>4 DEF Finalizing, ThreadTypes

\* Every step keeps the labels of the threads in their types.
LEMMA ThreadTypesStep ==
    ASSUME RuntimeTypeOK, ~SinkMayRaise, NEW r \in Runtime, Good(r), Move(r)
    PROVE  ThreadTypes'
<1> USE DEF RuntimeTypeOK, ThreadTypes, Label, Thread, CallerLabels, WatchdogLabels,
     TermLabels, FinalLabels
<1>1. CASE ChildExits(r)
  BY <1>1 DEF ChildExits, back
<1>2. CASE ChildForks(r)
  BY <1>2 DEF ChildForks, back
<1>3. CASE DescendantsExit(r)
  BY <1>3 DEF DescendantsExit, back
<1>4. CASE Recycle(r)
  BY <1>4 DEF Recycle, back
<1>5. CASE Start(r)
  BY <1>5, GotoTyped DEF Start, back
<1>6. CASE ServeOnce(r)
  BY <1>6, GotoTyped DEF ServeOnce, back
<1>7. CASE ShutdownUnstarted(r)
  BY <1>7 DEF ShutdownUnstarted, back
<1>8. CASE Shutdown(r)
  <2>1. UNCHANGED cancelled
    BY <1>8, SMTT(40) DEF Shutdown, history
  <2>2. CASE violation[r] = "none"
    BY <1>8, <2>1, <2>2, GotoTyped, TerminatingTyped, FinalizingTyped, SMTT(40) DEF Shutdown, back
  <2>3. CASE ~(violation[r] = "none")
    BY <1>8, <2>1, <2>3, GotoTyped, TerminatingTyped, FinalizingTyped DEF Shutdown, back
  <2> QED
    BY <2>2, <2>3
<1>9. CASE Spawn(r)
  BY <1>9 DEF Spawn, At, Goto, AfterEmit, fields, permits, os, back, history
<1>10. CASE SpawnFails(r)
  BY <1>10, GotoTyped DEF SpawnFails, back
<1>11. CASE Hello(r)
  BY <1>11 DEF Hello, At, Goto, AfterEmit, fields, permits, os, back, history
<1>12. CASE Ready(r)
  BY <1>12 DEF Ready, At, Goto, AfterEmit, fields, permits, os, back, history
<1>13. CASE Enter(r)
  BY <1>13, GotoTyped DEF Enter, back
<1>14. CASE Served(r)
  BY <1>14, GotoTyped DEF Served, back
<1>15. CASE ExchangeFails(r)
  BY <1>15, GotoTyped DEF ExchangeFails, Handler, back
<1>16. CASE FrameTooLarge(r)
  BY <1>16, GotoTyped DEF FrameTooLarge, Handler, back
<1>17. CASE ReportOversize(r)
  BY <1>17, GotoTyped DEF ReportOversize, Handler, back
<1>18. CASE Interrupted(r)
  BY <1>18, FinalizingTyped DEF Interrupted, back
<1>19. CASE Except(r)
  BY <1>19, GotoTyped DEF Except, back
<1>20. CASE Fail(r)
  <2>1. UNCHANGED cancelled
    BY <1>20 DEF Fail, history
  <2>2. CASE pc'[r]["caller"] = "cancel"
    BY <1>20, <2>1, <2>2, GotoTyped, TerminatingTyped, FinalizingTyped DEF Fail, back
  <2>3. CASE ~(pc'[r]["caller"] = "cancel")
    BY <1>20, <2>1, <2>3, GotoTyped, TerminatingTyped, FinalizingTyped DEF Fail, back
  <2> QED
    BY <2>2, <2>3
<1>21. CASE Leave(r)
  <2>1. UNCHANGED cancelled
    BY <1>21, SMTT(40) DEF Leave, history
  <2>2. CASE violation[r] # "none" /\ ~finalized[r]
    BY <1>21, <2>1, <2>2, GotoTyped, TerminatingTyped, FinalizingTyped DEF Leave, back
  <2>3. CASE ~(violation[r] # "none" /\ ~finalized[r])
    BY <1>21, <2>1, <2>3, GotoTyped, TerminatingTyped, FinalizingTyped DEF Leave, back
  <2> QED
    BY <2>2, <2>3
<1>22. CASE SayBye(r)
  BY <1>22, GotoTyped DEF SayBye, back
<1>23. CASE Acknowledged(r)
  BY <1>23, GotoTyped DEF Acknowledged, back
<1>24. CASE Graceful(r)
  BY <1>24, FinalizingTyped DEF Graceful, back
<1>25. CASE WrongStatus(r)
  BY <1>25 DEF WrongStatus, At, Goto, Reap, ForceStop, Terminating, fields, permits,
       os, back, history
<1>26. CASE ShutdownFails(r)
  BY <1>26 DEF ShutdownFails, At, Goto, Report, ForceStop, Terminating, fields,
       permits, os, back, history
<1>27. CASE Goodbye(r)
  BY <1>27, GotoTyped DEF Goodbye, back
<1>28. CASE WatchEnds(r)
  BY <1>28, GotoTyped DEF WatchEnds, back
<1>29. CASE Gate(r)
  BY <1>29, GotoTyped DEF Gate, back
<1>30. CASE Poll(r)
  BY <1>30, GotoTyped DEF Poll, back
<1>31. CASE ClaimWallClock(r)
  BY <1>31, GotoTyped DEF ClaimWallClock, back
<1>32. CASE ReportWallClock(r)
  BY <1>32, TerminatingTyped DEF ReportWallClock, back
<1>33. CASE IdleCheck(r)
  <2>1. UNCHANGED cancelled
    BY <1>33 DEF IdleCheck, history
  <2>2. CASE busy[r] = 0
    BY <1>33, <2>1, <2>2, GotoTyped, TerminatingTyped, FinalizingTyped, SMTT(40) DEF IdleCheck,
         back
  <2>3. CASE ~(busy[r] = 0)
    BY <1>33, <2>1, <2>3, GotoTyped, TerminatingTyped, FinalizingTyped DEF IdleCheck,
         back
  <2> QED
    BY <2>2, <2>3
<1>34. ASSUME NEW t \in Thread, Terminate(r, t) PROVE ThreadTypes'
  <2>1. UNCHANGED cancelled /\ termBack[r][t] \in Label
    BY <1>34 DEF Terminate, history
  <2>2. CASE leader[r] = "none" \/ groupReleased[r]
    BY <1>34, <2>1, <2>2, GotoTyped, TerminatingTyped, FinalizingTyped, SMTT(40) DEF Terminate,
         back
  <2>3. CASE ~(leader[r] = "none" \/ groupReleased[r])
    BY <1>34, <2>1, <2>3, GotoTyped, TerminatingTyped, FinalizingTyped DEF Terminate,
         back
  <2> QED
    BY <2>2, <2>3
<1>35. ASSUME NEW t \in Thread, Grace(r, t) PROVE ThreadTypes'
  BY <1>35, GotoTyped DEF Grace, back
<1>36. ASSUME NEW t \in Thread, Kill(r, t) PROVE ThreadTypes'
  BY <1>36, GotoTyped DEF Kill, back
<1>37. ASSUME NEW t \in Thread, LastWait(r, t) PROVE ThreadTypes'
  <2>1. termBack[r][t] \in Label
    OBVIOUS
  <2> QED
    BY <1>37, <2>1, GotoTyped, SMTT(40) DEF LastWait, back
<1>38. ASSUME NEW t \in Thread, Cancel(r, t) PROVE ThreadTypes'
  BY <1>38, GotoTyped DEF Cancel, back
<1>39. ASSUME NEW t \in Thread, Join(r, t) PROVE ThreadTypes'
  <2>1. UNCHANGED cancelled /\ finBack[r][t] \in Label
    BY <1>39, SMTT(40) DEF Join, history
  <2>2. CASE finalized[r]
    BY <1>39, <2>1, <2>2, GotoTyped, TerminatingTyped, FinalizingTyped, SMTT(40) DEF Join, back
  <2>3. CASE ~(finalized[r])
    BY <1>39, <2>1, <2>3, GotoTyped, TerminatingTyped, FinalizingTyped DEF Join, back
  <2> QED
    BY <2>2, <2>3
<1>40. ASSUME NEW t \in Thread, Clean(r, t) PROVE ThreadTypes'
  BY <1>40, GotoTyped, SMTT(40) DEF Clean, back
<1>41. ASSUME NEW t \in Thread, Settle(r, t) PROVE ThreadTypes'
  <2>1. finBack[r][t] \in Label
    OBVIOUS
  <2> QED
    BY <1>41, <2>1, GotoTyped DEF Settle, back
<1> QED
  BY <1>1, <1>2, <1>3, <1>4, <1>5, <1>6, <1>7, <1>8, <1>9, <1>10, <1>11, <1>12, <1>13,
       <1>14, <1>15, <1>16, <1>17, <1>18, <1>19, <1>20, <1>21, <1>22, <1>23, <1>24,
       <1>25, <1>26, <1>27, <1>28, <1>29, <1>30, <1>31, <1>32, <1>33, <1>34, <1>35,
       <1>36, <1>37, <1>38, <1>39, <1>40, <1>41 DEF Move, Child, Operation, Caller,
       Watchdog, Shared, Thread

(***************************************************************************)
(* The invariant.                                                          *)
(***************************************************************************)
\* A fresh process: no runtime has been started.
LEMMA Initially == RuntimeInit => RuntimeInv
<1> SUFFICES ASSUME RuntimeInit PROVE RuntimeInv
  OBVIOUS
<1>1. RuntimeTypeOK
  BY DEF RuntimeInit, RuntimeTypeOK, FieldTypes, OsTypes, ThreadTypes, HistoryTypes, State, Violation,
         Thread, Label, CallerLabels, WatchdogLabels
<1>2. {r \in Runtime : permit[r]} = {}
  BY DEF RuntimeInit
<1>3. PermitsBalance
  <2>1. Cardinality({}) = 0 /\ active = 0 /\ 0 <= Limit
    BY FS_EmptySet, LimitAssumption DEF RuntimeInit
  <2> QED
    BY <1>2, <2>1 DEF PermitsBalance
<1>4. ASSUME NEW r \in Runtime PROVE Good(r)
  BY DEF RuntimeInit, Good, Labels, Busy, Stages, Claims, Outcome, Containment, InTerm,
       InFinal,
         Finishing, Thread, CallerLabels, WatchdogLabels, TermLabels, FinalLabels
<1> QED
  BY <1>1, <1>3, <1>4 DEF RuntimeInv

\* The invariant is inductive when the event sink does not raise.
LEMMA Inductive ==
    ASSUME RuntimeInv, ~SinkMayRaise, [RuntimeNext]_runtimeVars
    PROVE  RuntimeInv'
<1>1. CASE UNCHANGED runtimeVars
  BY <1>1 DEF runtimeVars, fields, permits, os, back, history, RuntimeInv, RuntimeTypeOK, FieldTypes,
       OsTypes,
       ThreadTypes, HistoryTypes, PermitsBalance, Good, Labels, Busy, Stages, Claims,
       Outcome, Containment, InTerm, InFinal, Finishing
<1>2. ASSUME NEW r \in Runtime, Move(r) PROVE RuntimeInv'
  <2>1. RuntimeTypeOK /\ PermitsBalance /\ \A q \in Runtime : Good(q)
    BY DEF RuntimeInv
  <2>2. RuntimeTypeOK'
    BY <1>2, <2>1, FieldTypesStep, OsTypesStep, ThreadTypesStep, BalanceStep
       DEF RuntimeTypeOK, FieldTypes, FieldsTyped
  <2>3. PermitsBalance' /\ \A q \in Runtime : Good(q)'
    BY <1>2, <2>1, BalanceStep, GoodStep
  <2> QED
    BY <2>2, <2>3 DEF RuntimeInv
<1> QED
  BY <1>1, <1>2 DEF RuntimeNext, Move

\* The inductive invariant holds in every reachable state, for any number of
\* runtimes and any limit of the governor.
THEOREM RuntimeInvariance == ASSUME ~SinkMayRaise PROVE RuntimeSpec => []RuntimeInv
<1>1. RuntimeInv /\ [RuntimeNext]_runtimeVars => RuntimeInv'
  BY Inductive
<1> QED
  BY Initially, <1>1, PTL DEF RuntimeSpec

\* Type correctness of the runtime, its child and its threads.
THEOREM RuntimeTypeCorrect == ASSUME ~SinkMayRaise PROVE RuntimeSpec => []RuntimeTypeOK
<1>1. RuntimeInv => RuntimeTypeOK
  BY DEF RuntimeInv
<1> QED
  BY RuntimeInvariance, <1>1, PTL

\* Permits are neither lost nor given back twice, whatever the two threads of
\* each runtime do (supervisor.py, ConcurrencyGovernor).
THEOREM PermitsAreBalanced == ASSUME ~SinkMayRaise PROVE RuntimeSpec => []PermitsBalance
<1>1. RuntimeInv => PermitsBalance
  BY DEF RuntimeInv
<1> QED
  BY RuntimeInvariance, <1>1, PTL

\* Shutdown and violation exclude each other: the first one decides how the
\* runtime ends and what is reported (_claim_violation, shutdown).
THEOREM TheFirstDecides == ASSUME ~SinkMayRaise PROVE RuntimeSpec => []FirstClaimDecides
<1>1. RuntimeInv => FirstClaimDecides
  BY DEF RuntimeInv, Good, FirstClaimDecides, Claims, Outcome
<1> QED
  BY RuntimeInvariance, <1>1, PTL

\* The signals of _terminate_process end the descendants as well.
LEMMA DescendantsAreKilled == RuntimeInv => DescendantsKilled
BY DEF RuntimeInv, RuntimeTypeOK, OsTypes, Good, DescendantsKilled, Outcome, Containment

\* _finalize leaves no child, no descendant, no handle, no permit and no live
\* watchdog behind.
THEOREM FinalizedIsContained == ASSUME ~SinkMayRaise PROVE RuntimeSpec => []Contained
<1>1. RuntimeInv => Contained
  BY DescendantsAreKilled DEF RuntimeInv, Good, Contained, Stages, Containment
<1> QED
  BY RuntimeInvariance, <1>1, PTL

\* A claimed violation is finished by the watchdog or by the operation it hit.
THEOREM ViolationsAreFinished == ASSUME ~SinkMayRaise PROVE RuntimeSpec => []ViolationFinished
<1>1. RuntimeInv => ViolationFinished
  BY DEF RuntimeInv, Good, ViolationFinished, Outcome, TermLabels, FinalLabels
<1> QED
  BY RuntimeInvariance, <1>1, PTL

(***************************************************************************)
(* The contract.                                                           *)
(***************************************************************************)
\* Every step of a runtime is a step of the contract or changes nothing of it.
LEMMA RefinesStep ==
    ASSUME RuntimeTypeOK, NEW r \in Runtime, Good(r), Move(r)
    PROVE  Contract!Next \/ UNCHANGED Contract!vars
<1> USE DEF RuntimeTypeOK, FieldTypes
<1>1. CASE ChildExits(r)
  BY <1>1 DEF ChildExits, fields, permits, Contract!vars
<1>2. CASE ChildForks(r)
  BY <1>2 DEF ChildForks, fields, permits, Contract!vars
<1>3. CASE DescendantsExit(r)
  BY <1>3 DEF DescendantsExit, fields, permits, Contract!vars
<1>4. CASE Recycle(r)
  BY <1>4 DEF Recycle, fields, permits, Contract!vars
<1>5. CASE Start(r)
  BY <1>5 DEF Start, At, Goto, fields, permits, os, back, history, Contract!Begin,
       Contract!Next, Contract!vars, Good, Stages, Claims, Finishing, Exchanging,
       InTerm, InFinal
<1>6. CASE ServeOnce(r)
  BY <1>6 DEF ServeOnce, fields, permits, Contract!vars
<1>7. CASE ShutdownUnstarted(r)
  BY <1>7 DEF ShutdownUnstarted, At, Goto, fields, permits, os, back, history,
       Contract!Abandon, Contract!Next, Contract!vars, Good, Stages, Claims,
       Finishing, Exchanging, InTerm, InFinal
<1>8. CASE Shutdown(r)
  <2>1. CASE ~(violation[r] = "none")
    BY <1>8, <2>1 DEF Shutdown, At, Goto, Finalizing, fields, permits, Contract!vars
  <2>2. CASE violation[r] = "none"
    <3>1. closing' = [closing EXCEPT ![r] = TRUE] /\ permit[r]
      BY <1>8, <2>2 DEF Shutdown, At, Goto, Finalizing, Good, Stages, Claims
    <3>2. UNCHANGED <<state, permit, active, violation>>
      BY <1>8, <2>2 DEF Shutdown, fields, permits
    <3>3. violation[r] = "none" /\ ~closing[r]
      BY <1>8, <2>2 DEF Shutdown, At, Goto, Finalizing, Good, Stages, Claims
    <3>4. Contract!Claim(r, "shutdown")
      BY <3>1, <3>2, <3>3 DEF Contract!Claim
    <3> QED
      BY <3>4 DEF Contract!Next
  <2> QED
    BY <2>1, <2>2
<1>9. CASE Spawn(r)
  BY <1>9 DEF Spawn, At, Goto, AfterEmit, fields, permits, os, back, history,
       Contract!vars, Good, Stages
<1>10. CASE SpawnFails(r)
  BY <1>10 DEF SpawnFails, fields, permits, Contract!vars
<1>11. CASE Hello(r)
  BY <1>11 DEF Hello, fields, permits, Contract!vars
<1>12. CASE Ready(r)
  BY <1>12 DEF Ready, At, Goto, AfterEmit, fields, permits, os, back, history,
       Contract!vars, Good, Stages
<1>13. CASE Enter(r)
  BY <1>13 DEF Enter, fields, permits, Contract!vars
<1>14. CASE Served(r)
  BY <1>14 DEF Served, fields, permits, Contract!vars
<1>15. CASE ExchangeFails(r)
  BY <1>15 DEF ExchangeFails, fields, permits, Contract!vars
<1>16. CASE FrameTooLarge(r)
  <2>1. CASE ~(Claimable(r))
    BY <1>16, <2>1 DEF FrameTooLarge, At, Goto, Exchanging, Handler, Claimable,
         fields, permits, Contract!vars
  <2>2. CASE Claimable(r)
    <3>1. violation' = [violation EXCEPT ![r] = "message_size"] /\ permit[r]
      BY <1>16, <2>2 DEF FrameTooLarge, At, Goto, Exchanging, Handler, Claimable,
           Exchanging, Good, Stages
    <3>2. UNCHANGED <<state, permit, active, closing>>
      BY <1>16, <2>2 DEF FrameTooLarge, fields, permits
    <3>3. violation[r] = "none" /\ ~closing[r]
      BY <1>16, <2>2 DEF FrameTooLarge, At, Goto, Exchanging, Handler, Claimable,
           Exchanging, Good, Stages
    <3>4. Contract!Claim(r, "resource")
      BY <3>1, <3>2, <3>3 DEF Contract!Claim
    <3> QED
      BY <3>4 DEF Contract!Next
  <2> QED
    BY <2>1, <2>2
<1>17. CASE ReportOversize(r)
  BY <1>17 DEF ReportOversize, fields, permits, Contract!vars
<1>18. CASE Interrupted(r)
  BY <1>18 DEF Interrupted, fields, permits, Contract!vars
<1>19. CASE Except(r)
  BY <1>19 DEF Except, fields, permits, Contract!vars
<1>20. CASE Fail(r)
  BY <1>20 DEF Fail, fields, permits, Contract!vars
<1>21. CASE Leave(r)
  BY <1>21 DEF Leave, fields, permits, Contract!vars
<1>22. CASE SayBye(r)
  BY <1>22 DEF SayBye, fields, permits, Contract!vars
<1>23. CASE Acknowledged(r)
  BY <1>23 DEF Acknowledged, fields, permits, Contract!vars
<1>24. CASE Graceful(r)
  BY <1>24 DEF Graceful, fields, permits, Contract!vars
<1>25. CASE WrongStatus(r)
  BY <1>25 DEF WrongStatus, fields, permits, Contract!vars
<1>26. CASE ShutdownFails(r)
  BY <1>26 DEF ShutdownFails, fields, permits, Contract!vars
<1>27. CASE Goodbye(r)
  BY <1>27 DEF Goodbye, fields, permits, Contract!vars
<1>28. CASE WatchEnds(r)
  BY <1>28 DEF WatchEnds, fields, permits, Contract!vars
<1>29. CASE Gate(r)
  BY <1>29 DEF Gate, fields, permits, Contract!vars
<1>30. CASE Poll(r)
  BY <1>30 DEF Poll, fields, permits, Contract!vars
<1>31. CASE ClaimWallClock(r)
  <2>1. CASE ~(Claimable(r))
    BY <1>31, <2>1 DEF ClaimWallClock, At, Goto, Claimable, fields, permits,
         Contract!vars
  <2>2. CASE Claimable(r)
    <3>1. violation' = [violation EXCEPT ![r] = "wall_clock"] /\ permit[r]
      BY <1>31, <2>2 DEF ClaimWallClock, At, Goto, Claimable, Good, Stages
    <3>2. UNCHANGED <<state, permit, active, closing>>
      BY <1>31, <2>2 DEF ClaimWallClock, fields, permits
    <3>3. violation[r] = "none" /\ ~closing[r]
      BY <1>31, <2>2 DEF ClaimWallClock, At, Goto, Claimable, Good, Stages
    <3>4. Contract!Claim(r, "resource")
      BY <3>1, <3>2, <3>3 DEF Contract!Claim
    <3> QED
      BY <3>4 DEF Contract!Next
  <2> QED
    BY <2>1, <2>2
<1>32. CASE ReportWallClock(r)
  BY <1>32 DEF ReportWallClock, fields, permits, Contract!vars
<1>33. CASE IdleCheck(r)
  BY <1>33 DEF IdleCheck, fields, permits, Contract!vars
<1>34. ASSUME NEW t \in Thread, Terminate(r, t) PROVE Contract!Next \/ UNCHANGED Contract!vars
  BY <1>34 DEF Terminate, fields, permits, Contract!vars
<1>35. ASSUME NEW t \in Thread, Grace(r, t) PROVE Contract!Next \/ UNCHANGED Contract!vars
  BY <1>35 DEF Grace, fields, permits, Contract!vars
<1>36. ASSUME NEW t \in Thread, Kill(r, t) PROVE Contract!Next \/ UNCHANGED Contract!vars
  BY <1>36 DEF Kill, fields, permits, Contract!vars
<1>37. ASSUME NEW t \in Thread, LastWait(r, t) PROVE Contract!Next \/ UNCHANGED Contract!vars
  BY <1>37, SMTT(40) DEF LastWait, fields, permits, Contract!vars
<1>38. ASSUME NEW t \in Thread, Cancel(r, t) PROVE Contract!Next \/ UNCHANGED Contract!vars
  BY <1>38 DEF Cancel, fields, permits, Contract!vars
<1>39. ASSUME NEW t \in Thread, Join(r, t) PROVE Contract!Next \/ UNCHANGED Contract!vars
  BY <1>39 DEF Join, fields, permits, Contract!vars
<1>40. ASSUME NEW t \in Thread, Clean(r, t) PROVE Contract!Next \/ UNCHANGED Contract!vars
  BY <1>40 DEF Clean, fields, permits, Contract!vars
<1>41. ASSUME NEW t \in Thread, Settle(r, t) PROVE Contract!Next \/ UNCHANGED Contract!vars
  <2>1. permit[r] /\ final[r][t] = (IF closing[r] THEN "stopped" ELSE "failed")
    BY <1>41 DEF Settle, At, Thread, Good, Claims, Finishing, InTerm, InFinal,
         FinalLabels
  <2>2. /\ active' = active - 1 /\ permit' = [permit EXCEPT ![r] = FALSE]
        /\ state' = [state EXCEPT ![r] = final[r][t]]
        /\ UNCHANGED <<violation, closing>>
    BY <1>41, <2>1 DEF Settle, fields
  <2>3. ~(closing[r] /\ violation[r] # "none")
    BY DEF Good, Claims
  <2>4. Contract!End(r)
    BY <2>1, <2>2, <2>3 DEF Contract!End
  <2> QED
    BY <2>4 DEF Contract!Next
<1> QED
  BY <1>1, <1>2, <1>3, <1>4, <1>5, <1>6, <1>7, <1>8, <1>9, <1>10, <1>11, <1>12, <1>13,
       <1>14, <1>15, <1>16, <1>17, <1>18, <1>19, <1>20, <1>21, <1>22, <1>23, <1>24,
       <1>25, <1>26, <1>27, <1>28, <1>29, <1>30, <1>31, <1>32, <1>33, <1>34, <1>35,
       <1>36, <1>37, <1>38, <1>39, <1>40, <1>41 DEF Move, Child, Operation, Caller,
       Watchdog, Shared, Thread

\* The two threads of every runtime together implement the documented lifecycle.
THEOREM ImplementsContract == ASSUME ~SinkMayRaise PROVE RuntimeSpec => ContractHolds
<1>1. RuntimeInit => Contract!Init
  BY DEF RuntimeInit, Contract!Init
<1>2. RuntimeInv /\ [RuntimeNext]_runtimeVars => [Contract!Next]_(Contract!vars)
  <2> SUFFICES ASSUME RuntimeInv, [RuntimeNext]_runtimeVars
               PROVE  Contract!Next \/ UNCHANGED Contract!vars
    OBVIOUS
  <2>1. CASE UNCHANGED runtimeVars
    BY <2>1 DEF runtimeVars, fields, permits, Contract!vars
  <2>2. ASSUME NEW r \in Runtime, Move(r) PROVE Contract!Next \/ UNCHANGED Contract!vars
    BY <2>2, RefinesStep DEF RuntimeInv
  <2> QED
    BY <2>1, <2>2 DEF RuntimeNext, Move
<1> QED
  BY <1>1, <1>2, RuntimeInvariance, PTL DEF RuntimeSpec, ContractHolds, Contract!Spec
=============================================================================
