-------------------------- MODULE SubstitutionProofs --------------------------
(***************************************************************************)
(* Theorems about Substitution, for every depth of nesting, any number of  *)
(* nested shells, any programs they leave behind, and every limit and pipe.*)
(***************************************************************************)
EXTENDS Substitution, TLAPS

(***************************************************************************)
(* The inductive invariant.  Family says who has been born and who may be  *)
(* signalled; Runners, that a runner at work lives and what it may know of *)
(* its child, and that no child with a living parent is left to nobody;    *)
(* Domain, that whatever lives below the user's shell is in the one group  *)
(* that shell is at work on, which is why one killpg sweeps it, or in one  *)
(* that a Ctrl+C left before the kill (Unkilled).                          *)
(***************************************************************************)
Gathers == {"read", "sweep", "drain_out", "drain_err", "kill"}
Active  == Gathers \cup {"wait"}

Family ==
    /\ life[0] = "running" /\ ~contained[0]
    /\ \A p \in Child : life[p] = "none" <=> p > calls
    /\ \A p \in Child : p <= calls => parent[p] < p
    /\ \A p \in Child : p > calls => grp[p] = None /\ lost[p] = "no"
    /\ \A p \in Child : reused[p] # "no" => life[p] = "gone"
    /\ \A p \in Child : reused[p] # "killed"
    /\ \A p \in Child : life[p] = "booting" => claim[p] = "granted"
    /\ \A p \in Child : life[p] = "running" => contained[p]

Tended(p) ==
    life[p] \in {"booting", "running", "zombie"} /\ Alive(parent[p]) /\ lost[p] = "no"
      => child[parent[p]] = p /\ pc[parent[p]] \in Active

Runners ==
    /\ \A r \in Process : pc[r] # "idle" => life[r] = "running"
    /\ \A r \in Process : pc[r] = "idle" => fds[r] = {}
    /\ \A r \in Process : child[r] # None =>
          /\ r < child[r] /\ child[r] <= calls /\ parent[child[r]] = r
          /\ lost[child[r]] = "no"
    /\ \A r \in Process : pc[r] \in Active => child[r] # None
    /\ \A r \in Process :
          pc[r] \in Gathers => life[child[r]] \in {"booting", "running", "zombie"}
    /\ \A r \in Process :
          pc[r] \in {"sweep", "drain_out", "drain_err"} => life[child[r]] = "zombie"
    /\ \A p \in Child : Tended(p)

InDomain(g) == g = child[0] /\ g # None /\ pc[0] \in Gathers

Held(g) == InDomain(g) \/ Unkilled(g)

Domain ==
    /\ \A p \in Child : Alive(p) => Held(grp[p])
    /\ \A k \in Kin : kin[k].alive /\ kin[k].grp # None => Held(kin[k].grp)

\* Before a runner gives up, what it has read is within the limits.
Buffers ==
    \A r \in Process, s \in Stream :
        /\ buf[r][s] <= Limit[s] + Capacity
        /\ pc[r] \notin {"kill", "wait", "close"} => buf[r][s] <= Limit[s]

\* A runner that saw the exit and emptied the pipe of the output has all of it.
Texts ==
    \A r \in Process :
        /\ text[r] # "part"
        /\ pc[r] \in {"drain_err", "kill", "wait", "close"} /\ ended[r] = "exited" =>
             /\ child[r] # None /\ life[child[r]] \in {"zombie", "gone"}
             /\ pipe[child[r]]["stdout"].lead = 0

IInv == TypeOK /\ Family /\ Runners /\ Domain /\ Buffers /\ Texts

(***************************************************************************)
(* TypeOK in five parts, as a step changes them.                           *)
(***************************************************************************)
Programs == [alive : BOOLEAN, grp : Child \cup {None}, of : Child \cup {None}]

TypeTree ==
    /\ life \in [Process -> {"none", "booting", "running", "zombie", "gone"}]
    /\ depth \in [Process -> 0..MaxDepth] /\ parent \in [Child -> Process]
    /\ calls \in 0..MaxCalls
    /\ lost \in [Child -> {"no", "unreaped", "unkilled"}] /\ leaked \in BOOLEAN
    /\ child \in [Process -> Child \cup {None}] /\ grp \in [Child -> Child \cup {None}]
    /\ claim \in [Process -> {"none", "text", "granted"}]
    /\ contained \in [Process -> BOOLEAN]

TypeKin == kin \in [Kin -> Programs] /\ reused \in [Child -> {"no", "alive", "killed"}]

TypePipe ==
    /\ pipe \in [Child -> [Stream -> Units]]
    /\ \A q \in Child, t \in Stream : Total(pipe[q][t]) <= Capacity

TypeRun ==
    /\ pc \in [Process -> Pc] /\ late \in [Process -> BOOLEAN]
    /\ \A q \in Process : pc[q] # "idle" => depth[q] < MaxDepth

TypeBuf ==
    /\ ended \in [Process -> Ended] /\ text \in [Process -> {"whole", "part", "empty"}]
    /\ buf \in [Process -> [Stream -> Nat]]
    /\ fds \in [Process -> SUBSET {"cap_read", "cap_write", "streams"}]

(***************************************************************************)
(* The steps in which processes die.                                       *)
(***************************************************************************)
Loses(dead) ==
    /\ dead \subseteq Child /\ \A p \in dead : Alive(p) /\ pc'[p] = "idle"
    /\ Die(dead) /\ Silenced(dead)
    /\ UNCHANGED <<family, claim, contained, reused, pipe, text>>
    /\ \A q \in Process \ dead : \/ pc'[q] = pc[q]
                                 \/ pc[q] = "sweep" /\ pc'[q] = "drain_out"
                                 \/ pc[q] = "kill" /\ pc'[q] = "wait"

\* A nested shell that is started has never lived, and its starter has.
LEMMA Newborn ==
    ASSUME IInv, NEW r \in Process, pc[r] = "spawn", Forks(r, calls + 1)
    PROVE  /\ calls + 1 \in Child /\ r < calls + 1
           /\ life[r] = "running" /\ depth[r] < MaxDepth
           /\ depth[r] + 1 \in 0..MaxDepth
           /\ life[calls + 1] = "none" /\ pc[calls + 1] = "idle"
<1> USE DEF IInv, Process, Child
<1>1. calls \in Nat /\ calls + 1 \in Child /\ calls + 1 \in Process
  BY LimitAssumption DEF Forks, TypeOK
<1>2. pc[r] = "spawn" /\ life[r] = "running"
  BY DEF Runners
<1>3. depth[r] < MaxDepth /\ depth[r] \in 0..MaxDepth
  BY <1>2 DEF TypeOK
<1>4. depth[r] + 1 \in 0..MaxDepth
  BY <1>3, DepthAssumption
<1>5. life[calls + 1] = "none" /\ r < calls + 1
  <2>1. life[calls + 1] = "none"
    BY <1>1 DEF Family
  <2>2. r = 0 \/ r \in Child
    OBVIOUS
  <2>3. r \in Child => r <= calls
    BY <1>1, <1>2 DEF Family
  <2>4. QED
    BY <1>1, <2>1, <2>2, <2>3
<1>6. pc[calls + 1] = "idle"
  BY <1>1, <1>5 DEF Runners
<1>7. QED
  BY <1>1, <1>2, <1>3, <1>4, <1>5, <1>6

\* The nested shells of a nested shell are born into the domain.
LEMMA BornInto ==
    ASSUME IInv, NEW r \in Process, NEW p \in Child, life[r] = "running"
    PROVE  /\ GroupOf(r, p) \in Child
           /\ r = 0 => GroupOf(r, p) = p
           /\ r # 0 => Held(GroupOf(r, p))
<1> USE DEF IInv
<1>1. CASE r = 0
  BY <1>1 DEF Family, GroupOf
<1>2. CASE r # 0
  <2>1. r \in Child
    BY <1>2 DEF Process, Child
  <2>2. contained[r] /\ Held(grp[r])
    BY <2>1 DEF Family, Domain, Alive
  <2>3. grp[r] \in Child
    BY <2>1, <2>2 DEF TypeOK, Held, InDomain, Unkilled
  <2>4. QED
    BY <1>2, <2>2, <2>3 DEF GroupOf
<1>3. QED
  BY <1>1, <1>2

\* A runner at work on a child knows which, and it is not itself.
LEMMA Rearing ==
    ASSUME IInv, NEW r \in Process, pc[r] \in Active
    PROVE  /\ child[r] \in Child /\ r < child[r] /\ child[r] <= calls
           /\ parent[child[r]] = r /\ life[r] = "running"
BY DEF IInv, TypeOK, Runners, Active, Gathers, Process, Child, None

\* What a runner forgets of its child leaves the pipes and the programs well formed.
LEMMA ForgetsTypes ==
    ASSUME IInv, NEW r \in Process, Forgets(r), UNCHANGED reused
    PROVE  TypeKin' /\ TypePipe'
<1> USE LimitAssumption DEF IInv, Stream
<1>1. TypeKin'
  <2>1. kin \in [Kin -> Programs]
    BY DEF TypeOK, Programs
  <2>2. \A k \in Kin : [kin[k] EXCEPT !.of = None] \in Programs
    BY <2>1 DEF Programs, None
  <2>3. QED
    BY <2>1, <2>2 DEF Forgets, TypeOK, TypeKin
<1>2. TypePipe'
  <2>1. NoOutput \in [Stream -> Units] /\ \A t \in Stream : Total(NoOutput[t]) <= Capacity
    BY DEF Total, NoOutput, Nothing, Units
  <2>2. QED
    BY <2>1 DEF Forgets, TypeOK, TypePipe
<1>3. QED
  BY <1>1, <1>2

\* Every step keeps the types.
LEMMA TypeOKStep == IInv /\ [Next]_vars => TypeOK'
<1> SUFFICES ASSUME IInv, [Next]_vars PROVE TypeOK'
  OBVIOUS
<1> USE DepthAssumption, LimitAssumption DEF IInv, Process, Child, Stream, Programs
<1>life. /\ life \in [Process -> {"none", "booting", "running", "zombie", "gone"}]
         /\ depth \in [Process -> 0..MaxDepth] /\ parent \in [Child -> Process]
         /\ calls \in 0..MaxCalls /\ child \in [Process -> Child \cup {None}]
         /\ grp \in [Child -> Child \cup {None}]
  BY DEF TypeOK
<1>kin. kin \in [Kin -> Programs]
  BY DEF TypeOK
<1>reused. reused \in [Child -> {"no", "alive", "killed"}]
  BY DEF TypeOK
<1>pipe. pipe \in [Child -> [Stream -> Units]]
  BY DEF TypeOK
<1>total. \A q \in Child, t \in Stream : Total(pipe[q][t]) <= Capacity
  BY DEF TypeOK
<1>buf. buf \in [Process -> [Stream -> Nat]]
  BY DEF TypeOK
<1>ended. ended \in [Process -> Ended] /\ text \in [Process -> {"whole", "part", "empty"}]
  BY DEF TypeOK
<1>1. CASE InterruptedReading
  <2>1. TypeTree'
    BY <1>1 DEF InterruptedReading, world, family, TypeOK, Alive, None, Family, TypeTree
  <2>2. TypeKin'
    BY <1>1 DEF InterruptedReading, world, family, TypeOK, None, Gone, TypeKin
  <2>3. TypePipe'
    BY <1>1 DEF InterruptedReading, world, family, TypeOK, Units, Total, Nothing, NoOutput, None,
       Runners, Active, Gathers, TypePipe
  <2>4. TypeRun'
    BY <1>1 DEF InterruptedReading, world, family, TypeOK, Pc, Family, Alive, TypeRun
  <2>5. TypeBuf'
    BY <1>1 DEF InterruptedReading, world, family, TypeOK, Ended, Total, Units, NoBuffer, None, Runners,
       Active, Gathers, TypeBuf
  <2>6. QED
    BY <2>1, <2>2, <2>3, <2>4, <2>5 DEF TypeOK, TypeTree, TypeKin, TypePipe, TypeRun,
       TypeBuf
<1>2. ASSUME NEW r \in Process, Substitute(r) PROVE TypeOK'
  <2>1. TypeTree'
    BY <1>2 DEF Substitute, tree, TooDeep, world, family, TypeOK, Alive, None, Family, TypeTree
  <2>2. TypeKin'
    BY <1>2 DEF Substitute, tree, TooDeep, world, family, TypeOK, None, Gone, TypeKin
  <2>3. TypePipe'
    BY <1>2 DEF Substitute, tree, TooDeep, world, family, TypeOK, Units, Total, Nothing,
       NoOutput, None, Runners, Active, Gathers, TypePipe
  <2>4. pc' \in [Process -> Pc] /\ late' \in [Process -> BOOLEAN]
    BY <1>2 DEF Substitute, tree, TooDeep, world, family, TypeOK, Pc
  <2>5. \A q \in Process : pc'[q] # "idle" => depth'[q] < MaxDepth
    <3>1. depth' = depth /\ pc \in [Process -> Pc]
      BY <1>2 DEF Substitute, tree, TypeOK
    <3>2. ~(depth[r] >= MaxDepth) \/ pc' = pc
      BY <1>2 DEF Substitute, TooDeep
    <3>3. pc' = [pc EXCEPT ![r] = "pipe"] \/ pc' = pc
      BY <1>2 DEF Substitute
    <3>4. depth[r] \in Nat /\ MaxDepth \in Nat
      BY DepthAssumption DEF TypeOK
    <3>5. \A q \in Process : pc[q] # "idle" => depth[q] < MaxDepth
      BY DEF TypeOK
    <3>6. pc' # pc => depth[r] < MaxDepth
      BY <3>2, <3>4
    <3>7. \A q \in Process : q # r => pc'[q] = pc[q]
      BY <3>1, <3>3
    <3>8. QED
      BY <3>1, <3>5, <3>6, <3>7
  <2>6. TypeBuf'
    BY <1>2 DEF Substitute, tree, TooDeep, world, family, TypeOK, Ended, Total, Units, NoBuffer,
       None, Runners, Active, Gathers, TypeBuf
  <2>7. QED
    BY <2>1, <2>2, <2>3, <2>4, <2>5, <2>6 DEF TypeOK, TypeTree, TypeKin, TypePipe, TypeRun,
       TypeBuf
<1>3. ASSUME NEW r \in Process, MakePipe(r) PROVE TypeOK'
  <2>1. TypeTree'
    BY <1>3 DEF MakePipe, world, family, TypeOK, Alive, None, Family, TypeTree
  <2>2. TypeKin'
    BY <1>3 DEF MakePipe, world, family, TypeOK, None, Gone, TypeKin
  <2>3. TypePipe'
    BY <1>3 DEF MakePipe, world, family, TypeOK, Units, Total, Nothing, NoOutput, None,
       Runners, Active, Gathers, TypePipe
  <2>4. pc' \in [Process -> Pc] /\ late' \in [Process -> BOOLEAN]
    BY <1>3, ZenonT(60) DEF MakePipe, world, family, TypeOK, Pc
  <2>5. \A q \in Process : pc'[q] # "idle" => depth'[q] < MaxDepth
    BY <1>3 DEF MakePipe, world, family, TypeOK
  <2>6. ended' \in [Process -> Ended] /\ text' \in [Process -> {"whole", "part", "empty"}]
    BY <1>3, ZenonT(60) DEF MakePipe, world, family, TypeOK, Ended
  <2>7. buf' \in [Process -> [Stream -> Nat]]
    BY <1>3 DEF MakePipe, world, family, TypeOK, Total, Units, NoBuffer, None, Runners,
       Active, Gathers
  <2>8. fds' \in [Process -> SUBSET {"cap_read", "cap_write", "streams"}]
    <3>1. CASE fds' = fds
      BY <3>1 DEF TypeOK
    <3>2. CASE fds' = [fds EXCEPT ![r] = {"cap_read"}]
      BY <3>2 DEF TypeOK
    <3>3. QED
      BY <1>3, <3>1, <3>2 DEF MakePipe
  <2>9. QED
    BY <2>1, <2>2, <2>3, <2>4, <2>5, <2>6, <2>7, <2>8 DEF TypeOK, TypeTree, TypeKin,
       TypePipe, TypeRun, TypeBuf
<1>4. ASSUME NEW r \in Process, Spawn(r) PROVE TypeOK'
  <2>1. life' \in [Process -> {"none", "booting", "running", "zombie", "gone"}]
    BY <1>4 DEF Spawn, SpawnFails, Starts, Forks, GroupOf, world, family, TypeOK, Alive
  <2>2. /\ depth' \in [Process -> 0..MaxDepth] /\ parent' \in [Child -> Process]
        /\ calls' \in 0..MaxCalls
    <3>1. CASE SpawnFails(r)
      BY <1>4, <3>1 DEF Spawn, SpawnFails, family, world, TypeOK
    <3>2. CASE Starts(r, calls + 1)
      <4>1. calls + 1 \in Child /\ depth[r] + 1 \in 0..MaxDepth
        BY <1>4, <3>2, Newborn DEF Spawn, Starts
      <4>2. QED
        BY <3>2, <4>1, <1>life, SMTT(40) DEF Starts, Forks
    <3>3. QED
      BY <1>4, <3>1, <3>2 DEF Spawn
  <2>3. child' \in [Process -> Child \cup {None}] /\ grp' \in [Child -> Child \cup {None}]
    <3>1. CASE SpawnFails(r)
      BY <1>4, <3>1 DEF Spawn, SpawnFails, family, world, TypeOK
    <3>2. CASE Starts(r, calls + 1)
      <4>1. calls + 1 \in Child /\ GroupOf(r, calls + 1) \in Child
        BY <1>4, <3>2, Newborn, BornInto DEF Spawn, Starts
      <4>2. QED
        BY <3>2, <4>1, <1>life DEF Starts, Forks
    <3>3. QED
      BY <1>4, <3>1, <3>2 DEF Spawn
  <2>4. /\ claim' \in [Process -> {"none", "text", "granted"}]
        /\ contained' \in [Process -> BOOLEAN]
    BY <1>4, ZenonT(60) DEF Spawn, SpawnFails, Starts, Forks, GroupOf, world, family, TypeOK
  <2>5. TypeKin'
    BY <1>4 DEF Spawn, SpawnFails, Starts, Forks, GroupOf, world, family, TypeOK, None, Gone,
       TypeKin
  <2>6. pipe' \in [Child -> [Stream -> Units]]
    <3>1. CASE SpawnFails(r)
      BY <1>4, <3>1 DEF Spawn, SpawnFails, family, world, TypeOK
    <3>2. CASE Starts(r, calls + 1)
      BY <1>4, <3>2 DEF Spawn, Starts, Forks, GroupOf, TypeOK
    <3>3. QED
      BY <1>4, <3>1, <3>2 DEF Spawn
  <2>7. \A q \in Child, t \in Stream : Total(pipe'[q][t]) <= Capacity
    BY <1>4 DEF Spawn, SpawnFails, Starts, Forks, GroupOf, world, family, TypeOK, Units, Total,
       Nothing, NoOutput
  <2>8. pc' \in [Process -> Pc] /\ late' \in [Process -> BOOLEAN]
    <3>1. CASE SpawnFails(r)
      BY <1>4, <3>1 DEF Spawn, SpawnFails, family, world, TypeOK, Pc
    <3>2. CASE Starts(r, calls + 1)
      BY <1>4, <3>2 DEF Spawn, Starts, Forks, GroupOf, TypeOK, Pc
    <3>3. QED
      BY <1>4, <3>1, <3>2 DEF Spawn
  <2>9. \A q \in Process : pc'[q] # "idle" => depth'[q] < MaxDepth
    <3>1. CASE SpawnFails(r)
      BY <1>4, <3>1 DEF Spawn, SpawnFails, family, world, TypeOK
    <3>2. CASE Starts(r, calls + 1)
      <4>1. calls + 1 \in Child /\ depth[r] < MaxDepth /\ r # calls + 1
        BY <1>4, <3>2, Newborn DEF Spawn, Starts
      <4>2. pc[calls + 1] = "idle"
        BY <1>4, <3>2, Newborn DEF Spawn, Starts
      <4>3. QED
        BY <3>2, <4>1, <4>2, <1>life DEF Starts, Forks, TypeOK
    <3>3. QED
      BY <1>4, <3>1, <3>2 DEF Spawn
  <2>10. ended' \in [Process -> Ended] /\ text' \in [Process -> {"whole", "part", "empty"}]
    BY <1>4, ZenonT(60) DEF Spawn, SpawnFails, Starts, Forks, GroupOf, world, family, TypeOK, Ended
  <2>11. buf' \in [Process -> [Stream -> Nat]]
    BY <1>4 DEF Spawn, SpawnFails, Starts, Forks, GroupOf, world, family, TypeOK, Total, Units,
       NoBuffer, None, Runners, Active, Gathers
  <2>12. fds' \in [Process -> SUBSET {"cap_read", "cap_write", "streams"}]
    <3>1. CASE SpawnFails(r)
      BY <1>4, <3>1 DEF Spawn, SpawnFails, family, world, TypeOK
    <3>2. CASE Starts(r, calls + 1)
      BY <1>4, <3>2 DEF Spawn, Starts, Forks, GroupOf, TypeOK
    <3>3. QED
      BY <1>4, <3>1, <3>2 DEF Spawn
  <2>13. lost' = lost /\ leaked' = leaked
    BY <1>4 DEF Spawn, SpawnFails, Starts, Forks, world, family
  <2>14. QED
    BY <2>1, <2>2, <2>3, <2>4, <2>5, <2>6, <2>7, <2>8, <2>9, <2>10, <2>11, <2>12, <2>13
       DEF TypeOK, TypeTree, TypeKin, TypePipe, TypeRun, TypeBuf
<1>5. ASSUME NEW r \in Process, NEW s \in Stream, Pump(r, s) PROVE TypeOK'
  <2>1. TypeTree'
    BY <1>5 DEF Pump, Take, Exceeds, family, TypeOK, Alive, None, Family, TypeTree
  <2>2. TypeKin'
    BY <1>5 DEF Pump, Take, Exceeds, family, TypeOK, None, Gone, TypeKin
  <2>3. pipe' \in [Child -> [Stream -> Units]]
    <3>1. child[r] \in Child
      BY <1>5 DEF Pump, Take, Exceeds, family, TypeOK, Runners, Active, Gathers, None
    <3>2. [pipe[child[r]] EXCEPT ![s] = Nothing] \in [Stream -> Units]
      <4>1. pipe[child[r]] \in [Stream -> Units]
        BY <3>1, <1>pipe
      <4>2. Nothing \in Units
        BY LimitAssumption DEF LimitAssumption, Nothing, Units
      <4>3. QED
        BY <4>1, <4>2
    <3>3. \/ pipe' = pipe
          \/ pipe' = [pipe EXCEPT ![child[r]] = [pipe[child[r]] EXCEPT ![s] = Nothing]]
      BY <1>5 DEF Pump, Take, Exceeds, family
    <3>4. QED
      BY <3>1, <3>2, <3>3, <1>pipe
  <2>4. \A q \in Child, t \in Stream : Total(pipe'[q][t]) <= Capacity
    <3>1. child[r] \in Child
      BY <1>5 DEF Pump, Take, Exceeds, family, TypeOK, Runners, Active, Gathers, None
    <3>2. \/ pipe' = pipe
          \/ pipe' = [pipe EXCEPT ![child[r]] = [pipe[child[r]] EXCEPT ![s] = Nothing]]
      BY <1>5 DEF Pump, Take, Exceeds, family
    <3>3. Total(Nothing) <= Capacity
      BY DEF Total, Nothing
    <3>4. \A q \in Child, t \in Stream : pipe'[q][t] = pipe[q][t] \/ pipe'[q][t] = Nothing
      BY <3>1, <3>2, <1>pipe
    <3>5. QED
      BY <3>3, <3>4, <1>total
  <2>5. TypeRun'
    BY <1>5, ZenonT(60) DEF Pump, Take, Exceeds, family, TypeOK, Pc, Family, Alive, TypeRun
  <2>6. ended' \in [Process -> Ended] /\ text' \in [Process -> {"whole", "part", "empty"}]
    <3>1. text' = text /\ (ended' = ended \/ ended' = [ended EXCEPT ![r] = s])
      BY <1>5 DEF Pump, Take, Exceeds, family
    <3>2. QED
      BY <3>1, <1>ended DEF Ended
  <2>7. buf' \in [Process -> [Stream -> Nat]]
    <3>1. child[r] \in Child
      BY <1>5 DEF Pump, Take, Exceeds, family, TypeOK, Runners, Active, Gathers, None
    <3>2. Total(pipe[child[r]][s]) \in Nat
      <4>1. pipe[child[r]][s] \in Units
        BY <3>1, <1>pipe
      <4>2. QED
        BY <4>1 DEF Total, Units
    <3>3. [buf[r] EXCEPT ![s] = @ + Total(pipe[child[r]][s])] \in [Stream -> Nat]
      BY <3>2, <1>buf
    <3>4. \/ buf' = buf
          \/ buf' = [buf EXCEPT ![r] = [buf[r] EXCEPT ![s] = @ + Total(pipe[child[r]][s])]]
      BY <1>5 DEF Pump, Take, Exceeds, family
    <3>5. QED
      BY <3>3, <3>4, <1>buf
  <2>8. fds' \in [Process -> SUBSET {"cap_read", "cap_write", "streams"}]
    BY <1>5 DEF Pump, Take, Exceeds, family, TypeOK
  <2>9. QED
    BY <2>1, <2>2, <2>3, <2>4, <2>5, <2>6, <2>7, <2>8 DEF TypeOK, TypeTree, TypeKin,
       TypePipe, TypeRun, TypeBuf
<1>6. ASSUME NEW r \in Process, NEW s \in Stream, DrainStream(r, s) PROVE TypeOK'
  <2>1. TypeTree'
    BY <1>6 DEF DrainStream, Take, Exceeds, Empty, After, Drain, family, TypeOK, Alive,
       None, Family, TypeTree
  <2>2. TypeKin'
    BY <1>6 DEF DrainStream, Take, Exceeds, Empty, After, Drain, family, TypeOK, None,
       Gone, TypeKin
  <2>3. pipe' \in [Child -> [Stream -> Units]]
    <3>1. child[r] \in Child
      BY <1>6 DEF DrainStream, Take, Exceeds, Empty, After, Drain, family, TypeOK, Runners,
         Active, Gathers, None
    <3>2. [pipe[child[r]] EXCEPT ![s] = Nothing] \in [Stream -> Units]
      <4>1. pipe[child[r]] \in [Stream -> Units]
        BY <3>1, <1>pipe
      <4>2. Nothing \in Units
        BY LimitAssumption DEF LimitAssumption, Nothing, Units
      <4>3. QED
        BY <4>1, <4>2
    <3>3. \/ pipe' = pipe
          \/ pipe' = [pipe EXCEPT ![child[r]] = [pipe[child[r]] EXCEPT ![s] = Nothing]]
      BY <1>6 DEF DrainStream, Take, Exceeds, Empty, After, Drain, family
    <3>4. QED
      BY <3>1, <3>2, <3>3, <1>pipe
  <2>4. \A q \in Child, t \in Stream : Total(pipe'[q][t]) <= Capacity
    <3>1. child[r] \in Child
      BY <1>6, SMTT(40) DEF DrainStream, Take, Exceeds, Empty, After, Drain, family, TypeOK, Runners,
         Active, Gathers, None
    <3>2. \/ pipe' = pipe
          \/ pipe' = [pipe EXCEPT ![child[r]] = [pipe[child[r]] EXCEPT ![s] = Nothing]]
      BY <1>6 DEF DrainStream, Take, Exceeds, Empty, After, Drain, family
    <3>3. Total(Nothing) <= Capacity
      BY DEF Total, Nothing
    <3>4. \A q \in Child, t \in Stream : pipe'[q][t] = pipe[q][t] \/ pipe'[q][t] = Nothing
      BY <3>1, <3>2, <1>pipe
    <3>5. QED
      BY <3>3, <3>4, <1>total
  <2>5. pc' \in [Process -> Pc] /\ late' \in [Process -> BOOLEAN]
    <3>1. pc' = [pc EXCEPT ![r] = After(s)] \/ pc' = [pc EXCEPT ![r] = "kill"] \/ pc' = pc
      BY <1>6 DEF DrainStream
    <3>2. late' = late
      BY <1>6 DEF DrainStream
    <3>3. QED
      BY <3>1, <3>2, ZenonT(60) DEF After, TypeOK, Pc
  <2>6. \A q \in Process : pc'[q] # "idle" => depth'[q] < MaxDepth
    <3>1. pc[r] # "idle"
      BY <1>6 DEF DrainStream, Drain
    <3>2. depth' = depth
      BY <1>6 DEF DrainStream, family
    <3>3. \A q \in Process \ {r} : pc'[q] = pc[q]
      BY <1>6 DEF DrainStream, TypeOK
    <3>4. QED
      BY <3>1, <3>2, <3>3 DEF TypeOK
  <2>7. ended' \in [Process -> Ended] /\ text' \in [Process -> {"whole", "part", "empty"}]
    <3>1. text' = text /\ (ended' = ended \/ ended' = [ended EXCEPT ![r] = s])
      BY <1>6 DEF DrainStream, Take, Exceeds, Empty, After, Drain, family
    <3>2. QED
      BY <3>1, <1>ended DEF Ended
  <2>8. buf' \in [Process -> [Stream -> Nat]]
    <3>1. child[r] \in Child
      BY <1>6 DEF DrainStream, Take, Exceeds, Empty, After, Drain, family, TypeOK, Runners,
         Active, Gathers, None
    <3>2. Total(pipe[child[r]][s]) \in Nat
      <4>1. pipe[child[r]][s] \in Units
        BY <3>1, <1>pipe
      <4>2. QED
        BY <4>1 DEF Total, Units
    <3>3. [buf[r] EXCEPT ![s] = @ + Total(pipe[child[r]][s])] \in [Stream -> Nat]
      BY <3>2, <1>buf
    <3>4. \/ buf' = buf
          \/ buf' = [buf EXCEPT ![r] = [buf[r] EXCEPT ![s] = @ + Total(pipe[child[r]][s])]]
      BY <1>6 DEF DrainStream, Take, Exceeds, Empty, After, Drain, family
    <3>5. QED
      BY <3>3, <3>4, <1>buf
  <2>9. fds' \in [Process -> SUBSET {"cap_read", "cap_write", "streams"}]
    BY <1>6 DEF DrainStream, Take, Exceeds, Empty, After, Drain, family, TypeOK
  <2>10. QED
    BY <2>1, <2>2, <2>3, <2>4, <2>5, <2>6, <2>7, <2>8, <2>9 DEF TypeOK, TypeTree, TypeKin,
       TypePipe, TypeRun, TypeBuf
<1>7. ASSUME NEW r \in Process, Check(r) PROVE TypeOK'
  <2>1. TypeTree'
    BY <1>7 DEF Check, SeenExited, family, TypeOK, Alive, None, Family, TypeTree
  <2>2. TypeKin'
    BY <1>7 DEF Check, SeenExited, family, TypeOK, None, Gone, TypeKin
  <2>3. TypePipe'
    BY <1>7 DEF Check, SeenExited, family, TypeOK, Units, Total, Nothing, NoOutput, None,
       Runners, Active, Gathers, TypePipe
  <2>4. pc' \in [Process -> Pc] /\ late' \in [Process -> BOOLEAN]
    <3>1. pc' = [pc EXCEPT ![r] = "sweep"] \/ pc' = [pc EXCEPT ![r] = "kill"]
      BY <1>7 DEF Check
    <3>2. late' = [late EXCEPT ![r] = FALSE]
      BY <1>7 DEF Check
    <3>3. QED
      BY <3>1, <3>2, ZenonT(60) DEF TypeOK, Pc
  <2>5. \A q \in Process : pc'[q] # "idle" => depth'[q] < MaxDepth
    BY <1>7, SMTT(40) DEF Check, SeenExited, family, TypeOK, Family, Alive
  <2>6. ended' \in [Process -> Ended] /\ text' \in [Process -> {"whole", "part", "empty"}]
    <3>1. \/ ended' = [ended EXCEPT ![r] = "exited"]
          \/ ended' = [ended EXCEPT ![r] = "timeout"]
      BY <1>7 DEF Check
    <3>2. text' = text
      BY <1>7 DEF Check
    <3>3. QED
      BY <3>1, <3>2 DEF TypeOK, Ended
  <2>7. buf' \in [Process -> [Stream -> Nat]]
    BY <1>7 DEF Check, SeenExited, family, TypeOK, Total, Units, NoBuffer, None, Runners,
       Active, Gathers
  <2>8. fds' \in [Process -> SUBSET {"cap_read", "cap_write", "streams"}]
    BY <1>7 DEF Check, SeenExited, family, TypeOK
  <2>9. QED
    BY <2>1, <2>2, <2>3, <2>4, <2>5, <2>6, <2>7, <2>8 DEF TypeOK, TypeTree, TypeKin,
       TypePipe, TypeRun, TypeBuf
<1>8. ASSUME NEW r \in Process, Sweep(r) PROVE TypeOK'
  <2>1. TypeTree'
    BY <1>8 DEF Sweep, KillGroup, Silenced, Die, Members, KinMembers, family, TypeOK,
       Alive, None, Family, TypeTree
  <2>2. TypeKin'
    BY <1>8, ZenonT(60) DEF Sweep, KillGroup, Silenced, Die, Members, KinMembers, family, TypeOK, None,
       Gone, TypeKin
  <2>3. TypePipe'
    BY <1>8 DEF Sweep, KillGroup, Silenced, Die, Members, KinMembers, family, TypeOK,
       Units, Total, Nothing, NoOutput, None, Runners, Active, Gathers, TypePipe
  <2>4. TypeRun'
    BY <1>8 DEF Sweep, KillGroup, Silenced, Die, Members, KinMembers, family, TypeOK, Pc,
       Family, Alive, TypeRun
  <2>5. ended' \in [Process -> Ended] /\ text' \in [Process -> {"whole", "part", "empty"}]
    BY <1>8 DEF Sweep, KillGroup, Silenced, Die, Members, KinMembers, family, TypeOK, Ended
  <2>6. buf' \in [Process -> [Stream -> Nat]]
    <3>1. NoBuffer \in [Stream -> Nat]
      BY DEF NoBuffer
    <3>2. QED
      BY <1>8, <3>1 DEF Sweep, Silenced, TypeOK
  <2>7. fds' \in [Process -> SUBSET {"cap_read", "cap_write", "streams"}]
    BY <1>8 DEF Sweep, KillGroup, Silenced, Die, Members, KinMembers, family, TypeOK
  <2>8. QED
    BY <2>1, <2>2, <2>3, <2>4, <2>5, <2>6, <2>7 DEF TypeOK, TypeTree, TypeKin, TypePipe,
       TypeRun, TypeBuf
<1>9. ASSUME NEW r \in Process, Kill(r) PROVE TypeOK'
  <2>1. life' \in [Process -> {"none", "booting", "running", "zombie", "gone"}]
    <3>1. PICK dead \in SUBSET Child : Die(dead)
      BY <1>9 DEF Kill, KillChild, KillGroup, Members
    <3>2. QED
      BY <3>1 DEF Die, TypeOK, Alive
  <2>2. /\ depth' \in [Process -> 0..MaxDepth] /\ parent' \in [Child -> Process]
        /\ calls' \in 0..MaxCalls /\ lost' = lost /\ leaked' = leaked
    BY <1>9 DEF Kill, KillGroup, KillChild, Victims, Silenced, Die, Members, KinMembers,
       family, TypeOK
  <2>3. child' \in [Process -> Child \cup {None}] /\ grp' \in [Child -> Child \cup {None}]
    BY <1>9 DEF Kill, KillGroup, KillChild, Victims, Silenced, Die, Members, KinMembers,
       family, TypeOK, None, Family
  <2>4. /\ claim' \in [Process -> {"none", "text", "granted"}]
        /\ contained' \in [Process -> BOOLEAN]
    BY <1>9 DEF Kill, KillGroup, KillChild, Victims, Silenced, Die, Members, KinMembers,
       family, TypeOK
  <2>5. /\ kin' \in [Kin -> Programs]
        /\ reused' \in [Child -> {"no", "alive", "killed"}]
    <3>1. CASE contained[r]
      BY <1>9, <3>1 DEF Kill, KillChild, TypeOK
    <3>2. CASE ~contained[r]
      <4>1. child[r] \in Child
        BY <1>9 DEF Kill, TypeOK, Runners, Active, Gathers, None
      <4>2. kin' \in [Kin -> Programs]
        <5>1. Gone \in Programs
          BY DEF Gone, None
        <5>2. QED
          BY <1>9, <3>2, <5>1, <1>kin DEF Kill, KillGroup
      <4>3. reused' \in [Child -> {"no", "alive", "killed"}]
        BY <1>9, <3>2, <4>1, <1>reused DEF Kill, KillGroup
      <4>4. QED
        BY <4>2, <4>3
    <3>3. QED
      BY <3>1, <3>2
  <2>6. TypePipe'
    BY <1>9 DEF Kill, KillGroup, KillChild, Victims, Silenced, Die, Members, KinMembers,
       family, TypeOK, Units, Total, Nothing, NoOutput, None, Runners, Active, Gathers,
       TypePipe
  <2>7. TypeRun'
    BY <1>9 DEF Kill, KillGroup, KillChild, Victims, Silenced, Die, Members, KinMembers,
       family, TypeOK, Pc, Family, Alive, TypeRun
  <2>8. ended' \in [Process -> Ended] /\ text' \in [Process -> {"whole", "part", "empty"}]
    BY <1>9 DEF Kill, KillGroup, KillChild, Victims, Silenced, Die, Members, KinMembers,
       family, TypeOK, Ended
  <2>9. buf' \in [Process -> [Stream -> Nat]]
    <3>1. NoBuffer \in [Stream -> Nat]
      BY DEF NoBuffer
    <3>2. QED
      BY <1>9, <3>1 DEF Kill, Silenced, TypeOK
  <2>10. fds' \in [Process -> SUBSET {"cap_read", "cap_write", "streams"}]
    BY <1>9 DEF Kill, KillGroup, KillChild, Victims, Silenced, Die, Members, KinMembers,
       family, TypeOK
  <2>11. QED
    BY <2>1, <2>2, <2>3, <2>4, <2>5, <2>6, <2>7, <2>8, <2>9, <2>10 DEF TypeOK, TypeTree,
       TypeKin, TypePipe, TypeRun, TypeBuf
<1>10. ASSUME NEW r \in Process, Wait(r) PROVE TypeOK'
  <2>1. TypeTree'
    BY <1>10 DEF Wait, family, TypeOK, Alive, None, Family, TypeTree
  <2>2. TypeKin'
    BY <1>10 DEF Wait, family, TypeOK, None, Gone, TypeKin
  <2>3. TypePipe'
    BY <1>10 DEF Wait, family, TypeOK, Units, Total, Nothing, NoOutput, None, Runners,
       Active, Gathers, TypePipe
  <2>4. TypeRun'
    BY <1>10 DEF Wait, family, TypeOK, Pc, Family, Alive, TypeRun
  <2>5. TypeBuf'
    BY <1>10 DEF Wait, family, TypeOK, Ended, Total, Units, NoBuffer, None, Runners,
       Active, Gathers, TypeBuf
  <2>6. QED
    BY <2>1, <2>2, <2>3, <2>4, <2>5 DEF TypeOK, TypeTree, TypeKin, TypePipe, TypeRun,
       TypeBuf
<1>11. ASSUME NEW r \in Process, Return(r) PROVE TypeOK'
  <2>1. TypeTree'
    BY <1>11 DEF Return, Leaves, Forgets, tree, Text, Captured, LeftOpen, family, TypeOK, Alive, None, Family,
       TypeTree
  <2>2. /\ kin' \in [Kin -> Programs]
        /\ reused' \in [Child -> {"no", "alive", "killed"}]
    <3>1. \A k \in Kin : [kin[k] EXCEPT !.of = None] \in Programs
      BY <1>kin DEF None
    <3>2. QED
      BY <1>11, <3>1 DEF Return, Leaves, Forgets, tree, TypeOK
  <2>3. pipe' \in [Child -> [Stream -> Units]]
    BY <1>11 DEF Return, Leaves, Forgets, tree, Text, Captured, LeftOpen, family, TypeOK, Units, Total, Nothing,
       NoOutput, None, Runners, Active, Gathers
  <2>4. \A q \in Child, t \in Stream : Total(pipe'[q][t]) <= Capacity
    <3>1. \A t \in Stream : Total(NoOutput[t]) <= Capacity
      BY DEF Total, NoOutput, Nothing
    <3>2. QED
      BY <1>11, <3>1 DEF Return, Leaves, Forgets, tree, TypeOK
  <2>5. TypeRun'
    BY <1>11 DEF Return, Leaves, Forgets, tree, Text, Captured, LeftOpen, family, TypeOK, Pc, Family, Alive,
       TypeRun
  <2>6. TypeBuf'
    BY <1>11 DEF Return, Leaves, Forgets, tree, Text, Captured, LeftOpen, family, TypeOK, Ended, Total, Units,
       NoBuffer, None, Runners, Active, Gathers, TypeBuf
  <2>7. QED
    BY <2>1, <2>2, <2>3, <2>4, <2>5, <2>6 DEF TypeOK, TypeTree, TypeKin, TypePipe, TypeRun,
       TypeBuf
<1>12. ASSUME NEW r \in Process, Deadline(r) PROVE TypeOK'
  BY <1>12 DEF Deadline, world, family, TypeOK, Gone, None
<1>13. ASSUME NEW p \in Child, Boot(p) PROVE TypeOK'
  BY <1>13 DEF Boot, Consumes, family, TypeOK, Gone, None
<1>14. ASSUME NEW p \in Child, Exit(p) PROVE TypeOK'
  <2>1. TypeTree'
    BY <1>14 DEF Exit, Die, Silenced, family, TypeOK, Alive, None, Family, TypeTree
  <2>2. TypeKin'
    BY <1>14 DEF Exit, Die, Silenced, family, TypeOK, None, Gone, TypeKin
  <2>3. TypePipe'
    BY <1>14 DEF Exit, Die, Silenced, family, TypeOK, Units, Total, Nothing, NoOutput,
       None, Runners, Active, Gathers, TypePipe
  <2>4. TypeRun'
    BY <1>14, ZenonT(60) DEF Exit, Die, Silenced, family, TypeOK, Pc, Family, Alive, TypeRun
  <2>5. ended' \in [Process -> Ended] /\ text' \in [Process -> {"whole", "part", "empty"}]
    BY <1>14 DEF Exit, Die, Silenced, family, TypeOK, Ended
  <2>6. buf' \in [Process -> [Stream -> Nat]]
    <3>1. NoBuffer \in [Stream -> Nat]
      BY DEF NoBuffer
    <3>2. QED
      BY <1>14, <3>1 DEF Exit, Silenced, TypeOK
  <2>7. fds' \in [Process -> SUBSET {"cap_read", "cap_write", "streams"}]
    BY <1>14 DEF Exit, Die, Silenced, family, TypeOK
  <2>8. QED
    BY <2>1, <2>2, <2>3, <2>4, <2>5, <2>6, <2>7 DEF TypeOK, TypeTree, TypeKin, TypePipe,
       TypeRun, TypeBuf
<1>15. ASSUME NEW p \in Child, Reuse(p) PROVE TypeOK'
  BY <1>15 DEF Reuse, NumberFree, family, TypeOK, Gone, None
<1>16. ASSUME NEW p \in Child, NEW s \in Stream, Write(p, s) PROVE TypeOK'
  <2>1. TypeTree'
    BY <1>16 DEF Write, Open, family, TypeOK, Alive, None, Family, TypeTree
  <2>2. TypeKin'
    BY <1>16 DEF Write, Open, family, TypeOK, None, Gone, TypeKin
  <2>3. pipe' \in [Child -> [Stream -> Units]]
    <3>1. p \in Child /\ pipe[p][s] \in Units /\ pipe[p][s].lead < Capacity
      <4>1. p \in Child /\ Total(pipe[p][s]) < Capacity
        BY <1>16 DEF Write, Open, family, TypeOK, None
      <4>2. pipe[p][s] \in Units
        BY <4>1, <1>pipe
      <4>3. QED
        BY <4>1, <4>2 DEF Total, Units
    <3>2. [pipe[p][s] EXCEPT !.lead = @ + 1] \in Units
      BY <3>1 DEF Units
    <3>3. [pipe[p] EXCEPT ![s] = [pipe[p][s] EXCEPT !.lead = @ + 1]] \in [Stream -> Units]
      BY <3>1, <3>2 DEF TypeOK
    <3>4. pipe' = [pipe EXCEPT ![p] =
             [pipe[p] EXCEPT ![s] = [pipe[p][s] EXCEPT !.lead = @ + 1]]]
      BY <1>16 DEF Write, Open, family
    <3>5. QED
      BY <3>1, <3>3, <3>4 DEF TypeOK
  <2>4. \A q \in Child, t \in Stream : Total(pipe'[q][t]) <= Capacity
    <3>1. p \in Child /\ pipe[p][s] \in Units /\ Total(pipe[p][s]) < Capacity
      BY <1>16 DEF Write, Open, family, TypeOK, None
    <3>2. Total([pipe[p][s] EXCEPT !.lead = @ + 1]) <= Capacity
      BY <3>1 DEF Units, Total
    <3>3. pipe' = [pipe EXCEPT ![p] =
             [pipe[p] EXCEPT ![s] = [pipe[p][s] EXCEPT !.lead = @ + 1]]]
      BY <1>16 DEF Write, Open, family
    <3>4. QED
      BY <3>1, <3>2, <3>3, SMTT(40) DEF TypeOK
  <2>5. TypeRun'
    BY <1>16 DEF Write, Open, family, TypeOK, Pc, Family, Alive, TypeRun
  <2>6. TypeBuf'
    BY <1>16 DEF Write, Open, family, TypeOK, Ended, Total, Units, NoBuffer, None, Runners,
       Active, Gathers, TypeBuf
  <2>7. QED
    BY <2>1, <2>2, <2>3, <2>4, <2>5, <2>6 DEF TypeOK, TypeTree, TypeKin, TypePipe, TypeRun,
       TypeBuf
<1>17. ASSUME NEW p \in Child, NEW k \in Kin, StartKin(p, k) PROVE TypeOK'
  <2>1. TypeTree'
    BY <1>17 DEF StartKin, family, TypeOK, Alive, None, Family, TypeTree
  <2>2. TypeKin'
    BY <1>17 DEF StartKin, family, TypeOK, None, Gone, TypeKin
  <2>3. TypePipe'
    BY <1>17 DEF StartKin, family, TypeOK, Units, Total, Nothing, NoOutput, None, Runners,
       Active, Gathers, TypePipe
  <2>4. TypeRun'
    BY <1>17 DEF StartKin, family, TypeOK, Pc, Family, Alive, TypeRun
  <2>5. TypeBuf'
    BY <1>17 DEF StartKin, family, TypeOK, Ended, Total, Units, NoBuffer, None, Runners,
       Active, Gathers, TypeBuf
  <2>6. QED
    BY <2>1, <2>2, <2>3, <2>4, <2>5 DEF TypeOK, TypeTree, TypeKin, TypePipe, TypeRun,
       TypeBuf
<1>18. ASSUME NEW k \in Kin, KinLeaves(k) PROVE TypeOK'
  <2>1. TypeTree'
    BY <1>18 DEF KinLeaves, family, TypeOK, Alive, None, Family, TypeTree
  <2>2. /\ kin' \in [Kin -> Programs]
        /\ reused' \in [Child -> {"no", "alive", "killed"}]
    <3>1. [kin[k] EXCEPT !.grp = None] \in Programs
      BY <1>kin DEF None
    <3>2. QED
      BY <1>18, <3>1 DEF KinLeaves, family, TypeOK
  <2>3. TypePipe'
    BY <1>18 DEF KinLeaves, family, TypeOK, Units, Total, Nothing, NoOutput, None, Runners,
       Active, Gathers, TypePipe
  <2>4. TypeRun'
    BY <1>18 DEF KinLeaves, family, TypeOK, Pc, Family, Alive, TypeRun
  <2>5. TypeBuf'
    BY <1>18 DEF KinLeaves, family, TypeOK, Ended, Total, Units, NoBuffer, None, Runners,
       Active, Gathers, TypeBuf
  <2>6. QED
    BY <2>1, <2>2, <2>3, <2>4, <2>5 DEF TypeOK, TypeTree, TypeKin, TypePipe, TypeRun,
       TypeBuf
<1>19. ASSUME NEW k \in Kin, KinExits(k) PROVE TypeOK'
  BY <1>19 DEF KinExits, family, TypeOK, Gone, None
<1>20. ASSUME NEW k \in Kin, NEW s \in Stream, KinWrites(k, s) PROVE TypeOK'
  <2>1. TypeTree'
    BY <1>20 DEF KinWrites, Open, family, TypeOK, Alive, None, Family, TypeTree
  <2>2. TypeKin'
    BY <1>20 DEF KinWrites, Open, family, TypeOK, None, Gone, TypeKin
  <2>3. pipe' \in [Child -> [Stream -> Units]]
    <3>1. /\ kin[k].of \in Child /\ pipe[kin[k].of][s] \in Units
          /\ pipe[kin[k].of][s].kin < Capacity
      <4>1. kin[k].of \in Child /\ Total(pipe[kin[k].of][s]) < Capacity
        BY <1>20 DEF KinWrites, Open, family, TypeOK, None
      <4>2. pipe[kin[k].of][s] \in Units
        BY <4>1, <1>pipe
      <4>3. QED
        BY <4>1, <4>2 DEF Total, Units
    <3>2. [pipe[kin[k].of][s] EXCEPT !.kin = @ + 1] \in Units
      BY <3>1 DEF Units
    <3>3. [pipe[kin[k].of] EXCEPT ![s] = [pipe[kin[k].of][s] EXCEPT !.kin = @ + 1]]
             \in [Stream -> Units]
      BY <3>1, <3>2 DEF TypeOK
    <3>4. pipe' = [pipe EXCEPT ![kin[k].of] =
             [pipe[kin[k].of] EXCEPT ![s] = [pipe[kin[k].of][s] EXCEPT !.kin = @ + 1]]]
      BY <1>20 DEF KinWrites, Open, family
    <3>5. QED
      BY <3>1, <3>3, <3>4 DEF TypeOK
  <2>4. \A q \in Child, t \in Stream : Total(pipe'[q][t]) <= Capacity
    <3>1. /\ kin[k].of \in Child /\ pipe[kin[k].of][s] \in Units
          /\ Total(pipe[kin[k].of][s]) < Capacity
      BY <1>20 DEF KinWrites, Open, family, TypeOK, None
    <3>2. Total([pipe[kin[k].of][s] EXCEPT !.kin = @ + 1]) <= Capacity
      BY <3>1 DEF Units, Total
    <3>3. pipe' = [pipe EXCEPT ![kin[k].of] =
             [pipe[kin[k].of] EXCEPT ![s] = [pipe[kin[k].of][s] EXCEPT !.kin = @ + 1]]]
      BY <1>20 DEF KinWrites, Open, family
    <3>4. QED
      BY <3>1, <3>2, <3>3, SMTT(40) DEF TypeOK
  <2>5. TypeRun'
    BY <1>20 DEF KinWrites, Open, family, TypeOK, Pc, Family, Alive, TypeRun
  <2>6. TypeBuf'
    BY <1>20 DEF KinWrites, Open, family, TypeOK, Ended, Total, Units, NoBuffer, None,
       Runners, Active, Gathers, TypeBuf
  <2>7. QED
    BY <2>1, <2>2, <2>3, <2>4, <2>5, <2>6 DEF TypeOK, TypeTree, TypeKin, TypePipe, TypeRun,
       TypeBuf
<1>21. CASE UNCHANGED vars
  BY <1>21 DEF vars, family, TypeOK, Gone, None
<1>22. CASE InterruptedPopen
  <2>0. 0 \in Process /\ pc[0] = "spawn"
    BY <1>22 DEF InterruptedPopen
  <2>1. CASE UNCHANGED <<world, claim>>
    <3>1. TypeTree' /\ TypeKin' /\ TypePipe'
      BY <1>22, <2>1 DEF InterruptedPopen, world, family, TypeOK, TypeTree, TypeKin, TypePipe
    <3>2. TypeRun'
      BY <1>22, <2>0, <2>1 DEF InterruptedPopen, world, family, TypeOK, TypeRun, Pc
    <3>3. TypeBuf'
      BY <1>22, <2>1 DEF InterruptedPopen, TypeOK, TypeBuf, Ended
    <3>4. QED
      BY <3>1, <3>2, <3>3 DEF TypeOK, TypeTree, TypeKin, TypePipe, TypeRun, TypeBuf
  <2>2. CASE Forks(0, calls + 1) /\ lost' = [lost EXCEPT ![calls + 1] = "unkilled"]
    <3>1. /\ calls + 1 \in Child /\ depth[0] + 1 \in 0..MaxDepth /\ depth[0] < MaxDepth
          /\ GroupOf(0, calls + 1) \in Child /\ pc[calls + 1] = "idle"
      BY <2>0, <2>2, Newborn, BornInto
    <3>2. TypeTree'
      <4>1. lost \in [Child -> {"no", "unreaped", "unkilled"}] /\ leaked \in BOOLEAN
        BY DEF TypeOK
      <4>2. /\ lost' \in [Child -> {"no", "unreaped", "unkilled"}] /\ leaked' \in BOOLEAN
            /\ calls' \in 0..MaxCalls /\ child' \in [Process -> Child \cup {None}]
        BY <1>22, <2>2, <3>1, <4>1, <1>life DEF Forks, InterruptedPopen
      <4>3. life' \in [Process -> {"none", "booting", "running", "zombie", "gone"}]
        BY <2>2, <1>life DEF Forks
      <4>4. depth' \in [Process -> 0..MaxDepth] /\ parent' \in [Child -> Process]
        BY <2>0, <2>2, <3>1, <1>life DEF Forks
      <4>5. grp' \in [Child -> Child \cup {None}]
        BY <2>2, <3>1, <1>life DEF Forks
      <4>6. /\ claim' \in [Process -> {"none", "text", "granted"}]
            /\ contained' \in [Process -> BOOLEAN]
        BY <1>22, <2>2 DEF Forks, InterruptedPopen, TypeOK
      <4>7. QED
        BY <4>2, <4>3, <4>4, <4>5, <4>6 DEF TypeTree
    <3>3. TypeKin' /\ TypePipe'
      BY <2>2 DEF Forks, TypeOK, TypeKin, TypePipe
    <3>4. TypeRun'
      <4>1. /\ pc' = [pc EXCEPT ![0] = "close"] /\ late' = late
            /\ depth' = [depth EXCEPT ![calls + 1] = depth[0] + 1]
        BY <1>22, <2>2 DEF InterruptedPopen, Forks
      <4>2. 0 # calls + 1
        BY <3>1
      <4>3. QED
        BY <2>0, <3>1, <4>1, <4>2, <1>life DEF TypeOK, TypeRun, Pc
    <3>5. TypeBuf'
      BY <1>22 DEF InterruptedPopen, TypeOK, TypeBuf, Ended
    <3>6. QED
      BY <3>2, <3>3, <3>4, <3>5 DEF TypeOK, TypeTree, TypeKin, TypePipe, TypeRun, TypeBuf
  <2>3. QED
    BY <1>22, <2>1, <2>2 DEF InterruptedPopen
<1>23. CASE InterruptedEnding
  <2>1. 0 \in Process /\ pc[0] # "idle" /\ Forgets(0) /\ UNCHANGED reused
    BY <1>23 DEF InterruptedEnding
  <2>2. TypeTree'
    <3>1. child' \in [Process -> Child \cup {None}]
      BY <2>1, <1>life DEF Forgets, None
    <3>2. lost' \in [Child -> {"no", "unreaped", "unkilled"}]
      BY <1>23 DEF InterruptedEnding, TypeOK
    <3>3. QED
      BY <1>23, <3>1, <3>2 DEF InterruptedEnding, TypeOK, TypeTree
  <2>3. TypeKin' /\ TypePipe'
    BY <2>1, ForgetsTypes
  <2>4. TypeRun'
    BY <1>23, <2>1 DEF InterruptedEnding, TypeOK, TypeRun, Pc
  <2>5. TypeBuf'
    BY <1>23 DEF InterruptedEnding, TypeOK, TypeBuf, Ended
  <2>6. QED
    BY <2>2, <2>3, <2>4, <2>5 DEF TypeOK, TypeTree, TypeKin, TypePipe, TypeRun, TypeBuf
<1>24. CASE InterruptedLeaving
  <2>1. 0 \in Process /\ pc[0] # "idle" /\ Forgets(0) /\ UNCHANGED reused
    BY <1>24 DEF InterruptedLeaving, Leaves
  <2>2. TypeTree'
    <3>1. child' \in [Process -> Child \cup {None}]
      BY <2>1, <1>life DEF Forgets, None
    <3>2. leaked' \in BOOLEAN
      BY <1>24 DEF InterruptedLeaving, TypeOK
    <3>3. QED
      BY <1>24, <3>1, <3>2 DEF InterruptedLeaving, Leaves, tree, TypeOK, TypeTree
  <2>3. TypeKin' /\ TypePipe'
    BY <2>1, ForgetsTypes
  <2>4. TypeRun'
    BY <1>24, <2>1 DEF InterruptedLeaving, Leaves, tree, TypeOK, TypeRun, Pc
  <2>5. TypeBuf'
    <3>1. NoBuffer \in [Stream -> Nat]
      BY DEF NoBuffer
    <3>2. QED
      BY <1>24, <3>1 DEF InterruptedLeaving, Leaves, TypeOK, TypeBuf, Ended
  <2>6. QED
    BY <2>2, <2>3, <2>4, <2>5 DEF TypeOK, TypeTree, TypeKin, TypePipe, TypeRun, TypeBuf
<1>25. ASSUME NEW p \in Child, Collect(p) PROVE TypeOK'
  BY <1>25 DEF Collect, family, TypeOK, Gone, None
<1>26. QED
  BY <1>1, <1>2, <1>3, <1>4, <1>5, <1>6, <1>7, <1>8, <1>9, <1>10, <1>11, <1>12, <1>13,
     <1>14, <1>15, <1>16, <1>17, <1>18, <1>19, <1>20, <1>21, <1>22, <1>23, <1>24, <1>25
     DEF Next, Runner, CtrlC

\* The group of a child that is not reaped has nobody else's number.
LEMMA OwnNumber ==
    ASSUME IInv, NEW r \in Process, pc[r] \in Gathers, KillGroup(child[r])
    PROVE  reused' = reused /\ Die(Members(child[r]))
<1>1. child[r] \in Child /\ life[child[r]] \in {"booting", "running", "zombie"}
  BY Rearing DEF IInv, Runners, Active
<1>2. reused[child[r]] = "no"
  BY <1>1 DEF IInv, TypeOK, Family
<1>3. reused \in [Child -> {"no", "alive", "killed"}]
  BY DEF IInv, TypeOK
<1>4. QED
  BY <1>1, <1>2, <1>3 DEF KillGroup

\* Who leads the domain is not in it.
LEMMA LeaderOutside ==
    ASSUME IInv, NEW r \in Process, pc[r] \in Active
    PROVE  r \notin Members(child[r]) /\ r \notin Victims(r)
<1>1. child[r] \in Child /\ r < child[r] /\ parent[child[r]] = r
  BY Rearing
<1>2. ASSUME r \in Child, grp[r] = child[r], Alive(r) PROVE FALSE
  <2>1. child[0] = child[r] /\ child[0] # None
    BY <1>1, <1>2 DEF IInv, Domain, Held, Unkilled, InDomain, Runners, Child, None
  <2>2. parent[child[0]] = 0
    BY <2>1, LimitAssumption DEF IInv, Runners, Process
  <2>3. QED
    BY <1>1, <1>2, <2>1, <2>2 DEF Child
<1>3. QED
  BY <1>1, <1>2 DEF Members, Victims, Child, Process

\* The sweep kills all there is of the child's group.
LEMMA SweepLoses ==
    ASSUME IInv, NEW r \in Process, Sweep(r) PROVE Loses(Members(child[r]))
<1>1. pc[r] \in Gathers /\ pc[r] \in Active /\ pc \in [Process -> Pc]
  BY DEF Sweep, Gathers, Active, IInv, TypeOK
<1>2. reused' = reused /\ Die(Members(child[r]))
  BY <1>1, OwnNumber DEF Sweep
<1>3. r \notin Members(child[r])
  BY <1>1, LeaderOutside
<1>4. Members(child[r]) \subseteq Child /\ \A p \in Members(child[r]) : Alive(p)
  BY DEF Members
<1>5. Child \subseteq Process
  BY DEF Child, Process
<1>6. QED
  BY <1>1, <1>2, <1>3, <1>4, <1>5 DEF Sweep, Loses

\* The last kill is of the child, or of its group, and never of the runner.
LEMMA KillLoses ==
    ASSUME IInv, NEW r \in Process, Kill(r) PROVE Loses(Victims(r))
<1>1. pc[r] \in Gathers /\ pc[r] \in Active /\ pc \in [Process -> Pc]
  BY DEF Kill, Gathers, Active, IInv, TypeOK
<1>2. reused' = reused /\ Die(Victims(r))
  BY <1>1, OwnNumber DEF Kill, KillChild, Victims
<1>3. r \notin Victims(r)
  BY <1>1, LeaderOutside
<1>4. Victims(r) \subseteq Child /\ \A p \in Victims(r) : Alive(p)
  BY DEF Members, Victims
<1>5. Child \subseteq Process
  BY DEF Child, Process
<1>6. QED
  BY <1>1, <1>2, <1>3, <1>4, <1>5 DEF Kill, Loses

\* A process that ends takes its runner with it.
LEMMA ExitLoses ==
    ASSUME IInv, NEW p \in Child, Exit(p) PROVE Loses({p})
<1>1. pc \in [Process -> Pc] /\ Child \subseteq Process
  BY DEF Child, Process, IInv, TypeOK
<1>2. QED
  BY <1>1 DEF Exit, Loses, Alive

\* Deaths change nothing about who has been born and who may be signalled.
LEMMA LosesFamily ==
    ASSUME IInv, NEW dead, Loses(dead) PROVE Family'
<1> USE DEF Child, Process
<1>1. /\ life \in [Process -> {"none", "booting", "running", "zombie", "gone"}]
      /\ dead \subseteq Child /\ \A p \in dead : Alive(p)
      /\ UNCHANGED <<parent, grp, calls, lost, claim, contained, reused>>
  BY DEF IInv, TypeOK, Loses, family
<1>2. \A p \in Process : /\ p \in dead => life'[p] \in {"zombie", "gone"}
                         /\ p \notin dead => \/ life'[p] = life[p]
                                             \/ life[p] = "zombie" /\ life'[p] = "gone"
  BY <1>1 DEF Loses, Die
<1>3. 0 \in Process /\ 0 \notin dead
  BY <1>1, LimitAssumption
<1>4. QED
  BY <1>1, <1>2, <1>3 DEF IInv, Family, Alive

\* Every step keeps who has been born, and who may be signalled.
LEMMA FamilyStep == IInv /\ [Next]_vars => Family'
<1> SUFFICES ASSUME IInv, [Next]_vars PROVE Family'
  OBVIOUS
<1> USE DepthAssumption, LimitAssumption DEF IInv, Process, Child, None
<1>life. /\ life \in [Process -> {"none", "booting", "running", "zombie", "gone"}]
         /\ parent \in [Child -> Process] /\ calls \in 0..MaxCalls
         /\ grp \in [Child -> Child \cup {None}]
         /\ claim \in [Process -> {"none", "text", "granted"}]
         /\ contained \in [Process -> BOOLEAN]
         /\ reused \in [Child -> {"no", "alive", "killed"}]
  BY DEF TypeOK
<1>1. CASE InterruptedReading
  BY <1>1 DEF InterruptedReading, world, family, Family
<1>2. ASSUME NEW r \in Process, Substitute(r) PROVE Family'
  BY <1>2 DEF Substitute, tree, TooDeep, world, family, Family
<1>3. ASSUME NEW r \in Process, MakePipe(r) PROVE Family'
  BY <1>3 DEF MakePipe, world, family, Family
<1>4. ASSUME NEW r \in Process, Spawn(r) PROVE Family'
  <2>1. CASE SpawnFails(r)
    BY <1>4, <2>1, <1>life DEF Spawn, SpawnFails, family, world, Family
  <2>2. CASE Starts(r, calls + 1)
    <3>1. calls + 1 \in Child /\ calls \in Nat /\ life[calls + 1] = "none" /\ r < calls + 1
      BY <1>4, <2>2, <1>life, Newborn DEF Spawn, Starts
    <3>2. /\ life' = [life EXCEPT ![calls + 1] = "booting"] /\ calls' = calls + 1
          /\ claim' = [claim EXCEPT ![calls + 1] = "granted"]
          /\ UNCHANGED <<contained, reused, lost>>
          /\ parent' = [parent EXCEPT ![calls + 1] = r]
      BY <1>4, <2>2 DEF Spawn, Starts, Forks
    <3>3. \A q \in Child : q # calls + 1 => grp'[q] = grp[q]
      BY <1>4, <2>2, <1>life DEF Spawn, Starts, Forks
    <3>4. QED
      BY <3>1, <3>2, <3>3, <1>life DEF Family
  <2>3. QED
    BY <1>4, <2>1, <2>2 DEF Spawn
<1>5. ASSUME NEW r \in Process, NEW s \in Stream, Pump(r, s) PROVE Family'
  BY <1>5 DEF Pump, Take, Exceeds, family, Family
<1>6. ASSUME NEW r \in Process, NEW s \in Stream, DrainStream(r, s) PROVE Family'
  BY <1>6 DEF DrainStream, Take, Exceeds, Empty, After, Drain, family, Family
<1>7. ASSUME NEW r \in Process, Check(r) PROVE Family'
  <2>1. life'[0] = "running" /\ ~contained'[0]
    BY <1>7, <1>life DEF Check, SeenExited, family, Family, Alive
  <2>2. \A q \in Child : life'[q] = "none" <=> q > calls'
    BY <1>7, <1>life DEF Check, SeenExited, family, Family, Alive
  <2>3. \A q \in Child : q <= calls' => parent'[q] < q
    BY <1>7, <1>life DEF Check, SeenExited, family, Family, Alive
  <2>4. \A q \in Child : q > calls' => grp'[q] = None /\ lost'[q] = "no"
    BY <1>7, <1>life DEF Check, SeenExited, family, Family, Alive
  <2>5. \A q \in Child : reused'[q] # "no" => life'[q] = "gone"
    BY <1>7, <1>life DEF Check, SeenExited, family, Family, Alive
  <2>6. \A q \in Child : reused'[q] # "killed"
    BY <1>7, <1>life DEF Check, SeenExited, family, Family, Alive
  <2>7. \A q \in Child : life'[q] = "booting" => claim'[q] = "granted"
    BY <1>7, <1>life DEF Check, SeenExited, family, Family, Alive
  <2>8. \A q \in Child : life'[q] = "running" => contained'[q]
    BY <1>7, <1>life DEF Check, SeenExited, family, Family, Alive
  <2>9. QED
    BY <2>1, <2>2, <2>3, <2>4, <2>5, <2>6, <2>7, <2>8 DEF Family
<1>8. ASSUME NEW r \in Process, Sweep(r) PROVE Family'
  BY <1>8, SweepLoses, LosesFamily
<1>9. ASSUME NEW r \in Process, Kill(r) PROVE Family'
  BY <1>9, KillLoses, LosesFamily
<1>10. ASSUME NEW r \in Process, Wait(r) PROVE Family'
  <2>1. life'[0] = "running" /\ ~contained'[0]
    BY <1>10, <1>life DEF Wait, family, Family, Alive
  <2>2. \A q \in Child : life'[q] = "none" <=> q > calls'
    BY <1>10, <1>life DEF Wait, family, Family, Alive
  <2>3. \A q \in Child : q <= calls' => parent'[q] < q
    BY <1>10, <1>life DEF Wait, family, Family, Alive
  <2>4. \A q \in Child : q > calls' => grp'[q] = None /\ lost'[q] = "no"
    BY <1>10, <1>life DEF Wait, family, Family, Alive
  <2>5. \A q \in Child : reused'[q] # "no" => life'[q] = "gone"
    BY <1>10, <1>life DEF Wait, family, Family, Alive
  <2>6. \A q \in Child : reused'[q] # "killed"
    BY <1>10, <1>life DEF Wait, family, Family, Alive
  <2>7. \A q \in Child : life'[q] = "booting" => claim'[q] = "granted"
    BY <1>10, <1>life DEF Wait, family, Family, Alive
  <2>8. \A q \in Child : life'[q] = "running" => contained'[q]
    BY <1>10, <1>life DEF Wait, family, Family, Alive
  <2>9. QED
    BY <2>1, <2>2, <2>3, <2>4, <2>5, <2>6, <2>7, <2>8 DEF Family
<1>11. ASSUME NEW r \in Process, Return(r) PROVE Family'
  BY <1>11 DEF Return, Leaves, Forgets, tree, Text, Captured, LeftOpen, family, Family
<1>12. ASSUME NEW r \in Process, Deadline(r) PROVE Family'
  BY <1>12 DEF Deadline, world, family, Family
<1>13. ASSUME NEW p \in Child, Boot(p) PROVE Family'
  <2>1. life'[0] = "running" /\ ~contained'[0]
    BY <1>13, <1>life DEF Boot, Consumes, family, Family, Alive
  <2>2. \A q \in Child : life'[q] = "none" <=> q > calls'
    BY <1>13, <1>life DEF Boot, Consumes, family, Family, Alive
  <2>3. \A q \in Child : q <= calls' => parent'[q] < q
    BY <1>13, <1>life DEF Boot, Consumes, family, Family, Alive
  <2>4. \A q \in Child : q > calls' => grp'[q] = None /\ lost'[q] = "no"
    BY <1>13, <1>life DEF Boot, Consumes, family, Family, Alive
  <2>5. \A q \in Child : reused'[q] # "no" => life'[q] = "gone"
    BY <1>13, <1>life DEF Boot, Consumes, family, Family, Alive
  <2>6. \A q \in Child : reused'[q] # "killed"
    BY <1>13, <1>life DEF Boot, Consumes, family, Family, Alive
  <2>7. \A q \in Child : life'[q] = "booting" => claim'[q] = "granted"
    BY <1>13, <1>life DEF Boot, Consumes, family, Family, Alive
  <2>8. \A q \in Child : life'[q] = "running" => contained'[q]
    <3>1. life[p] = "booting" /\ Consumes(claim[p]) = TRUE
      BY <1>13 DEF Boot, Family, Consumes
    <3>2. /\ contained' = [contained EXCEPT ![p] = TRUE]
          /\ life' = [life EXCEPT ![p] = "running"]
      BY <1>13, <3>1 DEF Boot
    <3>3. QED
      BY <3>2, <1>life DEF Family
  <2>9. QED
    BY <2>1, <2>2, <2>3, <2>4, <2>5, <2>6, <2>7, <2>8 DEF Family
<1>14. ASSUME NEW p \in Child, Exit(p) PROVE Family'
  BY <1>14, ExitLoses, LosesFamily
<1>15. ASSUME NEW p \in Child, Reuse(p) PROVE Family'
  BY <1>15 DEF Reuse, NumberFree, family, Family
<1>16. ASSUME NEW p \in Child, NEW s \in Stream, Write(p, s) PROVE Family'
  BY <1>16 DEF Write, Open, family, Family
<1>17. ASSUME NEW p \in Child, NEW k \in Kin, StartKin(p, k) PROVE Family'
  BY <1>17 DEF StartKin, family, Family
<1>18. ASSUME NEW k \in Kin, KinLeaves(k) PROVE Family'
  BY <1>18 DEF KinLeaves, family, Family
<1>19. ASSUME NEW k \in Kin, KinExits(k) PROVE Family'
  BY <1>19 DEF KinExits, family, Family
<1>20. ASSUME NEW k \in Kin, NEW s \in Stream, KinWrites(k, s) PROVE Family'
  BY <1>20 DEF KinWrites, Open, family, Family
<1>21. CASE UNCHANGED vars
  BY <1>21 DEF vars, family, Family
<1>22. CASE InterruptedPopen
  <2>1. CASE UNCHANGED <<world, claim>>
    BY <1>22, <2>1 DEF InterruptedPopen, world, family, Family
  <2>2. CASE Forks(0, calls + 1) /\ lost' = [lost EXCEPT ![calls + 1] = "unkilled"]
    <3>1. calls + 1 \in Child /\ calls \in Nat /\ life[calls + 1] = "none"
      BY <1>22, <2>2, <1>life, Newborn DEF InterruptedPopen
    <3>2. /\ life' = [life EXCEPT ![calls + 1] = "booting"] /\ calls' = calls + 1
          /\ claim' = [claim EXCEPT ![calls + 1] = "granted"]
          /\ UNCHANGED <<contained, reused>> /\ parent' = [parent EXCEPT ![calls + 1] = 0]
      BY <1>22, <2>2 DEF InterruptedPopen, Forks
    <3>3. \A q \in Child : q # calls + 1 => grp'[q] = grp[q] /\ lost'[q] = lost[q]
      BY <2>2, <1>life DEF Forks, TypeOK
    <3>4. /\ life'[0] = "running" /\ ~contained'[0]
          /\ \A q \in Child : life'[q] = "none" <=> q > calls'
      BY <3>1, <3>2, <1>life DEF Family
    <3>5. \A q \in Child : q <= calls' => parent'[q] < q
      BY <3>1, <3>2, <1>life DEF Family, TypeOK
    <3>6. \A q \in Child : q > calls' => grp'[q] = None /\ lost'[q] = "no"
      BY <3>1, <3>2, <3>3 DEF Family
    <3>7. /\ \A q \in Child : reused'[q] # "no" => life'[q] = "gone"
          /\ \A q \in Child : reused'[q] # "killed"
          /\ \A q \in Child : life'[q] = "booting" => claim'[q] = "granted"
          /\ \A q \in Child : life'[q] = "running" => contained'[q]
      BY <3>1, <3>2, <1>life DEF Family, TypeOK
    <3>8. QED
      BY <3>4, <3>5, <3>6, <3>7 DEF Family
  <2>3. QED
    BY <1>22, <2>1, <2>2 DEF InterruptedPopen
<1>23. CASE InterruptedEnding
  <2>1. child[0] \in Child /\ child[0] <= calls
    BY <1>23, Rearing DEF InterruptedEnding, Active, Gathers
  <2>2. \A q \in Child : q # child[0] => lost'[q] = lost[q]
    BY <1>23 DEF InterruptedEnding, TypeOK
  <2>3. \A q \in Child : q > calls => lost'[q] = "no"
    <3>1. calls \in Nat
      BY LimitAssumption DEF TypeOK
    <3>2. \A q \in Child : q > calls => q # child[0]
      BY <2>1, <3>1
    <3>3. QED
      BY <2>2, <3>2 DEF Family
  <2>4. UNCHANGED <<life, parent, grp, calls, claim, contained, reused>>
    BY <1>23 DEF InterruptedEnding
  <2>5. QED
    BY <2>3, <2>4 DEF Family
<1>24. CASE InterruptedLeaving
  BY <1>24 DEF InterruptedLeaving, Leaves, tree, Family
<1>25. ASSUME NEW p \in Child, Collect(p) PROVE Family'
  <2>1. life[p] = "zombie" /\ life' = [life EXCEPT ![p] = "gone"]
        /\ UNCHANGED <<family, claim, contained, reused>>
    BY <1>25 DEF Collect
  <2>2. QED
    BY <2>1, <1>life DEF Family, family
<1>26. QED
  BY <1>1, <1>2, <1>3, <1>4, <1>5, <1>6, <1>7, <1>8, <1>9, <1>10, <1>11, <1>12, <1>13,
     <1>14, <1>15, <1>16, <1>17, <1>18, <1>19, <1>20, <1>21, <1>22, <1>23, <1>24, <1>25
     DEF Next, Runner, CtrlC

\* A step of one runner that leaves the processes alone.
LEMMA WorkRunners ==
    ASSUME IInv, NEW r \in Process, UNCHANGED <<life, parent, calls, lost, child>>, life[r] = "running",
           \A q \in Process \ {r} : pc'[q] = pc[q] /\ fds'[q] = fds[q],
           pc'[r] = "idle" => fds'[r] = {}, pc[r] \in Active => pc'[r] \in Active,
           pc'[r] \in Active => child[r] # None,
           pc'[r] \in Gathers => pc[r] \in Gathers,
           pc'[r] \in {"sweep", "drain_out", "drain_err"} => life[child[r]] = "zombie"
    PROVE  Runners'
<1> USE DEF IInv, Runners, family
<1>1. /\ \A q \in Process : pc'[q] # "idle" => life'[q] = "running"
      /\ \A q \in Process : pc'[q] = "idle" => fds'[q] = {}
      /\ \A q \in Process : child'[q] # None =>
            /\ q < child'[q] /\ child'[q] <= calls' /\ parent'[child'[q]] = q
            /\ lost'[child'[q]] = "no"
  OBVIOUS
<1>2. /\ \A q \in Process : pc'[q] \in Active => child'[q] # None
      /\ \A q \in Process :
            pc'[q] \in Gathers => life'[child'[q]] \in {"booting", "running", "zombie"}
      /\ \A q \in Process :
            pc'[q] \in {"sweep", "drain_out", "drain_err"} => life'[child'[q]] = "zombie"
  OBVIOUS
<1>3. \A p \in Child : Tended(p)'
  <2> SUFFICES ASSUME NEW p \in Child PROVE Tended(p)'
    OBVIOUS
  <2>1. parent[p] \in Process
    BY DEF TypeOK
  <2>2. QED
    BY <2>1 DEF Tended, Alive
<1>4. QED
  BY <1>1, <1>2, <1>3

\* Deaths leave no child with a living parent to nobody.
LEMMA LosesRunners ==
    ASSUME IInv, NEW dead, Loses(dead) PROVE Runners'
<1>1. /\ life \in [Process -> {"none", "booting", "running", "zombie", "gone"}]
      /\ parent \in [Child -> Process] /\ child \in [Process -> Child \cup {None}]
      /\ dead \subseteq Child /\ \A p \in dead : Alive(p) /\ pc'[p] = "idle"
      /\ UNCHANGED <<parent, calls, lost>>
  BY DEF IInv, TypeOK, Loses, family
<1>2. \A p \in Process : /\ p \in dead => life'[p] \in {"zombie", "gone"}
                         /\ p \notin dead => \/ life'[p] = life[p]
                                             \/ life[p] = "zombie" /\ life'[p] = "gone"
  BY <1>1 DEF Loses, Die
<1>3. \A p \in Child : life[p] # "gone" /\ life'[p] = "gone"
                         => parent[p] \in dead \/ ~Alive(parent[p])
  BY <1>1 DEF Loses, Die, Child, Process
<1>4. \A q \in Process : /\ q \in dead => child'[q] = None /\ fds'[q] = {}
                         /\ q \notin dead => child'[q] = child[q] /\ fds'[q] = fds[q]
  BY DEF Loses, Silenced
<1>5. \A q \in Process : q \notin dead => \/ pc'[q] = pc[q]
                                          \/ pc[q] = "sweep" /\ pc'[q] = "drain_out"
                                          \/ pc[q] = "kill" /\ pc'[q] = "wait"
  BY DEF Loses
<1>6. \A q \in Process : pc'[q] \in Active => pc[q] \in Active /\ q \notin dead
  BY <1>1, <1>5 DEF Active, Gathers
<1>7. /\ \A q \in Process : pc'[q] # "idle" => life'[q] = "running"
      /\ \A q \in Process : pc'[q] = "idle" => fds'[q] = {}
  BY <1>1, <1>2, <1>4, <1>5 DEF IInv, Runners
<1>8. /\ \A q \in Process : child'[q] # None =>
            /\ q < child'[q] /\ child'[q] <= calls' /\ parent'[child'[q]] = q
            /\ lost'[child'[q]] = "no"
      /\ \A q \in Process : pc'[q] \in Active => child'[q] # None
  BY <1>1, <1>4, <1>6 DEF IInv, Runners
<1>9. ASSUME NEW q \in Process, pc'[q] \in Active
      PROVE  /\ child'[q] = child[q] /\ child[q] \in Child /\ parent[child[q]] = q
             /\ life[child[q]] \in {"booting", "running", "zombie"}
                  => life'[child[q]] \in {"booting", "running", "zombie"}
             /\ life[child[q]] = "zombie" => life'[child[q]] = "zombie"
  <2>1. q \notin dead /\ child[q] \in Child /\ parent[child[q]] = q /\ life[q] = "running"
    BY <1>6, <1>9, Rearing
  <2>2. Child \subseteq Process
    BY DEF Child, Process
  <2>3. QED
    BY <1>2, <1>3, <1>4, <2>1, <2>2 DEF Alive
<1>10. /\ \A q \in Process :
             pc'[q] \in Gathers => life'[child'[q]] \in {"booting", "running", "zombie"}
       /\ \A q \in Process :
             pc'[q] \in {"sweep", "drain_out", "drain_err"} => life'[child'[q]] = "zombie"
  <2> SUFFICES ASSUME NEW q \in Process
      PROVE  /\ pc'[q] \in Gathers => life'[child'[q]] \in {"booting", "running", "zombie"}
             /\ pc'[q] \in {"sweep", "drain_out", "drain_err"}
                   => life'[child'[q]] = "zombie"
    OBVIOUS
  <2>1. /\ pc'[q] \in Gathers => pc[q] \in Gathers
        /\ pc'[q] \in {"sweep", "drain_out", "drain_err"}
             => pc[q] \in {"sweep", "drain_out", "drain_err"}
    BY <1>1, <1>5, <1>6 DEF Gathers, Active
  <2>2. QED
    BY <1>9, <2>1 DEF IInv, Runners, Gathers, Active
<1>11. \A p \in Child : Tended(p)'
  <2> SUFFICES ASSUME NEW p \in Child, life'[p] \in {"booting", "running", "zombie"},
                      Alive(parent[p])', lost[p] = "no"
               PROVE  child'[parent[p]] = p /\ pc'[parent[p]] \in Active
    BY <1>1 DEF Tended
  <2>1. p \in Process /\ parent[p] \in Process
    BY <1>1 DEF Child, Process
  <2>2. Alive(parent[p]) /\ parent[p] \notin dead
    BY <1>1, <1>2, <2>1 DEF Alive
  <2>3. life[p] \in {"booting", "running", "zombie"}
    BY <1>1, <1>2, <2>1 DEF Alive
  <2>4. child[parent[p]] = p /\ pc[parent[p]] \in Active
    BY <2>2, <2>3 DEF IInv, Runners, Tended
  <2>5. QED
    BY <1>4, <1>5, <2>1, <2>2, <2>4 DEF Active, Gathers
<1>12. QED
  BY <1>7, <1>8, <1>10, <1>11 DEF Runners

\* Every step keeps what a runner may know of its child.
LEMMA RunnersStep == IInv /\ [Next]_vars => Runners'
<1> SUFFICES ASSUME IInv, [Next]_vars PROVE Runners'
  OBVIOUS
<1> USE DepthAssumption, LimitAssumption DEF IInv
<1>life. /\ life \in [Process -> {"none", "booting", "running", "zombie", "gone"}]
         /\ parent \in [Child -> Process] /\ calls \in 0..MaxCalls
         /\ child \in [Process -> Child \cup {None}] /\ pc \in [Process -> Pc]
         /\ fds \in [Process -> SUBSET {"cap_read", "cap_write", "streams"}]
  BY DEF TypeOK
<1>1. CASE InterruptedReading
  <2>1. /\ UNCHANGED <<life, parent, calls, lost, child>> /\ life[0] = "running"
        /\ \A q \in Process \ {0} : pc'[q] = pc[q] /\ fds'[q] = fds[q]
    BY <1>1, <1>life, LimitAssumption DEF InterruptedReading, world, family, Process, Runners
  <2>2. /\ pc'[0] = "idle" => fds'[0] = {}
        /\ pc[0] \in Active => pc'[0] \in Active
        /\ pc'[0] \in Active => child[0] # None
        /\ pc'[0] \in Gathers => pc[0] \in Gathers
        /\ pc'[0] \in {"sweep", "drain_out", "drain_err"} => life[child[0]] = "zombie"
    BY <1>1, <1>life, LimitAssumption DEF InterruptedReading, world, family, Process, Runners, Active,
       Gathers
  <2>3. 0 \in Process
    BY LimitAssumption DEF Process
  <2>4. QED
    BY <2>1, <2>2, <2>3, WorkRunners
<1>2. ASSUME NEW r \in Process, Substitute(r) PROVE Runners'
  <2>1. /\ UNCHANGED <<life, parent, calls, lost, child>> /\ life[r] = "running"
        /\ \A q \in Process \ {r} : pc'[q] = pc[q] /\ fds'[q] = fds[q]
    BY <1>2, <1>life DEF Substitute, tree, TooDeep, world, family, Runners
  <2>2. /\ pc'[r] = "idle" => fds'[r] = {}
        /\ pc[r] \in Active => pc'[r] \in Active
        /\ pc'[r] \in Active => child[r] # None
        /\ pc'[r] \in Gathers => pc[r] \in Gathers
        /\ pc'[r] \in {"sweep", "drain_out", "drain_err"} => life[child[r]] = "zombie"
    BY <1>2, <1>life DEF Substitute, tree, TooDeep, world, family, Runners, Active, Gathers
  <2>3. QED
    BY <2>1, <2>2, WorkRunners
<1>3. ASSUME NEW r \in Process, MakePipe(r) PROVE Runners'
  <2>1. /\ UNCHANGED <<life, parent, calls, lost, child>> /\ life[r] = "running"
        /\ \A q \in Process \ {r} : pc'[q] = pc[q] /\ fds'[q] = fds[q]
    BY <1>3, <1>life DEF MakePipe, world, family, Runners
  <2>2. /\ pc'[r] = "idle" => fds'[r] = {}
        /\ pc[r] \in Active => pc'[r] \in Active
        /\ pc'[r] \in Active => child[r] # None
        /\ pc'[r] \in Gathers => pc[r] \in Gathers
        /\ pc'[r] \in {"sweep", "drain_out", "drain_err"} => life[child[r]] = "zombie"
    BY <1>3, <1>life DEF MakePipe, world, family, Runners, Active, Gathers
  <2>3. QED
    BY <2>1, <2>2, WorkRunners
<1>4. ASSUME NEW r \in Process, Spawn(r) PROVE Runners'
  <2>1. CASE SpawnFails(r)
    <3>1. /\ UNCHANGED <<life, parent, calls, lost, child>> /\ pc' = [pc EXCEPT ![r] = "close"]
          /\ fds' = fds /\ pc[r] = "spawn"
      BY <1>4, <2>1 DEF Spawn, SpawnFails, family, world
    <3>2. QED
      BY <3>1, <1>life, WorkRunners DEF Runners, Active, Gathers
  <2>2. CASE Starts(r, calls + 1)
    <3> DEFINE p == calls + 1
    <3>1. /\ p \in Child /\ r < p /\ pc[r] = "spawn" /\ life[r] = "running"
          /\ life[p] = "none" /\ pc[p] = "idle" /\ calls \in Nat
      BY <1>4, <2>2, <1>life, Newborn, LimitAssumption DEF Spawn, Starts
    <3>2. /\ life' = [life EXCEPT ![p] = "booting"] /\ calls' = p
          /\ parent' = [parent EXCEPT ![p] = r] /\ child' = [child EXCEPT ![r] = p]
          /\ pc' = [pc EXCEPT ![r] = "read"]
          /\ fds' = [fds EXCEPT ![r] = @ \cup {"streams"}] /\ lost' = lost
      BY <1>4, <2>2 DEF Spawn, Starts, Forks
    <3>3. \A q \in Process : child[q] # None => child[q] \in Child /\ child[q] # p
      BY <3>1, <1>life DEF Runners
    <3>4. /\ \A q \in Process : pc'[q] # "idle" => life'[q] = "running"
          /\ \A q \in Process : pc'[q] = "idle" => fds'[q] = {}
      BY <3>1, <3>2, <1>life DEF Runners
    <3>new. p > calls /\ lost[p] = "no"
      BY <3>1 DEF Family
    <3>5. \A q \in Process : child'[q] # None =>
              /\ q < child'[q] /\ child'[q] <= calls' /\ parent'[child'[q]] = q
              /\ lost'[child'[q]] = "no"
      BY <3>1, <3>2, <3>3, <3>new, <1>life DEF Runners, Process, Child
    <3>6. /\ \A q \in Process : pc'[q] \in Active => child'[q] # None
          /\ \A q \in Process :
                pc'[q] \in Gathers => life'[child'[q]] \in {"booting", "running", "zombie"}
          /\ \A q \in Process :
                pc'[q] \in {"sweep", "drain_out", "drain_err"}
                   => life'[child'[q]] = "zombie"
      <4>1. p # None /\ p \in Process
        BY <3>1 DEF Child, Process, None
      <4>2. QED
        BY <3>1, <3>2, <3>3, <4>1, <1>life DEF Runners, Active, Gathers
    <3>7. \A q \in Child : Tended(q)'
      <4> SUFFICES ASSUME NEW q \in Child, life'[q] \in {"booting", "running", "zombie"},
                          Alive(parent[q])', lost[q] = "no"
                   PROVE  child'[parent'[q]] = q /\ pc'[parent'[q]] \in Active
        BY <3>2 DEF Tended
      <4>1. CASE q = p
        BY <3>1, <3>2, <4>1, <1>life DEF Active, Gathers
      <4>2. CASE q # p
        <5>1. parent'[q] = parent[q] /\ life'[q] = life[q] /\ parent[q] \in Process
          BY <3>1, <3>2, <4>2, <1>life DEF Child, Process
        <5>2. child[parent[q]] = q /\ pc[parent[q]] \in Active
          <6>1. parent[q] < q /\ q <= calls
            BY <3>1, <5>1, <1>life DEF Family, Child, Process
          <6>2. Alive(parent[q])
            BY <3>1, <3>2, <5>1, <6>1, <1>life DEF Alive, Process, Child
          <6>3. QED
            BY <5>1, <6>2 DEF Runners, Tended
        <5>3. parent[q] # r
          BY <3>1, <5>2 DEF Active, Gathers
        <5>4. QED
          BY <3>2, <5>1, <5>2, <5>3, <1>life
      <4>3. QED
        BY <4>1, <4>2
    <3>8. QED
      BY <3>4, <3>5, <3>6, <3>7 DEF Runners
  <2>3. QED
    BY <1>4, <2>1, <2>2 DEF Spawn
<1>5. ASSUME NEW r \in Process, NEW s \in Stream, Pump(r, s) PROVE Runners'
  <2>1. /\ UNCHANGED <<life, parent, calls, lost, child>> /\ life[r] = "running"
        /\ \A q \in Process \ {r} : pc'[q] = pc[q] /\ fds'[q] = fds[q]
    BY <1>5, <1>life DEF Pump, Take, Exceeds, family, Runners
  <2>2. /\ pc'[r] = "idle" => fds'[r] = {}
        /\ pc[r] \in Active => pc'[r] \in Active
        /\ pc'[r] \in Active => child[r] # None
        /\ pc'[r] \in Gathers => pc[r] \in Gathers
        /\ pc'[r] \in {"sweep", "drain_out", "drain_err"} => life[child[r]] = "zombie"
    BY <1>5, <1>life DEF Pump, Take, Exceeds, family, Runners, Active, Gathers
  <2>3. QED
    BY <2>1, <2>2, WorkRunners
<1>6. ASSUME NEW r \in Process, NEW s \in Stream, DrainStream(r, s) PROVE Runners'
  <2>1. /\ UNCHANGED <<life, parent, calls, lost, child, fds>> /\ pc[r] \in {"drain_out", "drain_err"}
        /\ pc' = [pc EXCEPT ![r] = pc'[r]] /\ pc'[r] \in {"drain_out", "drain_err", "kill"}
    <3>1. pc[r] \in {"drain_out", "drain_err"} /\ UNCHANGED <<life, parent, calls, lost, child, fds>>
      BY <1>6 DEF DrainStream, Drain, Stream, family
    <3>2. \/ pc' = [pc EXCEPT ![r] = After(s)]
          \/ pc' = [pc EXCEPT ![r] = "kill"] \/ pc' = pc
      BY <1>6 DEF DrainStream
    <3>3. QED
      BY <3>1, <3>2, <1>life DEF After
  <2>2. /\ life[r] = "running" /\ pc[r] \in Active /\ pc[r] \in Gathers /\ child[r] # None
        /\ life[child[r]] = "zombie" /\ pc'[r] \in Active /\ pc'[r] # "idle"
    BY <2>1 DEF Runners, Active, Gathers
  <2>3. \A q \in Process \ {r} : pc'[q] = pc[q] /\ fds'[q] = fds[q]
    BY <2>1, <1>life
  <2>4. QED
    BY <2>1, <2>2, <2>3, WorkRunners
<1>7. ASSUME NEW r \in Process, Check(r) PROVE Runners'
  <2>1. /\ UNCHANGED <<life, parent, calls, lost, child>> /\ life[r] = "running"
        /\ \A q \in Process \ {r} : pc'[q] = pc[q] /\ fds'[q] = fds[q]
    BY <1>7, <1>life DEF Check, SeenExited, family, Runners
  <2>2. /\ pc'[r] = "idle" => fds'[r] = {}
        /\ pc[r] \in Active => pc'[r] \in Active
        /\ pc'[r] \in Active => child[r] # None
        /\ pc'[r] \in Gathers => pc[r] \in Gathers
        /\ pc'[r] \in {"sweep", "drain_out", "drain_err"} => life[child[r]] = "zombie"
    BY <1>7, <1>life DEF Check, SeenExited, family, Runners, Active, Gathers
  <2>3. QED
    BY <2>1, <2>2, WorkRunners
<1>8. ASSUME NEW r \in Process, Sweep(r) PROVE Runners'
  BY <1>8, SweepLoses, LosesRunners
<1>9. ASSUME NEW r \in Process, Kill(r) PROVE Runners'
  BY <1>9, KillLoses, LosesRunners
<1>10. ASSUME NEW r \in Process, Wait(r) PROVE Runners'
  <2>1. \A q \in Process : pc'[q] # "idle" => life'[q] = "running"
    BY <1>10, <1>life DEF Wait, family, Runners, Tended, Alive, Active, Gathers, Process,
       Child, None
  <2>2. \A q \in Process : pc'[q] = "idle" => fds'[q] = {}
    BY <1>10, <1>life DEF Wait, family, Runners, Tended, Alive, Active, Gathers, Process,
       Child, None
  <2>3. \A q \in Process : child'[q] # None =>
        /\ q < child'[q] /\ child'[q] <= calls' /\ parent'[child'[q]] = q
        /\ lost'[child'[q]] = "no"
    BY <1>10, <1>life DEF Wait, family, Runners, Tended, Alive, Active, Gathers, Process,
       Child, None
  <2>4. \A q \in Process : pc'[q] \in Active => child'[q] # None
    BY <1>10, <1>life DEF Wait, family, Runners, Tended, Alive, Active, Gathers, Process,
       Child, None
  <2>5. \A q \in Process :
        pc'[q] \in Gathers => life'[child'[q]] \in {"booting", "running", "zombie"}
    BY <1>10, <1>life DEF Wait, family, Runners, Tended, Alive, Active, Gathers, Process,
       Child, None
  <2>6. \A q \in Process :
        pc'[q] \in {"sweep", "drain_out", "drain_err"} => life'[child'[q]] = "zombie"
    BY <1>10, <1>life DEF Wait, family, Runners, Tended, Alive, Active, Gathers, Process,
       Child, None
  <2>7. \A p \in Child : Tended(p)'
    BY <1>10, <1>life DEF Wait, family, Runners, Tended, Alive, Active, Gathers, Process,
       Child, None
  <2>8. QED
    BY <2>1, <2>2, <2>3, <2>4, <2>5, <2>6, <2>7 DEF Runners
<1>11. ASSUME NEW r \in Process, Return(r) PROVE Runners'
  <2>1. \A q \in Process : pc'[q] # "idle" => life'[q] = "running"
    BY <1>11, <1>life DEF Return, Leaves, Forgets, tree, Text, Captured, LeftOpen, family, Runners, Tended, Alive,
       Active, Gathers, Process, Child, None
  <2>2. \A q \in Process : pc'[q] = "idle" => fds'[q] = {}
    BY <1>11, <1>life DEF Return, Leaves, Forgets, tree, Text, Captured, LeftOpen, family, Runners, Tended, Alive,
       Active, Gathers, Process, Child, None
  <2>3. \A q \in Process : child'[q] # None =>
        /\ q < child'[q] /\ child'[q] <= calls' /\ parent'[child'[q]] = q
        /\ lost'[child'[q]] = "no"
    BY <1>11, <1>life DEF Return, Leaves, Forgets, tree, Text, Captured, LeftOpen, family, Runners, Tended, Alive,
       Active, Gathers, Process, Child, None
  <2>4. \A q \in Process : pc'[q] \in Active => child'[q] # None
    BY <1>11, <1>life DEF Return, Leaves, Forgets, tree, Text, Captured, LeftOpen, family, Runners, Tended, Alive,
       Active, Gathers, Process, Child, None
  <2>5. \A q \in Process :
        pc'[q] \in Gathers => life'[child'[q]] \in {"booting", "running", "zombie"}
    BY <1>11, <1>life DEF Return, Leaves, Forgets, tree, Text, Captured, LeftOpen, family, Runners, Tended, Alive,
       Active, Gathers, Process, Child, None
  <2>6. \A q \in Process :
        pc'[q] \in {"sweep", "drain_out", "drain_err"} => life'[child'[q]] = "zombie"
    BY <1>11, <1>life DEF Return, Leaves, Forgets, tree, Text, Captured, LeftOpen, family, Runners, Tended, Alive,
       Active, Gathers, Process, Child, None
  <2>7. \A p \in Child : Tended(p)'
    BY <1>11, <1>life DEF Return, Leaves, Forgets, tree, Text, Captured, LeftOpen, family, Runners, Tended, Alive,
       Active, Gathers, Process, Child, None
  <2>8. QED
    BY <2>1, <2>2, <2>3, <2>4, <2>5, <2>6, <2>7 DEF Runners
<1>12. ASSUME NEW r \in Process, Deadline(r) PROVE Runners'
  <2>1. UNCHANGED <<life, parent, calls, lost, child, pc, fds>>
    BY <1>12 DEF Deadline, world, family
  <2>2. QED
    BY <2>1 DEF Runners, Tended, Alive, family
<1>13. ASSUME NEW p \in Child, Boot(p) PROVE Runners'
  <2>1. \A q \in Process : pc'[q] # "idle" => life'[q] = "running"
    BY <1>13, <1>life DEF Boot, Consumes, family, Runners, Tended, Alive, Active, Gathers,
       Process, Child, None
  <2>2. \A q \in Process : pc'[q] = "idle" => fds'[q] = {}
    BY <1>13, <1>life DEF Boot, Consumes, family, Runners, Tended, Alive, Active, Gathers,
       Process, Child, None
  <2>3. \A q \in Process : child'[q] # None =>
        /\ q < child'[q] /\ child'[q] <= calls' /\ parent'[child'[q]] = q
        /\ lost'[child'[q]] = "no"
    BY <1>13, <1>life DEF Boot, Consumes, family, Runners, Tended, Alive, Active, Gathers,
       Process, Child, None
  <2>4. \A q \in Process : pc'[q] \in Active => child'[q] # None
    BY <1>13, <1>life DEF Boot, Consumes, family, Runners, Tended, Alive, Active, Gathers,
       Process, Child, None
  <2>5. \A q \in Process :
        pc'[q] \in Gathers => life'[child'[q]] \in {"booting", "running", "zombie"}
    BY <1>13, <1>life DEF Boot, Consumes, family, Runners, Tended, Alive, Active, Gathers,
       Process, Child, None
  <2>6. \A q \in Process :
        pc'[q] \in {"sweep", "drain_out", "drain_err"} => life'[child'[q]] = "zombie"
    BY <1>13, <1>life DEF Boot, Consumes, family, Runners, Tended, Alive, Active, Gathers,
       Process, Child, None
  <2>7. \A e \in Child : Tended(e)'
    BY <1>13, <1>life DEF Boot, Consumes, family, Runners, Tended, Alive, Active, Gathers,
       Process, Child, None
  <2>8. QED
    BY <2>1, <2>2, <2>3, <2>4, <2>5, <2>6, <2>7 DEF Runners
<1>14. ASSUME NEW p \in Child, Exit(p) PROVE Runners'
  BY <1>14, ExitLoses, LosesRunners
<1>15. ASSUME NEW p \in Child, Reuse(p) PROVE Runners'
  <2>1. UNCHANGED <<life, parent, calls, lost, child, pc, fds>>
    BY <1>15 DEF Reuse, NumberFree, family
  <2>2. QED
    BY <2>1 DEF Runners, Tended, Alive, family
<1>16. ASSUME NEW p \in Child, NEW s \in Stream, Write(p, s) PROVE Runners'
  <2>1. UNCHANGED <<life, parent, calls, lost, child, pc, fds>>
    BY <1>16 DEF Write, Open, family
  <2>2. QED
    BY <2>1 DEF Runners, Tended, Alive, family
<1>17. ASSUME NEW p \in Child, NEW k \in Kin, StartKin(p, k) PROVE Runners'
  <2>1. UNCHANGED <<life, parent, calls, lost, child, pc, fds>>
    BY <1>17 DEF StartKin, family
  <2>2. QED
    BY <2>1 DEF Runners, Tended, Alive, family
<1>18. ASSUME NEW k \in Kin, KinLeaves(k) PROVE Runners'
  <2>1. UNCHANGED <<life, parent, calls, lost, child, pc, fds>>
    BY <1>18 DEF KinLeaves, family
  <2>2. QED
    BY <2>1 DEF Runners, Tended, Alive, family
<1>19. ASSUME NEW k \in Kin, KinExits(k) PROVE Runners'
  <2>1. UNCHANGED <<life, parent, calls, lost, child, pc, fds>>
    BY <1>19 DEF KinExits, family
  <2>2. QED
    BY <2>1 DEF Runners, Tended, Alive, family
<1>20. ASSUME NEW k \in Kin, NEW s \in Stream, KinWrites(k, s) PROVE Runners'
  <2>1. UNCHANGED <<life, parent, calls, lost, child, pc, fds>>
    BY <1>20 DEF KinWrites, Open, family
  <2>2. QED
    BY <2>1 DEF Runners, Tended, Alive, family
<1>21. CASE UNCHANGED vars
  <2>1. UNCHANGED <<life, parent, calls, lost, child, pc, fds>>
    BY <1>21 DEF vars, family
  <2>2. QED
    BY <2>1 DEF Runners, Tended, Alive, family
<1>22. CASE InterruptedPopen
  <2>0. 0 \in Process /\ pc[0] = "spawn"
    BY <1>22, LimitAssumption DEF InterruptedPopen, Process
  <2>1. CASE UNCHANGED <<world, claim>>
    <3>1. /\ UNCHANGED <<life, parent, calls, lost, child>> /\ pc' = [pc EXCEPT ![0] = "close"]
          /\ fds' = fds
      BY <1>22, <2>1 DEF InterruptedPopen, world, family
    <3>2. QED
      BY <2>0, <3>1, <1>life, WorkRunners DEF Runners, Active, Gathers
  <2>2. CASE Forks(0, calls + 1) /\ lost' = [lost EXCEPT ![calls + 1] = "unkilled"]
    <3> DEFINE p == calls + 1
    <3>1. p \in Child /\ life[p] = "none" /\ pc[p] = "idle" /\ calls \in Nat
      BY <2>0, <2>2, <1>life, Newborn, LimitAssumption
    <3>2. /\ life' = [life EXCEPT ![p] = "booting"] /\ calls' = p
          /\ parent' = [parent EXCEPT ![p] = 0] /\ UNCHANGED <<child, fds>>
          /\ pc' = [pc EXCEPT ![0] = "close"] /\ lost' = [lost EXCEPT ![p] = "unkilled"]
      BY <1>22, <2>2 DEF InterruptedPopen, Forks
    <3>3. \A q \in Process : child[q] # None => child[q] \in Child /\ child[q] # p
      BY <3>1, <1>life DEF Runners
    <3>4. /\ \A q \in Process : pc'[q] # "idle" => life'[q] = "running"
          /\ \A q \in Process : pc'[q] = "idle" => fds'[q] = {}
      BY <2>0, <3>1, <3>2, <1>life DEF Runners
    <3>5. \A q \in Process : child'[q] # None =>
              /\ q < child'[q] /\ child'[q] <= calls' /\ parent'[child'[q]] = q
              /\ lost'[child'[q]] = "no"
      BY <3>1, <3>2, <3>3, <1>life DEF Runners, Process, Child, TypeOK
    <3>6. \A q \in Process : pc'[q] \in Active => pc[q] \in Active /\ pc'[q] = pc[q]
      BY <2>0, <3>2, <1>life DEF Active, Gathers
    <3>7. /\ \A q \in Process : pc'[q] \in Active => child'[q] # None
          /\ \A q \in Process :
                pc'[q] \in Gathers => life'[child'[q]] \in {"booting", "running", "zombie"}
          /\ \A q \in Process :
                pc'[q] \in {"sweep", "drain_out", "drain_err"}
                   => life'[child'[q]] = "zombie"
      <4> SUFFICES ASSUME NEW q \in Process, pc'[q] \in Active
                   PROVE  /\ child'[q] # None
                          /\ pc'[q] \in Gathers
                               => life'[child'[q]] \in {"booting", "running", "zombie"}
                          /\ pc'[q] \in {"sweep", "drain_out", "drain_err"}
                               => life'[child'[q]] = "zombie"
        BY DEF Active, Gathers
      <4>1. /\ pc'[q] = pc[q] /\ child'[q] = child[q] /\ child[q] # None
            /\ child[q] \in Child /\ child[q] # p
        BY <3>2, <3>3, <3>6 DEF Runners
      <4>2. life'[child[q]] = life[child[q]]
        BY <3>2, <4>1, <1>life DEF Child, Process
      <4>3. QED
        BY <4>1, <4>2 DEF Runners
    <3>8. \A q \in Child : Tended(q)'
      <4> SUFFICES ASSUME NEW q \in Child, life'[q] \in {"booting", "running", "zombie"},
                          Alive(parent[q])', lost'[q] = "no"
                   PROVE  child'[parent'[q]] = q /\ pc'[parent'[q]] \in Active
        BY DEF Tended
      <4>1. q # p /\ lost[q] = "no"
        BY <3>1, <3>2 DEF TypeOK
      <4>2. parent'[q] = parent[q] /\ life'[q] = life[q] /\ parent[q] \in Process
        BY <3>1, <3>2, <4>1, <1>life DEF Child, Process
      <4>3. parent[q] < q /\ q <= calls
        BY <3>1, <4>2, <1>life DEF Family, Child, Process
      <4>4. Alive(parent[q])
        BY <3>1, <3>2, <4>2, <4>3, <1>life DEF Alive, Process, Child
      <4>5. child[parent[q]] = q /\ pc[parent[q]] \in Active
        BY <4>1, <4>2, <4>4 DEF Runners, Tended
      <4>6. parent[q] # 0
        BY <2>0, <4>5 DEF Active, Gathers
      <4>7. QED
        BY <3>2, <4>2, <4>5, <4>6, <1>life
    <3>9. QED
      BY <3>4, <3>5, <3>7, <3>8 DEF Runners
  <2>3. QED
    BY <1>22, <2>1, <2>2 DEF InterruptedPopen
<1>23. CASE InterruptedEnding
  <2>1. /\ 0 \in Process /\ pc[0] \in Active /\ child[0] \in Child
        /\ life[0] = "running" /\ 0 < child[0]
    BY <1>23, LimitAssumption, Rearing DEF InterruptedEnding, Active, Gathers, Process
  <2>2. /\ UNCHANGED <<life, parent, calls, fds>> /\ pc' = [pc EXCEPT ![0] = "close"]
        /\ child' = [child EXCEPT ![0] = None]
        /\ \A q \in Child : q # child[0] => lost'[q] = lost[q]
        /\ lost'[child[0]] # "no"
    BY <1>23, <2>1 DEF InterruptedEnding, Forgets, TypeOK
  <2>3. \A q \in Process : q # 0 /\ child[q] # None => child[q] # child[0]
    BY <2>1 DEF Runners
  <2>4. /\ \A q \in Process : pc'[q] # "idle" => life'[q] = "running"
        /\ \A q \in Process : pc'[q] = "idle" => fds'[q] = {}
    BY <2>1, <2>2, <1>life DEF Runners
  <2>5. \A q \in Process : child'[q] # None =>
            /\ q < child'[q] /\ child'[q] <= calls' /\ parent'[child'[q]] = q
            /\ lost'[child'[q]] = "no"
    <3> SUFFICES ASSUME NEW q \in Process, child'[q] # None
                 PROVE  /\ q < child'[q] /\ child'[q] <= calls' /\ parent'[child'[q]] = q
                        /\ lost'[child'[q]] = "no"
      OBVIOUS
    <3>1. q # 0 /\ child'[q] = child[q] /\ child[q] \in Child
      BY <2>1, <2>2, <1>life
    <3>2. QED
      BY <2>2, <2>3, <3>1 DEF Runners
  <2>6. /\ \A q \in Process : pc'[q] \in Active => child'[q] # None
        /\ \A q \in Process :
              pc'[q] \in Gathers => life'[child'[q]] \in {"booting", "running", "zombie"}
        /\ \A q \in Process :
              pc'[q] \in {"sweep", "drain_out", "drain_err"} => life'[child'[q]] = "zombie"
    <3>1. \A q \in Process : pc'[q] \in Active =>
              pc'[q] = pc[q] /\ child'[q] = child[q] /\ life' = life
      BY <2>1, <2>2, <1>life DEF Active, Gathers
    <3>2. QED
      BY <3>1 DEF Runners, Active, Gathers
  <2>7. \A p \in Child : Tended(p)'
    <3> SUFFICES ASSUME NEW p \in Child, life[p] \in {"booting", "running", "zombie"},
                        Alive(parent[p]), lost'[p] = "no"
                 PROVE  child'[parent[p]] = p /\ pc'[parent[p]] \in Active
      BY <2>2 DEF Tended, Alive
    <3>1. p # child[0] /\ lost[p] = "no" /\ parent[p] \in Process
      BY <2>2, <1>life
    <3>2. child[parent[p]] = p /\ pc[parent[p]] \in Active
      BY <3>1 DEF Runners, Tended
    <3>3. QED
      BY <2>2, <3>1, <3>2, <1>life
  <2>8. QED
    BY <2>4, <2>5, <2>6, <2>7 DEF Runners
<1>24. CASE InterruptedLeaving
  <2>1. /\ 0 \in Process /\ pc[0] \notin Active
        /\ UNCHANGED <<life, parent, calls, lost>> /\ pc' = [pc EXCEPT ![0] = "idle"]
        /\ child' = [child EXCEPT ![0] = None] /\ fds' = [fds EXCEPT ![0] = {}]
    BY <1>24, LimitAssumption DEF InterruptedLeaving, Leaves, Forgets, tree, Active,
       Gathers, Process
  <2>2. /\ \A q \in Process : pc'[q] # "idle" => life'[q] = "running"
        /\ \A q \in Process : pc'[q] = "idle" => fds'[q] = {}
    BY <2>1, <1>life DEF Runners
  <2>3. \A q \in Process : q # 0 => child'[q] = child[q] /\ pc'[q] = pc[q]
    BY <2>1, <1>life
  <2>4. \A q \in Process : child'[q] # None =>
            /\ q < child'[q] /\ child'[q] <= calls' /\ parent'[child'[q]] = q
            /\ lost'[child'[q]] = "no"
    BY <2>1, <2>3, <1>life DEF Runners
  <2>5. /\ \A q \in Process : pc'[q] \in Active => child'[q] # None
        /\ \A q \in Process :
              pc'[q] \in Gathers => life'[child'[q]] \in {"booting", "running", "zombie"}
        /\ \A q \in Process :
              pc'[q] \in {"sweep", "drain_out", "drain_err"} => life'[child'[q]] = "zombie"
    <3>1. pc'[0] = "idle"
      BY <2>1, <1>life
    <3>2. QED
      BY <2>1, <2>3, <3>1 DEF Runners, Active, Gathers
  <2>6. \A p \in Child : Tended(p)'
    <3> SUFFICES ASSUME NEW p \in Child, life[p] \in {"booting", "running", "zombie"},
                        Alive(parent[p]), lost[p] = "no"
                 PROVE  child'[parent[p]] = p /\ pc'[parent[p]] \in Active
      BY <2>1 DEF Tended, Alive
    <3>1. child[parent[p]] = p /\ pc[parent[p]] \in Active /\ parent[p] \in Process
      BY <1>life DEF Runners, Tended
    <3>2. QED
      BY <2>1, <2>3, <3>1
  <2>7. QED
    BY <2>2, <2>4, <2>5, <2>6 DEF Runners
<1>25. ASSUME NEW p \in Child, Collect(p) PROVE Runners'
  <2>1. /\ life[p] = "zombie" /\ lost[p] # "no" /\ life' = [life EXCEPT ![p] = "gone"]
        /\ UNCHANGED <<parent, calls, lost, child, pc, fds>> /\ p \in Process
    BY <1>25 DEF Collect, family, Child, Process
  <2>2. \A q \in Process : child[q] # None => child[q] # p /\ child[q] \in Process
    BY <2>1, <1>life DEF Runners, Child, Process
  <2>3. /\ \A q \in Process : pc'[q] # "idle" => life'[q] = "running"
        /\ \A q \in Process : pc'[q] = "idle" => fds'[q] = {}
        /\ \A q \in Process : child'[q] # None =>
              /\ q < child'[q] /\ child'[q] <= calls' /\ parent'[child'[q]] = q
              /\ lost'[child'[q]] = "no"
        /\ \A q \in Process : pc'[q] \in Active => child'[q] # None
    BY <2>1, <1>life DEF Runners
  <2>4. /\ \A q \in Process :
              pc'[q] \in Gathers => life'[child'[q]] \in {"booting", "running", "zombie"}
        /\ \A q \in Process :
              pc'[q] \in {"sweep", "drain_out", "drain_err"} => life'[child'[q]] = "zombie"
    BY <2>1, <2>2, <1>life DEF Runners, Active, Gathers
  <2>5. \A q \in Child : Tended(q)'
    <3> SUFFICES ASSUME NEW q \in Child, life'[q] \in {"booting", "running", "zombie"},
                        Alive(parent[q])', lost[q] = "no"
                 PROVE  child[parent[q]] = q /\ pc[parent[q]] \in Active
      BY <2>1 DEF Tended
    <3>1. /\ q # p /\ q \in Process /\ parent[q] \in Process /\ parent'[q] = parent[q]
          /\ life'[q] = life[q]
      BY <2>1, <1>life DEF Child, Process
    <3>2. Alive(parent[q])
      BY <2>1, <3>1, <1>life DEF Alive
    <3>3. QED
      BY <3>1, <3>2 DEF Runners, Tended
  <2>6. QED
    BY <2>3, <2>4, <2>5 DEF Runners
<1>26. QED
  BY <1>1, <1>2, <1>3, <1>4, <1>5, <1>6, <1>7, <1>8, <1>9, <1>10, <1>11, <1>12, <1>13,
     <1>14, <1>15, <1>16, <1>17, <1>18, <1>19, <1>20, <1>21, <1>22, <1>23, <1>24, <1>25
     DEF Next, Runner, CtrlC

\* Nothing new in the domain, which goes on.
LEMMA DomainKept ==
    ASSUME IInv, UNCHANGED lost,
           \A p \in Child : Alive(p)' => Alive(p) /\ grp'[p] = grp[p],
           \A k \in Kin : kin'[k].alive /\ kin'[k].grp # None
                            => kin[k].alive /\ kin'[k].grp = kin[k].grp,
           pc[0] \in Gathers => pc'[0] \in Gathers /\ child'[0] = child[0]
    PROVE  Domain'
BY DEF IInv, Domain, Held, Unkilled, InDomain

\* Deaths bring nothing into the domain.
LEMMA LosesDomain ==
    ASSUME IInv, NEW dead, Loses(dead)
    PROVE  UNCHANGED lost /\ \A p \in Child : Alive(p)' => Alive(p) /\ grp'[p] = grp[p]
<1>1. dead \subseteq Child /\ UNCHANGED <<grp, lost>> /\ Child \subseteq Process
  BY DEF Loses, family, Child, Process
<1>2. \A p \in Process : /\ p \in dead => life'[p] \in {"zombie", "gone"}
                         /\ p \notin dead => \/ life'[p] = life[p]
                                             \/ life[p] = "zombie" /\ life'[p] = "gone"
  BY <1>1 DEF Loses, Die
<1>3. QED
  BY <1>1, <1>2 DEF Alive

\* When the user's shell gives up, nothing of its domain is left.
LEMMA DomainKilled ==
    ASSUME IInv, Kill(0)
    PROVE  /\ UNCHANGED <<grp, lost>>
           /\ \A p \in Child : Alive(p)' => Unkilled(grp[p])
           /\ \A k \in Kin : kin'[k].alive /\ kin'[k].grp # None => Unkilled(kin'[k].grp)
<1> USE DEF IInv
<1>1. ~contained[0] /\ pc[0] \in Gathers
  BY DEF Kill, Family, Gathers
<1>2. /\ Die(Members(child[0]))
      /\ kin' = [k \in Kin |-> IF k \in KinMembers(child[0]) THEN Gone ELSE kin[k]]
  BY <1>1 DEF Kill, KillGroup
<1>3. /\ Child \subseteq Process
      /\ \A p \in Child : Alive(p) => p \in Members(child[0]) \/ Unkilled(grp[p])
  BY DEF Domain, Held, Unkilled, InDomain, Members, Child, Process
<1>4. \A k \in Kin : kin[k].alive /\ kin[k].grp # None
                         => k \in KinMembers(child[0]) \/ Unkilled(kin[k].grp)
  BY DEF Domain, Held, Unkilled, InDomain, KinMembers
<1>5. \A p \in Child : /\ p \in Members(child[0]) => life'[p] \in {"zombie", "gone"}
                       /\ ~Alive(p) => life'[p] \in {life[p], "gone"}
  BY <1>2, <1>3 DEF Die, Members
<1>6. UNCHANGED <<grp, lost>>
  BY DEF Kill, family
<1>7. \A p \in Child : Alive(p)' => Unkilled(grp[p])
  BY <1>3, <1>5 DEF Alive
<1>8. \A k \in Kin : kin'[k].alive /\ kin'[k].grp # None => Unkilled(kin'[k].grp)
  BY <1>2, <1>4 DEF Gone
<1>9. QED
  BY <1>6, <1>7, <1>8

\* Every step keeps whatever lives in the one domain.
LEMMA DomainStep == IInv /\ [Next]_vars => Domain'
<1> SUFFICES ASSUME IInv, [Next]_vars PROVE Domain'
  OBVIOUS
<1> USE DEF IInv, Programs
<1>life. /\ life \in [Process -> {"none", "booting", "running", "zombie", "gone"}]
         /\ child \in [Process -> Child \cup {None}] /\ pc \in [Process -> Pc]
         /\ grp \in [Child -> Child \cup {None}] /\ 0 \in Process /\ Child \subseteq Process
         /\ calls \in 0..MaxCalls
  BY LimitAssumption DEF TypeOK, Process, Child
<1>kin. kin \in [Kin -> Programs]
  BY DEF TypeOK
<1>1. CASE InterruptedReading
  <2>1. UNCHANGED lost /\ \A p \in Child : Alive(p)' => Alive(p) /\ grp'[p] = grp[p]
    BY <1>1, <1>life DEF InterruptedReading, world, family, Alive
  <2>2. \A q \in Kin : kin'[q].alive /\ kin'[q].grp # None
                         => kin[q].alive /\ kin'[q].grp = kin[q].grp
    BY <1>1, <1>kin DEF InterruptedReading, world, family, None, Gone
  <2>3. pc[0] \in Gathers => pc'[0] \in Gathers /\ child'[0] = child[0]
    BY <1>1, <1>life DEF InterruptedReading, world, family, Gathers
  <2>4. QED
    BY <2>1, <2>2, <2>3, DomainKept
<1>2. ASSUME NEW r \in Process, Substitute(r) PROVE Domain'
  <2>1. UNCHANGED lost /\ \A p \in Child : Alive(p)' => Alive(p) /\ grp'[p] = grp[p]
    BY <1>2, <1>life DEF Substitute, tree, TooDeep, world, family, Alive
  <2>2. \A q \in Kin : kin'[q].alive /\ kin'[q].grp # None
                         => kin[q].alive /\ kin'[q].grp = kin[q].grp
    BY <1>2, <1>kin DEF Substitute, tree, TooDeep, world, family, None, Gone
  <2>3. pc[0] \in Gathers => pc'[0] \in Gathers /\ child'[0] = child[0]
    BY <1>2, <1>life DEF Substitute, tree, TooDeep, world, family, Gathers
  <2>4. QED
    BY <2>1, <2>2, <2>3, DomainKept
<1>3. ASSUME NEW r \in Process, MakePipe(r) PROVE Domain'
  <2>1. UNCHANGED lost /\ \A p \in Child : Alive(p)' => Alive(p) /\ grp'[p] = grp[p]
    BY <1>3, <1>life DEF MakePipe, world, family, Alive
  <2>2. \A q \in Kin : kin'[q].alive /\ kin'[q].grp # None
                         => kin[q].alive /\ kin'[q].grp = kin[q].grp
    BY <1>3, <1>kin DEF MakePipe, world, family, None, Gone
  <2>3. pc[0] \in Gathers => pc'[0] \in Gathers /\ child'[0] = child[0]
    BY <1>3, <1>life DEF MakePipe, world, family, Gathers
  <2>4. QED
    BY <2>1, <2>2, <2>3, DomainKept
<1>4. ASSUME NEW r \in Process, Spawn(r) PROVE Domain'
  <2>1. CASE SpawnFails(r)
    <3>1. /\ UNCHANGED <<life, family, child, kin>> /\ pc[r] = "spawn"
          /\ pc' = [pc EXCEPT ![r] = "close"]
      BY <1>4, <2>1 DEF Spawn, SpawnFails, world
    <3>2. QED
      BY <3>1, <1>life DEF Domain, Held, Unkilled, InDomain, Alive, family, Gathers
  <2>2. CASE Starts(r, calls + 1)
    <3> DEFINE p == calls + 1
    <3>1. /\ p \in Child /\ life[r] = "running" /\ pc[r] = "spawn" /\ r # p
          /\ GroupOf(r, p) \in Child
          /\ r = 0 => GroupOf(r, p) = p
          /\ r # 0 => Held(GroupOf(r, p))
      <4>1. p \in Child /\ life[r] = "running" /\ pc[r] = "spawn" /\ r < p
        BY <1>4, <2>2, Newborn DEF Spawn, Starts
      <4>2. QED
        BY <4>1, BornInto DEF Process, Child
    <3>2. /\ life' = [life EXCEPT ![p] = "booting"] /\ kin' = kin
          /\ child' = [child EXCEPT ![r] = p] /\ pc' = [pc EXCEPT ![r] = "read"]
          /\ grp' = [grp EXCEPT ![p] = GroupOf(r, p)] /\ lost' = lost
      BY <1>4, <2>2 DEF Spawn, Starts, Forks
    <3>3. p # None
      BY <3>1 DEF Child, None
    <3>4. CASE r = 0
      <4>1. /\ \A q \in Child : Alive(q) => Unkilled(grp[q])
            /\ \A k \in Kin : kin[k].alive /\ kin[k].grp # None => Unkilled(kin[k].grp)
        BY <3>1, <3>4 DEF Domain, Held, Unkilled, InDomain, Gathers
      <4>2. grp'[p] = p /\ child'[0] = p /\ pc'[0] = "read"
        BY <3>1, <3>2, <3>4, <1>life
      <4>3. QED
        BY <3>2, <3>3, <4>1, <4>2, <1>life DEF Domain, Held, Unkilled, InDomain, Alive, Gathers
    <3>5. CASE r # 0
      <4>1. child'[0] = child[0] /\ pc'[0] = pc[0] /\ grp'[p] = GroupOf(r, p)
        BY <3>1, <3>2, <3>5, <1>life
      <4>2. Held(grp'[p])
        BY <3>1, <3>5, <4>1
      <4>3. QED
        BY <3>2, <4>1, <4>2, <1>life DEF Domain, Held, Unkilled, InDomain, Alive
    <3>6. QED
      BY <3>4, <3>5
  <2>3. QED
    BY <1>4, <2>1, <2>2 DEF Spawn
<1>5. ASSUME NEW r \in Process, NEW s \in Stream, Pump(r, s) PROVE Domain'
  <2>1. UNCHANGED lost /\ \A p \in Child : Alive(p)' => Alive(p) /\ grp'[p] = grp[p]
    BY <1>5, <1>life DEF Pump, Take, Exceeds, family, Alive
  <2>2. \A q \in Kin : kin'[q].alive /\ kin'[q].grp # None
                         => kin[q].alive /\ kin'[q].grp = kin[q].grp
    BY <1>5, <1>kin DEF Pump, Take, Exceeds, family, None, Gone
  <2>3. pc[0] \in Gathers => pc'[0] \in Gathers /\ child'[0] = child[0]
    BY <1>5, <1>life DEF Pump, Take, Exceeds, family, Gathers
  <2>4. QED
    BY <2>1, <2>2, <2>3, DomainKept
<1>6. ASSUME NEW r \in Process, NEW s \in Stream, DrainStream(r, s) PROVE Domain'
  <2>1. UNCHANGED lost /\ \A p \in Child : Alive(p)' => Alive(p) /\ grp'[p] = grp[p]
    BY <1>6, <1>life DEF DrainStream, Take, Exceeds, Empty, After, Drain, family, Alive
  <2>2. \A q \in Kin : kin'[q].alive /\ kin'[q].grp # None
                         => kin[q].alive /\ kin'[q].grp = kin[q].grp
    BY <1>6, <1>kin DEF DrainStream, Take, Exceeds, Empty, After, Drain, family, None, Gone
  <2>3. pc[0] \in Gathers => pc'[0] \in Gathers /\ child'[0] = child[0]
    <3>1. \A q \in Process : pc'[q] = pc[q] \/ pc'[q] \in {"drain_err", "kill"}
      BY <1>6, <1>life DEF DrainStream, After, Stream
    <3>2. QED
      BY <1>6, <1>life, <3>1 DEF DrainStream, Gathers
  <2>4. QED
    BY <2>1, <2>2, <2>3, DomainKept
<1>7. ASSUME NEW r \in Process, Check(r) PROVE Domain'
  <2>1. UNCHANGED lost /\ \A p \in Child : Alive(p)' => Alive(p) /\ grp'[p] = grp[p]
    BY <1>7, <1>life DEF Check, SeenExited, family, Alive
  <2>2. \A q \in Kin : kin'[q].alive /\ kin'[q].grp # None
                         => kin[q].alive /\ kin'[q].grp = kin[q].grp
    BY <1>7, <1>kin DEF Check, SeenExited, family, None, Gone
  <2>3. pc[0] \in Gathers => pc'[0] \in Gathers /\ child'[0] = child[0]
    BY <1>7, <1>life DEF Check, SeenExited, family, Gathers
  <2>4. QED
    BY <2>1, <2>2, <2>3, DomainKept
<1>8. ASSUME NEW r \in Process, Sweep(r) PROVE Domain'
  <2>1. UNCHANGED lost /\ \A p \in Child : Alive(p)' => Alive(p) /\ grp'[p] = grp[p]
    BY <1>8, SweepLoses, LosesDomain
  <2>2. \A q \in Kin : kin'[q].alive /\ kin'[q].grp # None
                         => kin[q].alive /\ kin'[q].grp = kin[q].grp
    BY <1>8, <1>kin DEF Sweep, KillGroup, Silenced, Die, Members, KinMembers, family, None,
       Gone
  <2>3. pc[0] \in Gathers => pc'[0] \in Gathers /\ child'[0] = child[0]
    <3>1. 0 \notin Members(child[r])
      BY DEF Members, Child
    <3>2. QED
      BY <1>8, <3>1, <1>life DEF Sweep, Silenced, Gathers
  <2>4. QED
    BY <2>1, <2>2, <2>3, DomainKept
<1>9. ASSUME NEW r \in Process, Kill(r) PROVE Domain'
  <2>1. CASE r = 0
    BY <1>9, <2>1, DomainKilled DEF Domain, Held, Unkilled
  <2>2. CASE r # 0
    <3>1. UNCHANGED lost /\ \A p \in Child : Alive(p)' => Alive(p) /\ grp'[p] = grp[p]
      BY <1>9, KillLoses, LosesDomain
    <3>2. \A q \in Kin : kin'[q].alive /\ kin'[q].grp # None
                           => kin[q].alive /\ kin'[q].grp = kin[q].grp
      BY <1>9, <1>kin DEF Kill, KillGroup, KillChild, Victims, Silenced, Die, Members,
         KinMembers, family, None, Gone
    <3>3. pc[0] \in Gathers => pc'[0] \in Gathers /\ child'[0] = child[0]
      <4>1. 0 \notin Victims(r)
      BY DEF Victims, Members, Child
    <4>2. QED
      BY <1>9, <2>2, <4>1, <1>life DEF Kill, Silenced
    <3>4. QED
      BY <3>1, <3>2, <3>3, DomainKept
  <2>3. QED
    BY <2>1, <2>2
<1>10. ASSUME NEW r \in Process, Wait(r) PROVE Domain'
  <2>1. UNCHANGED lost /\ \A p \in Child : Alive(p)' => Alive(p) /\ grp'[p] = grp[p]
    BY <1>10, <1>life DEF Wait, family, Alive
  <2>2. \A q \in Kin : kin'[q].alive /\ kin'[q].grp # None
                         => kin[q].alive /\ kin'[q].grp = kin[q].grp
    BY <1>10, <1>kin DEF Wait, family, None, Gone
  <2>3. pc[0] \in Gathers => pc'[0] \in Gathers /\ child'[0] = child[0]
    BY <1>10, <1>life DEF Wait, family, Gathers
  <2>4. QED
    BY <2>1, <2>2, <2>3, DomainKept
<1>11. ASSUME NEW r \in Process, Return(r) PROVE Domain'
  <2>1. UNCHANGED lost /\ \A p \in Child : Alive(p)' => Alive(p) /\ grp'[p] = grp[p]
    BY <1>11, <1>life DEF Return, Leaves, Forgets, tree, Text, Captured, LeftOpen, family, Alive
  <2>2. \A q \in Kin : kin'[q].alive /\ kin'[q].grp # None
                         => kin[q].alive /\ kin'[q].grp = kin[q].grp
    BY <1>11, <1>kin DEF Return, Leaves, Forgets, tree, Text, Captured, LeftOpen, family, None, Gone
  <2>3. pc[0] \in Gathers => pc'[0] \in Gathers /\ child'[0] = child[0]
    BY <1>11, <1>life DEF Return, Leaves, Forgets, tree, Text, Captured, LeftOpen, family, Gathers
  <2>4. QED
    BY <2>1, <2>2, <2>3, DomainKept
<1>12. ASSUME NEW r \in Process, Deadline(r) PROVE Domain'
  <2>1. UNCHANGED lost /\ \A p \in Child : Alive(p)' => Alive(p) /\ grp'[p] = grp[p]
    BY <1>12, <1>life DEF Deadline, world, family, Alive
  <2>2. \A q \in Kin : kin'[q].alive /\ kin'[q].grp # None
                         => kin[q].alive /\ kin'[q].grp = kin[q].grp
    BY <1>12, <1>kin DEF Deadline, world, family, None, Gone
  <2>3. pc[0] \in Gathers => pc'[0] \in Gathers /\ child'[0] = child[0]
    BY <1>12, <1>life DEF Deadline, world, family, Gathers
  <2>4. QED
    BY <2>1, <2>2, <2>3, DomainKept
<1>13. ASSUME NEW p \in Child, Boot(p) PROVE Domain'
  <2>1. UNCHANGED lost /\ \A e \in Child : Alive(e)' => Alive(e) /\ grp'[e] = grp[e]
    BY <1>13, <1>life DEF Boot, Consumes, family, Alive
  <2>2. \A q \in Kin : kin'[q].alive /\ kin'[q].grp # None
                         => kin[q].alive /\ kin'[q].grp = kin[q].grp
    BY <1>13, <1>kin DEF Boot, Consumes, family, None, Gone
  <2>3. pc[0] \in Gathers => pc'[0] \in Gathers /\ child'[0] = child[0]
    BY <1>13, <1>life DEF Boot, Consumes, family, Gathers
  <2>4. QED
    BY <2>1, <2>2, <2>3, DomainKept
<1>14. ASSUME NEW p \in Child, Exit(p) PROVE Domain'
  <2>1. UNCHANGED lost /\ \A e \in Child : Alive(e)' => Alive(e) /\ grp'[e] = grp[e]
    BY <1>14, ExitLoses, LosesDomain
  <2>2. \A q \in Kin : kin'[q].alive /\ kin'[q].grp # None
                         => kin[q].alive /\ kin'[q].grp = kin[q].grp
    BY <1>14, <1>kin DEF Exit, Die, Silenced, family, None, Gone
  <2>3. pc[0] \in Gathers => pc'[0] \in Gathers /\ child'[0] = child[0]
    BY <1>14, <1>life DEF Exit, Die, Silenced, family, Gathers, Child
  <2>4. QED
    BY <2>1, <2>2, <2>3, DomainKept
<1>15. ASSUME NEW p \in Child, Reuse(p) PROVE Domain'
  <2>1. UNCHANGED lost /\ \A e \in Child : Alive(e)' => Alive(e) /\ grp'[e] = grp[e]
    BY <1>15, <1>life DEF Reuse, NumberFree, family, Alive
  <2>2. \A q \in Kin : kin'[q].alive /\ kin'[q].grp # None
                         => kin[q].alive /\ kin'[q].grp = kin[q].grp
    BY <1>15, <1>kin DEF Reuse, NumberFree, family, None, Gone
  <2>3. pc[0] \in Gathers => pc'[0] \in Gathers /\ child'[0] = child[0]
    BY <1>15, <1>life DEF Reuse, NumberFree, family, Gathers
  <2>4. QED
    BY <2>1, <2>2, <2>3, DomainKept
<1>16. ASSUME NEW p \in Child, NEW s \in Stream, Write(p, s) PROVE Domain'
  <2>1. UNCHANGED lost /\ \A e \in Child : Alive(e)' => Alive(e) /\ grp'[e] = grp[e]
    BY <1>16, <1>life DEF Write, Open, family, Alive
  <2>2. \A q \in Kin : kin'[q].alive /\ kin'[q].grp # None
                         => kin[q].alive /\ kin'[q].grp = kin[q].grp
    BY <1>16, <1>kin DEF Write, Open, family, None, Gone
  <2>3. pc[0] \in Gathers => pc'[0] \in Gathers /\ child'[0] = child[0]
    BY <1>16, <1>life DEF Write, Open, family, Gathers
  <2>4. QED
    BY <2>1, <2>2, <2>3, DomainKept
<1>17. ASSUME NEW p \in Child, NEW k \in Kin, StartKin(p, k) PROVE Domain'
  <2>1. UNCHANGED <<life, family, child, pc>>
    BY <1>17 DEF StartKin
  <2>2. contained[p] /\ Held(grp[p])
    BY <1>17 DEF StartKin, Family, Domain, Alive
  <2>3. \A q \in Kin : kin'[q] = kin[q] \/ kin'[q].grp = grp[p]
    BY <1>17, <2>2, <1>kin DEF StartKin
  <2>4. QED
    BY <2>1, <2>2, <2>3 DEF Domain, Held, Unkilled, InDomain, Alive, family
<1>18. ASSUME NEW k \in Kin, KinLeaves(k) PROVE Domain'
  <2>1. UNCHANGED lost /\ \A p \in Child : Alive(p)' => Alive(p) /\ grp'[p] = grp[p]
    BY <1>18, <1>life DEF KinLeaves, family, Alive
  <2>2. \A q \in Kin : kin'[q].alive /\ kin'[q].grp # None
                         => kin[q].alive /\ kin'[q].grp = kin[q].grp
    BY <1>18, <1>kin DEF KinLeaves, family, None, Gone
  <2>3. pc[0] \in Gathers => pc'[0] \in Gathers /\ child'[0] = child[0]
    BY <1>18, <1>life DEF KinLeaves, family, Gathers
  <2>4. QED
    BY <2>1, <2>2, <2>3, DomainKept
<1>19. ASSUME NEW k \in Kin, KinExits(k) PROVE Domain'
  <2>1. UNCHANGED lost /\ \A p \in Child : Alive(p)' => Alive(p) /\ grp'[p] = grp[p]
    BY <1>19, <1>life DEF KinExits, family, Alive
  <2>2. \A q \in Kin : kin'[q].alive /\ kin'[q].grp # None
                         => kin[q].alive /\ kin'[q].grp = kin[q].grp
    BY <1>19, <1>kin DEF KinExits, family, None, Gone
  <2>3. pc[0] \in Gathers => pc'[0] \in Gathers /\ child'[0] = child[0]
    BY <1>19, <1>life DEF KinExits, family, Gathers
  <2>4. QED
    BY <2>1, <2>2, <2>3, DomainKept
<1>20. ASSUME NEW k \in Kin, NEW s \in Stream, KinWrites(k, s) PROVE Domain'
  <2>1. UNCHANGED lost /\ \A p \in Child : Alive(p)' => Alive(p) /\ grp'[p] = grp[p]
    BY <1>20, <1>life DEF KinWrites, Open, family, Alive
  <2>2. \A q \in Kin : kin'[q].alive /\ kin'[q].grp # None
                         => kin[q].alive /\ kin'[q].grp = kin[q].grp
    BY <1>20, <1>kin DEF KinWrites, Open, family, None, Gone
  <2>3. pc[0] \in Gathers => pc'[0] \in Gathers /\ child'[0] = child[0]
    BY <1>20, <1>life DEF KinWrites, Open, family, Gathers
  <2>4. QED
    BY <2>1, <2>2, <2>3, DomainKept
<1>21. CASE UNCHANGED vars
  <2>1. UNCHANGED lost /\ \A p \in Child : Alive(p)' => Alive(p) /\ grp'[p] = grp[p]
    BY <1>21, <1>life DEF vars, family, Alive
  <2>2. \A q \in Kin : kin'[q].alive /\ kin'[q].grp # None
                         => kin[q].alive /\ kin'[q].grp = kin[q].grp
    BY <1>21, <1>kin DEF vars, family, None, Gone
  <2>3. pc[0] \in Gathers => pc'[0] \in Gathers /\ child'[0] = child[0]
    BY <1>21, <1>life DEF vars, family, Gathers
  <2>4. QED
    BY <2>1, <2>2, <2>3, DomainKept
<1>22. CASE InterruptedPopen
  <2>0. 0 \in Process /\ pc[0] = "spawn" /\ pc[0] \notin Gathers
    BY <1>22, <1>life DEF InterruptedPopen, Gathers
  <2>1. CASE UNCHANGED <<world, claim>>
    BY <1>22, <2>0, <2>1, DomainKept DEF InterruptedPopen, world, family, Alive
  <2>2. CASE Forks(0, calls + 1) /\ lost' = [lost EXCEPT ![calls + 1] = "unkilled"]
    <3> DEFINE p == calls + 1
    <3>1. p \in Child /\ p # None /\ GroupOf(0, p) = p
      BY <2>0, <2>2, <1>life, Newborn, BornInto DEF Child, None
    <3>2. /\ life' = [life EXCEPT ![p] = "booting"] /\ kin' = kin
          /\ grp' = [grp EXCEPT ![p] = p] /\ lost' = [lost EXCEPT ![p] = "unkilled"]
      BY <2>2, <3>1 DEF Forks
    <3>3. \A g : Unkilled(g) /\ g \in Child => Unkilled(g)'
      BY <3>1, <3>2 DEF Unkilled, TypeOK
    <3>4. /\ \A q \in Child : Alive(q) => Unkilled(grp[q]) /\ grp[q] \in Child
          /\ \A k \in Kin : kin[k].alive /\ kin[k].grp # None
                                 => Unkilled(kin[k].grp) /\ kin[k].grp \in Child
      BY <2>0, <1>life, <1>kin DEF Domain, Held, InDomain, Unkilled
    <3>5. \A q \in Child : Alive(q)' => Unkilled(grp[q])'
      <4> SUFFICES ASSUME NEW q \in Child, Alive(q)' PROVE Unkilled(grp[q])'
        OBVIOUS
      <4>1. CASE q = p
        BY <3>1, <3>2, <4>1, <1>life DEF Unkilled, TypeOK
      <4>2. CASE q # p
        <5>1. grp'[q] = grp[q] /\ Alive(q)
          BY <3>2, <4>2, <1>life DEF Alive
        <5>2. QED
          BY <3>3, <3>4, <5>1 DEF Unkilled
      <4>3. QED
        BY <4>1, <4>2
    <3>6. \A k \in Kin : kin'[k].alive /\ kin'[k].grp # None => Unkilled(kin[k].grp)'
      BY <3>2, <3>3, <3>4 DEF Unkilled
    <3>7. QED
      BY <3>5, <3>6 DEF Domain, Held
  <2>3. QED
    BY <1>22, <2>1, <2>2 DEF InterruptedPopen
<1>23. CASE InterruptedEnding
  <2>1. /\ child[0] \in Child /\ UNCHANGED <<life, grp>> /\ lost[child[0]] = "no"
        /\ \A k \in Kin : kin'[k].alive = kin[k].alive /\ kin'[k].grp = kin[k].grp
    BY <1>23, <1>life, <1>kin, Rearing DEF InterruptedEnding, Forgets, Active, Gathers,
       Runners, None, Child
  <2>2. \A g \in Child : g # child[0] => lost'[g] = lost[g]
    BY <1>23 DEF InterruptedEnding, TypeOK
  <2>3. Members(child[0]) # {} \/ KinMembers(child[0]) # {} => lost'[child[0]] = "unkilled"
    BY <1>23, <2>1 DEF InterruptedEnding, TypeOK
  <2>4. \A p \in Child : Alive(p)' => Unkilled(grp[p])'
    <3> SUFFICES ASSUME NEW p \in Child, Alive(p) PROVE Unkilled(grp[p])'
      BY <2>1 DEF Alive
    <3>1. Held(grp[p]) /\ grp[p] \in Child
      BY <1>life DEF Domain, Held, InDomain, Unkilled
    <3>2. CASE grp[p] = child[0]
      BY <2>1, <2>3, <3>1, <3>2 DEF Members, Unkilled, Child, None
    <3>3. CASE grp[p] # child[0]
      BY <2>1, <2>2, <3>1, <3>3 DEF Held, InDomain, Unkilled
    <3>4. QED
      BY <3>2, <3>3
  <2>5. \A k \in Kin : kin'[k].alive /\ kin'[k].grp # None => Unkilled(kin[k].grp)'
    <3> SUFFICES ASSUME NEW k \in Kin, kin[k].alive, kin[k].grp # None
                 PROVE  Unkilled(kin[k].grp)'
      BY <2>1
    <3>1. Held(kin[k].grp) /\ kin[k].grp \in Child /\ kin'[k].grp = kin[k].grp
      BY <2>1, <1>kin DEF Domain
    <3>2. CASE kin[k].grp = child[0]
      BY <2>1, <2>3, <3>1, <3>2 DEF KinMembers, Unkilled, Child, None
    <3>3. CASE kin[k].grp # child[0]
      BY <2>1, <2>2, <3>1, <3>3 DEF Held, InDomain, Unkilled
    <3>4. QED
      BY <3>2, <3>3
  <2>6. QED
    BY <2>4, <2>5 DEF Domain, Held
<1>24. CASE InterruptedLeaving
  <2>1. UNCHANGED lost /\ \A p \in Child : Alive(p)' => Alive(p) /\ grp'[p] = grp[p]
    BY <1>24 DEF InterruptedLeaving, Leaves, tree, Alive
  <2>2. \A q \in Kin : kin'[q].alive /\ kin'[q].grp # None
                         => kin[q].alive /\ kin'[q].grp = kin[q].grp
    BY <1>24, <1>kin DEF InterruptedLeaving, Leaves, Forgets, None, Gone
  <2>3. pc[0] \notin Gathers
    BY <1>24 DEF InterruptedLeaving, Gathers
  <2>4. QED
    BY <2>1, <2>2, <2>3, DomainKept
<1>25. ASSUME NEW p \in Child, Collect(p) PROVE Domain'
  <2>1. UNCHANGED lost /\ \A e \in Child : Alive(e)' => Alive(e) /\ grp'[e] = grp[e]
    BY <1>25, <1>life DEF Collect, family, Alive
  <2>2. UNCHANGED <<kin, pc, child>>
    BY <1>25 DEF Collect
  <2>3. QED
    BY <2>1, <2>2, DomainKept
<1>26. QED
  BY <1>1, <1>2, <1>3, <1>4, <1>5, <1>6, <1>7, <1>8, <1>9, <1>10, <1>11, <1>12, <1>13,
     <1>14, <1>15, <1>16, <1>17, <1>18, <1>19, <1>20, <1>21, <1>22, <1>23, <1>24, <1>25
     DEF Next, Runner, CtrlC

\* What a runner has read it forgets or keeps.
LEMMA BuffersKept ==
    ASSUME IInv, \A q \in Process :
              \/ buf'[q] = NoBuffer
              \/ /\ buf'[q] = buf[q]
                 /\ pc'[q] \notin {"kill", "wait", "close"}
                      => pc[q] \notin {"kill", "wait", "close"}
    PROVE  Buffers'
<1>1. \A s \in Stream : NoBuffer[s] <= Limit[s] /\ NoBuffer[s] <= Limit[s] + Capacity
  BY LimitAssumption DEF NoBuffer, Stream
<1>2. QED
  BY <1>1 DEF IInv, Buffers

\* One read keeps the buffer within the limit and one pipe.
LEMMA BuffersTake ==
    ASSUME IInv, NEW r \in Process, NEW s \in Stream, pc[r] \in Gathers \ {"kill"},
           Take(r, s), Exceeds(r, s) => pc' = [pc EXCEPT ![r] = "kill"],
           ~Exceeds(r, s) => pc' = pc
    PROVE  Buffers'
<1>1. child[r] \in Child
  BY Rearing DEF Active
<1>2. pipe[child[r]][s] \in Units /\ Total(pipe[child[r]][s]) <= Capacity
  BY <1>1 DEF IInv, TypeOK
<1>3. Total(pipe[child[r]][s]) \in Nat
  BY <1>2 DEF Units, Total
<1>4. buf \in [Process -> [Stream -> Nat]] /\ pc \in [Process -> Pc]
  BY DEF IInv, TypeOK
<1>5. buf[r][s] \in Nat /\ buf[r][s] <= Limit[s] /\ Limit[s] \in Nat /\ Capacity \in Nat
  BY <1>4, LimitAssumption DEF IInv, Buffers, Gathers, Stream
<1>6. buf'[r][s] = buf[r][s] + Total(pipe[child[r]][s])
  BY <1>4 DEF Take
<1>7. \A q \in Process, t \in Stream : q # r \/ t # s => buf'[q][t] = buf[q][t]
  BY <1>4 DEF Take
<1>8. buf'[r][s] <= Limit[s] + Capacity /\ (~Exceeds(r, s) => buf'[r][s] <= Limit[s])
  BY <1>2, <1>3, <1>5, <1>6 DEF Exceeds
<1>9. \A q \in Process : /\ q # r => pc'[q] = pc[q]
                         /\ Exceeds(r, s) => pc'[r] = "kill"
                         /\ ~Exceeds(r, s) => pc'[q] = pc[q]
  BY <1>4
<1>10. QED
  BY <1>5, <1>7, <1>8, <1>9 DEF IInv, Buffers, Gathers

\* Every step keeps the captured output within bounds.
LEMMA BuffersStep == IInv /\ [Next]_vars => Buffers'
<1> SUFFICES ASSUME IInv, [Next]_vars PROVE Buffers'
  OBVIOUS
<1> USE DEF IInv
<1>buf. /\ buf \in [Process -> [Stream -> Nat]] /\ pc \in [Process -> Pc]
  BY DEF TypeOK
<1>1. CASE InterruptedReading
  <2>1. \A q \in Process :
           \/ buf'[q] = NoBuffer
           \/ /\ buf'[q] = buf[q]
              /\ pc'[q] \notin {"kill", "wait", "close"}
                   => pc[q] \notin {"kill", "wait", "close"}
    BY <1>1, <1>buf DEF InterruptedReading, world, family
  <2>2. QED
    BY <2>1, BuffersKept
<1>2. ASSUME NEW r \in Process, Substitute(r) PROVE Buffers'
  <2>1. \A q \in Process :
           \/ buf'[q] = NoBuffer
           \/ /\ buf'[q] = buf[q]
              /\ pc'[q] \notin {"kill", "wait", "close"}
                   => pc[q] \notin {"kill", "wait", "close"}
    BY <1>2, <1>buf DEF Substitute, tree, TooDeep, world, family
  <2>2. QED
    BY <2>1, BuffersKept
<1>3. ASSUME NEW r \in Process, MakePipe(r) PROVE Buffers'
  <2>1. \A q \in Process :
           \/ buf'[q] = NoBuffer
           \/ /\ buf'[q] = buf[q]
              /\ pc'[q] \notin {"kill", "wait", "close"}
                   => pc[q] \notin {"kill", "wait", "close"}
    BY <1>3, <1>buf DEF MakePipe, world, family
  <2>2. QED
    BY <2>1, BuffersKept
<1>4. ASSUME NEW r \in Process, Spawn(r) PROVE Buffers'
  <2>1. \A q \in Process :
           \/ buf'[q] = NoBuffer
           \/ /\ buf'[q] = buf[q]
              /\ pc'[q] \notin {"kill", "wait", "close"}
                   => pc[q] \notin {"kill", "wait", "close"}
    BY <1>4, <1>buf DEF Spawn, SpawnFails, Starts, Forks, GroupOf, world, family
  <2>2. QED
    BY <2>1, BuffersKept
<1>5. ASSUME NEW r \in Process, NEW s \in Stream, Pump(r, s) PROVE Buffers'
  <2>1. pc[r] \in Gathers \ {"kill"} /\ Take(r, s)
    BY <1>5 DEF Pump, Gathers
  <2>2. (Exceeds(r, s) => pc' = [pc EXCEPT ![r] = "kill"]) /\ (~Exceeds(r, s) => pc' = pc)
    BY <1>5 DEF Pump
  <2>3. QED
    BY <2>1, <2>2, BuffersTake
<1>6. ASSUME NEW r \in Process, NEW s \in Stream, DrainStream(r, s) PROVE Buffers'
  <2>1. CASE pipe[child[r]][s] # Nothing /\ Take(r, s)
    <3>1. pc[r] \in Gathers \ {"kill"}
      BY <1>6 DEF DrainStream, Drain, Stream, Gathers
    <3>2. (Exceeds(r, s) => pc' = [pc EXCEPT ![r] = "kill"]) /\ (~Exceeds(r, s) => pc' = pc)
      BY <1>6, <2>1 DEF DrainStream, Empty
    <3>3. QED
      BY <2>1, <3>1, <3>2, BuffersTake
  <2>2. CASE pc' = [pc EXCEPT ![r] = After(s)] /\ buf' = buf
    <3>1. pc[r] \in {"drain_out", "drain_err"}
      BY <1>6 DEF DrainStream, Drain, Stream
    <3>2. QED
      BY <2>2, <3>1, <1>buf, BuffersKept
  <2>3. QED
    BY <1>6, <2>1, <2>2 DEF DrainStream
<1>7. ASSUME NEW r \in Process, Check(r) PROVE Buffers'
  <2>1. \A q \in Process :
           \/ buf'[q] = NoBuffer
           \/ /\ buf'[q] = buf[q]
              /\ pc'[q] \notin {"kill", "wait", "close"}
                   => pc[q] \notin {"kill", "wait", "close"}
    BY <1>7, <1>buf DEF Check, SeenExited, family
  <2>2. QED
    BY <2>1, BuffersKept
<1>8. ASSUME NEW r \in Process, Sweep(r) PROVE Buffers'
  <2>1. \A q \in Process :
           \/ buf'[q] = NoBuffer
           \/ /\ buf'[q] = buf[q]
              /\ pc'[q] \notin {"kill", "wait", "close"}
                   => pc[q] \notin {"kill", "wait", "close"}
    BY <1>8, <1>buf, SweepLoses DEF Loses, Silenced
  <2>2. QED
    BY <2>1, BuffersKept
<1>9. ASSUME NEW r \in Process, Kill(r) PROVE Buffers'
  <2>1. \A q \in Process :
           \/ buf'[q] = NoBuffer
           \/ /\ buf'[q] = buf[q]
              /\ pc'[q] \notin {"kill", "wait", "close"}
                   => pc[q] \notin {"kill", "wait", "close"}
    BY <1>9, <1>buf, KillLoses DEF Loses, Silenced
  <2>2. QED
    BY <2>1, BuffersKept
<1>10. ASSUME NEW r \in Process, Wait(r) PROVE Buffers'
  <2>1. \A q \in Process :
           \/ buf'[q] = NoBuffer
           \/ /\ buf'[q] = buf[q]
              /\ pc'[q] \notin {"kill", "wait", "close"}
                   => pc[q] \notin {"kill", "wait", "close"}
    BY <1>10, <1>buf DEF Wait, family
  <2>2. QED
    BY <2>1, BuffersKept
<1>11. ASSUME NEW r \in Process, Return(r) PROVE Buffers'
  <2>1. \A q \in Process :
           \/ buf'[q] = NoBuffer
           \/ /\ buf'[q] = buf[q]
              /\ pc'[q] \notin {"kill", "wait", "close"}
                   => pc[q] \notin {"kill", "wait", "close"}
    BY <1>11, <1>buf DEF Return, Leaves, Forgets, tree, Text, Captured, LeftOpen, family
  <2>2. QED
    BY <2>1, BuffersKept
<1>12. ASSUME NEW r \in Process, Deadline(r) PROVE Buffers'
  <2>1. \A q \in Process :
           \/ buf'[q] = NoBuffer
           \/ /\ buf'[q] = buf[q]
              /\ pc'[q] \notin {"kill", "wait", "close"}
                   => pc[q] \notin {"kill", "wait", "close"}
    BY <1>12, <1>buf DEF Deadline, world, family
  <2>2. QED
    BY <2>1, BuffersKept
<1>13. ASSUME NEW p \in Child, Boot(p) PROVE Buffers'
  <2>1. \A q \in Process :
           \/ buf'[q] = NoBuffer
           \/ /\ buf'[q] = buf[q]
              /\ pc'[q] \notin {"kill", "wait", "close"}
                   => pc[q] \notin {"kill", "wait", "close"}
    BY <1>13, <1>buf DEF Boot, Consumes, family
  <2>2. QED
    BY <2>1, BuffersKept
<1>14. ASSUME NEW p \in Child, Exit(p) PROVE Buffers'
  <2>1. \A q \in Process :
           \/ buf'[q] = NoBuffer
           \/ /\ buf'[q] = buf[q]
              /\ pc'[q] \notin {"kill", "wait", "close"}
                   => pc[q] \notin {"kill", "wait", "close"}
    BY <1>14, <1>buf, ExitLoses, ZenonT(60) DEF Loses, Silenced
  <2>2. QED
    BY <2>1, BuffersKept
<1>15. ASSUME NEW p \in Child, Reuse(p) PROVE Buffers'
  <2>1. \A q \in Process :
           \/ buf'[q] = NoBuffer
           \/ /\ buf'[q] = buf[q]
              /\ pc'[q] \notin {"kill", "wait", "close"}
                   => pc[q] \notin {"kill", "wait", "close"}
    BY <1>15, <1>buf DEF Reuse, NumberFree, family
  <2>2. QED
    BY <2>1, BuffersKept
<1>16. ASSUME NEW p \in Child, NEW s \in Stream, Write(p, s) PROVE Buffers'
  <2>1. \A q \in Process :
           \/ buf'[q] = NoBuffer
           \/ /\ buf'[q] = buf[q]
              /\ pc'[q] \notin {"kill", "wait", "close"}
                   => pc[q] \notin {"kill", "wait", "close"}
    BY <1>16, <1>buf DEF Write, Open, family
  <2>2. QED
    BY <2>1, BuffersKept
<1>17. ASSUME NEW p \in Child, NEW k \in Kin, StartKin(p, k) PROVE Buffers'
  <2>1. \A q \in Process :
           \/ buf'[q] = NoBuffer
           \/ /\ buf'[q] = buf[q]
              /\ pc'[q] \notin {"kill", "wait", "close"}
                   => pc[q] \notin {"kill", "wait", "close"}
    BY <1>17, <1>buf DEF StartKin, family
  <2>2. QED
    BY <2>1, BuffersKept
<1>18. ASSUME NEW k \in Kin, KinLeaves(k) PROVE Buffers'
  <2>1. \A q \in Process :
           \/ buf'[q] = NoBuffer
           \/ /\ buf'[q] = buf[q]
              /\ pc'[q] \notin {"kill", "wait", "close"}
                   => pc[q] \notin {"kill", "wait", "close"}
    BY <1>18, <1>buf DEF KinLeaves, family
  <2>2. QED
    BY <2>1, BuffersKept
<1>19. ASSUME NEW k \in Kin, KinExits(k) PROVE Buffers'
  <2>1. \A q \in Process :
           \/ buf'[q] = NoBuffer
           \/ /\ buf'[q] = buf[q]
              /\ pc'[q] \notin {"kill", "wait", "close"}
                   => pc[q] \notin {"kill", "wait", "close"}
    BY <1>19, <1>buf DEF KinExits, family
  <2>2. QED
    BY <2>1, BuffersKept
<1>20. ASSUME NEW k \in Kin, NEW s \in Stream, KinWrites(k, s) PROVE Buffers'
  <2>1. \A q \in Process :
           \/ buf'[q] = NoBuffer
           \/ /\ buf'[q] = buf[q]
              /\ pc'[q] \notin {"kill", "wait", "close"}
                   => pc[q] \notin {"kill", "wait", "close"}
    BY <1>20, <1>buf DEF KinWrites, Open, family
  <2>2. QED
    BY <2>1, BuffersKept
<1>21. CASE UNCHANGED vars
  <2>1. \A q \in Process :
           \/ buf'[q] = NoBuffer
           \/ /\ buf'[q] = buf[q]
              /\ pc'[q] \notin {"kill", "wait", "close"}
                   => pc[q] \notin {"kill", "wait", "close"}
    BY <1>21, <1>buf DEF vars, family
  <2>2. QED
    BY <2>1, BuffersKept
<1>22. CASE InterruptedPopen
  <2>1. \A q \in Process :
           \/ buf'[q] = NoBuffer
           \/ /\ buf'[q] = buf[q]
              /\ pc'[q] \notin {"kill", "wait", "close"}
                   => pc[q] \notin {"kill", "wait", "close"}
    BY <1>22, <1>buf DEF InterruptedPopen, world, family
  <2>2. QED
    BY <2>1, BuffersKept
<1>23. CASE InterruptedEnding
  <2>1. \A q \in Process :
           \/ buf'[q] = NoBuffer
           \/ /\ buf'[q] = buf[q]
              /\ pc'[q] \notin {"kill", "wait", "close"}
                   => pc[q] \notin {"kill", "wait", "close"}
    BY <1>23, <1>buf DEF InterruptedEnding
  <2>2. QED
    BY <2>1, BuffersKept
<1>24. CASE InterruptedLeaving
  <2>1. \A q \in Process :
           \/ buf'[q] = NoBuffer
           \/ /\ buf'[q] = buf[q]
              /\ pc'[q] \notin {"kill", "wait", "close"}
                   => pc[q] \notin {"kill", "wait", "close"}
    BY <1>24, <1>buf DEF InterruptedLeaving, Leaves
  <2>2. QED
    BY <2>1, BuffersKept
<1>25. ASSUME NEW p \in Child, Collect(p) PROVE Buffers'
  <2>1. \A q \in Process :
           \/ buf'[q] = NoBuffer
           \/ /\ buf'[q] = buf[q]
              /\ pc'[q] \notin {"kill", "wait", "close"}
                   => pc[q] \notin {"kill", "wait", "close"}
    BY <1>25, <1>buf DEF Collect
  <2>2. QED
    BY <2>1, BuffersKept
<1>26. QED
  BY <1>1, <1>2, <1>3, <1>4, <1>5, <1>6, <1>7, <1>8, <1>9, <1>10, <1>11, <1>12, <1>13,
     <1>14, <1>15, <1>16, <1>17, <1>18, <1>19, <1>20, <1>21, <1>22, <1>23, <1>24, <1>25
     DEF Next, Runner, CtrlC

\* The pipe of a runner that has all of the output stays without any of it: its
\* child has exited and writes no more.
LEMMA TextsKept ==
    ASSUME IInv, \A q \in Process : text'[q] # "part",
           \A q \in Process :
              pc'[q] \in {"drain_err", "kill", "wait", "close"} /\ ended'[q] = "exited" =>
                /\ pc[q] \in {"drain_err", "kill", "wait", "close"} /\ ended[q] = "exited"
                /\ child'[q] = child[q],
           \A p \in Child : life[p] \in {"zombie", "gone"} =>
                /\ life'[p] \in {"zombie", "gone"}
                /\ pipe[p]["stdout"].lead = 0 => pipe'[p]["stdout"].lead = 0
    PROVE  Texts'
<1>1. \A q \in Process : child[q] # None => child[q] \in Child
  BY DEF IInv, TypeOK
<1>2. QED
  BY <1>1 DEF IInv, Texts

\* Deaths undo nothing of what a runner has captured.
LEMMA LosesTexts ==
    ASSUME IInv, NEW dead, Loses(dead) PROVE Texts'
<1>1. dead \subseteq Child /\ Child \subseteq Process /\ UNCHANGED <<pipe, text>>
  BY DEF Loses, Child, Process
<1>2. \A p \in Process : /\ p \in dead => life'[p] \in {"zombie", "gone"}
                         /\ p \notin dead => \/ life'[p] = life[p]
                                             \/ life[p] = "zombie" /\ life'[p] = "gone"
  BY <1>1 DEF Loses, Die
<1>3. \A q \in Process :
         pc'[q] \in {"drain_err", "kill", "wait", "close"} /\ ended'[q] = "exited" =>
           /\ pc[q] \in {"drain_err", "kill", "wait", "close"} /\ ended[q] = "exited"
           /\ child'[q] = child[q]
  BY <1>1 DEF Loses, Silenced
<1>4. \A p \in Child : life[p] \in {"zombie", "gone"} =>
           /\ life'[p] \in {"zombie", "gone"}
           /\ pipe[p]["stdout"].lead = 0 => pipe'[p]["stdout"].lead = 0
  BY <1>1, <1>2
<1>5. \A q \in Process : text'[q] # "part"
  BY <1>1 DEF IInv, Texts
<1>6. QED
  BY <1>3, <1>4, <1>5, TextsKept

\* Every step keeps the texts whole.
LEMMA TextsStep == IInv /\ [Next]_vars => Texts'
<1> SUFFICES ASSUME IInv, [Next]_vars PROVE Texts'
  OBVIOUS
<1> USE DEF IInv
<1>life. /\ life \in [Process -> {"none", "booting", "running", "zombie", "gone"}]
         /\ pc \in [Process -> Pc] /\ ended \in [Process -> Ended]
         /\ child \in [Process -> Child \cup {None}]
         /\ text \in [Process -> {"whole", "part", "empty"}] /\ Child \subseteq Process
  BY DEF TypeOK, Process, Child
<1>pipe. pipe \in [Child -> [Stream -> Units]] /\ "stdout" \in Stream
  BY DEF TypeOK, Stream
<1>text. \A q \in Process : text[q] # "part"
  BY DEF Texts
<1>1. CASE InterruptedReading
  <2>1. \A q \in Process : text'[q] # "part"
    BY <1>1, <1>life, <1>text DEF InterruptedReading, world, family
  <2>2. \A q \in Process :
           pc'[q] \in {"drain_err", "kill", "wait", "close"} /\ ended'[q] = "exited" =>
             /\ pc[q] \in {"drain_err", "kill", "wait", "close"} /\ ended[q] = "exited"
             /\ child'[q] = child[q]
    BY <1>1, <1>life DEF InterruptedReading, world, family, Stream
  <2>3. \A q \in Child : life[q] \in {"zombie", "gone"} =>
           /\ life'[q] \in {"zombie", "gone"}
           /\ pipe[q]["stdout"].lead = 0 => pipe'[q]["stdout"].lead = 0
    BY <1>1, <1>life, <1>pipe DEF InterruptedReading, world, family
  <2>4. QED
    BY <2>1, <2>2, <2>3, TextsKept
<1>2. ASSUME NEW r \in Process, Substitute(r) PROVE Texts'
  <2>1. \A q \in Process : text'[q] # "part"
    BY <1>2, <1>life, <1>text DEF Substitute, tree, TooDeep, world, family
  <2>2. \A q \in Process :
           pc'[q] \in {"drain_err", "kill", "wait", "close"} /\ ended'[q] = "exited" =>
             /\ pc[q] \in {"drain_err", "kill", "wait", "close"} /\ ended[q] = "exited"
             /\ child'[q] = child[q]
    BY <1>2, <1>life DEF Substitute, tree, TooDeep, world, family, Stream
  <2>3. \A q \in Child : life[q] \in {"zombie", "gone"} =>
           /\ life'[q] \in {"zombie", "gone"}
           /\ pipe[q]["stdout"].lead = 0 => pipe'[q]["stdout"].lead = 0
    BY <1>2, <1>life, <1>pipe DEF Substitute, tree, TooDeep, world, family
  <2>4. QED
    BY <2>1, <2>2, <2>3, TextsKept
<1>3. ASSUME NEW r \in Process, MakePipe(r) PROVE Texts'
  <2>1. \A q \in Process : text'[q] # "part"
    BY <1>3, <1>life, <1>text DEF MakePipe, world, family
  <2>2. \A q \in Process :
           pc'[q] \in {"drain_err", "kill", "wait", "close"} /\ ended'[q] = "exited" =>
             /\ pc[q] \in {"drain_err", "kill", "wait", "close"} /\ ended[q] = "exited"
             /\ child'[q] = child[q]
    BY <1>3, <1>life DEF MakePipe, world, family, Stream
  <2>3. \A q \in Child : life[q] \in {"zombie", "gone"} =>
           /\ life'[q] \in {"zombie", "gone"}
           /\ pipe[q]["stdout"].lead = 0 => pipe'[q]["stdout"].lead = 0
    BY <1>3, <1>life, <1>pipe DEF MakePipe, world, family
  <2>4. QED
    BY <2>1, <2>2, <2>3, TextsKept
<1>4. ASSUME NEW r \in Process, Spawn(r) PROVE Texts'
  <2>1. \A q \in Process : text'[q] # "part"
    BY <1>4, <1>life, <1>text DEF Spawn, SpawnFails, Starts, Forks, GroupOf, world, family
  <2>2. \A q \in Process :
           pc'[q] \in {"drain_err", "kill", "wait", "close"} /\ ended'[q] = "exited" =>
             /\ pc[q] \in {"drain_err", "kill", "wait", "close"} /\ ended[q] = "exited"
             /\ child'[q] = child[q]
    BY <1>4, <1>life DEF Spawn, SpawnFails, Starts, Forks, GroupOf, world, family, Stream
  <2>3. \A q \in Child : life[q] \in {"zombie", "gone"} =>
           /\ life'[q] \in {"zombie", "gone"}
           /\ pipe[q]["stdout"].lead = 0 => pipe'[q]["stdout"].lead = 0
    <3>1. UNCHANGED pipe /\ \A q \in Child : life'[q] = life[q] \/ life[q] = "none"
      <4>1. CASE SpawnFails(r)
        BY <1>4, <4>1 DEF Spawn, SpawnFails, world
      <4>2. CASE Starts(r, calls + 1)
        BY <1>4, <4>2, <1>life, Newborn DEF Spawn, Starts, Forks
      <4>3. QED
        BY <1>4, <4>1, <4>2 DEF Spawn
    <3>2. QED
      BY <3>1
  <2>4. QED
    BY <2>1, <2>2, <2>3, TextsKept
<1>5. ASSUME NEW r \in Process, NEW s \in Stream, Pump(r, s) PROVE Texts'
  <2>1. \A q \in Process : text'[q] # "part"
    BY <1>5, <1>life, <1>text DEF Pump, Take, Exceeds, family
  <2>2. \A q \in Process :
           pc'[q] \in {"drain_err", "kill", "wait", "close"} /\ ended'[q] = "exited" =>
             /\ pc[q] \in {"drain_err", "kill", "wait", "close"} /\ ended[q] = "exited"
             /\ child'[q] = child[q]
    BY <1>5, <1>life DEF Pump, Take, Exceeds, family, Stream
  <2>3. \A q \in Child : life[q] \in {"zombie", "gone"} =>
           /\ life'[q] \in {"zombie", "gone"}
           /\ pipe[q]["stdout"].lead = 0 => pipe'[q]["stdout"].lead = 0
    <3>1. life' = life /\ (pipe' = pipe \/ pipe' = [pipe EXCEPT ![child[r]][s] = Nothing])
      BY <1>5 DEF Pump, Take, Exceeds, family
    <3>2. \A q \in Child : \/ pipe'[q]["stdout"] = pipe[q]["stdout"]
                           \/ pipe'[q]["stdout"] = Nothing
      BY <3>1, <1>pipe
    <3>3. Nothing.lead = 0
      BY DEF Nothing
    <3>4. QED
      BY <3>1, <3>2, <3>3
  <2>4. QED
    BY <2>1, <2>2, <2>3, TextsKept
<1>6. ASSUME NEW r \in Process, NEW s \in Stream, DrainStream(r, s) PROVE Texts'
  <2>1. /\ pc[r] = Drain[s] /\ s \in {"stdout", "stderr"} /\ child[r] \in Child
        /\ life[child[r]] = "zombie" /\ pc[r] \in {"drain_out", "drain_err"}
        /\ UNCHANGED <<life, child, text>>
    <3>1. /\ pc[r] = Drain[s] /\ pc[r] \in {"drain_out", "drain_err"}
          /\ UNCHANGED <<life, child, text>>
      BY <1>6 DEF DrainStream, Drain, Stream
    <3>2. QED
      BY <3>1, Rearing DEF Runners, Active, Gathers, Stream
  <2>2. \A q \in Process : text'[q] # "part"
    BY <2>1, <1>text
  <2>3. \A q \in Child : life[q] \in {"zombie", "gone"} =>
           /\ life'[q] \in {"zombie", "gone"}
           /\ pipe[q]["stdout"].lead = 0 => pipe'[q]["stdout"].lead = 0
    <3>1. life' = life /\ (pipe' = pipe \/ pipe' = [pipe EXCEPT ![child[r]][s] = Nothing])
      BY <1>6 DEF DrainStream, Take, Exceeds, Empty, After, Drain, family
    <3>2. \A q \in Child : \/ pipe'[q]["stdout"] = pipe[q]["stdout"]
                           \/ pipe'[q]["stdout"] = Nothing
      BY <3>1, <1>pipe
    <3>3. Nothing.lead = 0
      BY DEF Nothing
    <3>4. QED
      BY <3>1, <3>2, <3>3
  <2>4. \A q \in Process : q # r => pc'[q] = pc[q] /\ ended'[q] = ended[q]
    <3>1. \/ pc' = pc \/ pc' = [pc EXCEPT ![r] = After(s)]
          \/ pc' = [pc EXCEPT ![r] = "kill"]
      BY <1>6 DEF DrainStream
    <3>2. ended' = ended \/ ended' = [ended EXCEPT ![r] = s]
      BY <1>6 DEF DrainStream
    <3>3. QED
      BY <3>1, <3>2, <1>life
  <2>5. CASE Empty(r, s) /\ pc' = [pc EXCEPT ![r] = After(s)] /\ UNCHANGED <<pipe, ended>>
    <3>1. CASE s = "stdout"
      <4>1. pipe[child[r]]["stdout"].lead = 0
        BY <2>5, <3>1 DEF Empty, Nothing
      <4>2. QED
        <5>1. child[r] # None /\ child' = child /\ life' = life /\ pipe' = pipe
          BY <2>1, <2>5 DEF None, Child
        <5>2. QED
          BY <2>1, <2>2, <2>4, <4>1, <5>1 DEF Texts
    <3>2. CASE s = "stderr"
      <4>1. pc[r] = "drain_err"
        BY <2>1, <3>2 DEF Drain
      <4>2. QED
        BY <2>1, <2>2, <2>3, <2>4, <2>5, <4>1, TextsKept
    <3>3. QED
      BY <2>1, <3>1, <3>2
  <2>6. CASE ended' = [ended EXCEPT ![r] = s] /\ pc' = [pc EXCEPT ![r] = "kill"]
    <3>1. ended'[r] # "exited"
      BY <2>1, <2>6, <1>life
    <3>2. QED
      BY <2>1, <2>2, <2>3, <2>4, <3>1, TextsKept
  <2>7. CASE UNCHANGED <<ended, pc>>
    BY <2>1, <2>2, <2>3, <2>7, TextsKept
  <2>8. QED
    BY <1>6, <2>5, <2>6, <2>7 DEF DrainStream
<1>7. ASSUME NEW r \in Process, Check(r) PROVE Texts'
  <2>1. \A q \in Process : text'[q] # "part"
    BY <1>7, <1>life, <1>text DEF Check, SeenExited, family
  <2>2. \A q \in Process :
           pc'[q] \in {"drain_err", "kill", "wait", "close"} /\ ended'[q] = "exited" =>
             /\ pc[q] \in {"drain_err", "kill", "wait", "close"} /\ ended[q] = "exited"
             /\ child'[q] = child[q]
    BY <1>7, <1>life DEF Check, SeenExited, family, Stream
  <2>3. \A q \in Child : life[q] \in {"zombie", "gone"} =>
           /\ life'[q] \in {"zombie", "gone"}
           /\ pipe[q]["stdout"].lead = 0 => pipe'[q]["stdout"].lead = 0
    BY <1>7, <1>life, <1>pipe DEF Check, SeenExited, family
  <2>4. QED
    BY <2>1, <2>2, <2>3, TextsKept
<1>8. ASSUME NEW r \in Process, Sweep(r) PROVE Texts'
  BY <1>8, SweepLoses, LosesTexts
<1>9. ASSUME NEW r \in Process, Kill(r) PROVE Texts'
  BY <1>9, KillLoses, LosesTexts
<1>10. ASSUME NEW r \in Process, Wait(r) PROVE Texts'
  <2>1. \A q \in Process : text'[q] # "part"
    BY <1>10, <1>life, <1>text DEF Wait, family
  <2>2. \A q \in Process :
           pc'[q] \in {"drain_err", "kill", "wait", "close"} /\ ended'[q] = "exited" =>
             /\ pc[q] \in {"drain_err", "kill", "wait", "close"} /\ ended[q] = "exited"
             /\ child'[q] = child[q]
    BY <1>10, <1>life DEF Wait, family, Stream
  <2>3. \A q \in Child : life[q] \in {"zombie", "gone"} =>
           /\ life'[q] \in {"zombie", "gone"}
           /\ pipe[q]["stdout"].lead = 0 => pipe'[q]["stdout"].lead = 0
    BY <1>10, <1>life, <1>pipe DEF Wait, family
  <2>4. QED
    BY <2>1, <2>2, <2>3, TextsKept
<1>11. ASSUME NEW r \in Process, Return(r) PROVE Texts'
  <2>1. \A q \in Process : text'[q] # "part"
    <3>1. Text(r) # "part"
      BY <1>11 DEF Return, Leaves, Forgets, tree, Text, Captured, Texts
    <3>2. text' = [text EXCEPT ![r] = Text(r)]
      BY <1>11 DEF Return, Leaves, Forgets, tree
    <3>3. QED
      BY <3>1, <3>2, <1>life, <1>text
  <2>2. \A q \in Process :
           pc'[q] \in {"drain_err", "kill", "wait", "close"} /\ ended'[q] = "exited" =>
             /\ pc[q] \in {"drain_err", "kill", "wait", "close"} /\ ended[q] = "exited"
             /\ child'[q] = child[q]
    BY <1>11, <1>life DEF Return, Leaves, Forgets, tree, Text, Captured, LeftOpen, family, Stream
  <2>3. \A q \in Child : life[q] \in {"zombie", "gone"} =>
           /\ life'[q] \in {"zombie", "gone"}
           /\ pipe[q]["stdout"].lead = 0 => pipe'[q]["stdout"].lead = 0
    <3>1. life' = life /\ \A q \in Child : pipe'[q] = pipe[q] \/ pipe'[q] = NoOutput
      BY <1>11 DEF Return, Leaves, Forgets, tree
    <3>2. NoOutput["stdout"].lead = 0
      BY <1>pipe DEF NoOutput, Nothing
    <3>3. QED
      BY <3>1, <3>2
  <2>4. QED
    BY <2>1, <2>2, <2>3, TextsKept
<1>12. ASSUME NEW r \in Process, Deadline(r) PROVE Texts'
  <2>1. \A q \in Process : text'[q] # "part"
    BY <1>12, <1>life, <1>text DEF Deadline, world, family
  <2>2. \A q \in Process :
           pc'[q] \in {"drain_err", "kill", "wait", "close"} /\ ended'[q] = "exited" =>
             /\ pc[q] \in {"drain_err", "kill", "wait", "close"} /\ ended[q] = "exited"
             /\ child'[q] = child[q]
    BY <1>12, <1>life DEF Deadline, world, family, Stream
  <2>3. \A q \in Child : life[q] \in {"zombie", "gone"} =>
           /\ life'[q] \in {"zombie", "gone"}
           /\ pipe[q]["stdout"].lead = 0 => pipe'[q]["stdout"].lead = 0
    BY <1>12, <1>life, <1>pipe DEF Deadline, world, family
  <2>4. QED
    BY <2>1, <2>2, <2>3, TextsKept
<1>13. ASSUME NEW p \in Child, Boot(p) PROVE Texts'
  <2>1. \A q \in Process : text'[q] # "part"
    BY <1>13, <1>life, <1>text DEF Boot, Consumes, family
  <2>2. \A q \in Process :
           pc'[q] \in {"drain_err", "kill", "wait", "close"} /\ ended'[q] = "exited" =>
             /\ pc[q] \in {"drain_err", "kill", "wait", "close"} /\ ended[q] = "exited"
             /\ child'[q] = child[q]
    BY <1>13, <1>life DEF Boot, Consumes, family, Stream
  <2>3. \A q \in Child : life[q] \in {"zombie", "gone"} =>
           /\ life'[q] \in {"zombie", "gone"}
           /\ pipe[q]["stdout"].lead = 0 => pipe'[q]["stdout"].lead = 0
    BY <1>13, <1>life, <1>pipe DEF Boot, Consumes, family
  <2>4. QED
    BY <2>1, <2>2, <2>3, TextsKept
<1>14. ASSUME NEW p \in Child, Exit(p) PROVE Texts'
  BY <1>14, ExitLoses, LosesTexts
<1>15. ASSUME NEW p \in Child, Reuse(p) PROVE Texts'
  <2>1. \A q \in Process : text'[q] # "part"
    BY <1>15, <1>life, <1>text DEF Reuse, NumberFree, family
  <2>2. \A q \in Process :
           pc'[q] \in {"drain_err", "kill", "wait", "close"} /\ ended'[q] = "exited" =>
             /\ pc[q] \in {"drain_err", "kill", "wait", "close"} /\ ended[q] = "exited"
             /\ child'[q] = child[q]
    BY <1>15, <1>life DEF Reuse, NumberFree, family, Stream
  <2>3. \A q \in Child : life[q] \in {"zombie", "gone"} =>
           /\ life'[q] \in {"zombie", "gone"}
           /\ pipe[q]["stdout"].lead = 0 => pipe'[q]["stdout"].lead = 0
    BY <1>15, <1>life, <1>pipe DEF Reuse, NumberFree, family
  <2>4. QED
    BY <2>1, <2>2, <2>3, TextsKept
<1>16. ASSUME NEW p \in Child, NEW s \in Stream, Write(p, s) PROVE Texts'
  <2>1. \A q \in Process : text'[q] # "part"
    BY <1>16, <1>life, <1>text DEF Write, Open, family
  <2>2. \A q \in Process :
           pc'[q] \in {"drain_err", "kill", "wait", "close"} /\ ended'[q] = "exited" =>
             /\ pc[q] \in {"drain_err", "kill", "wait", "close"} /\ ended[q] = "exited"
             /\ child'[q] = child[q]
    BY <1>16, <1>life DEF Write, Open, family, Stream
  <2>3. \A q \in Child : life[q] \in {"zombie", "gone"} =>
           /\ life'[q] \in {"zombie", "gone"}
           /\ pipe[q]["stdout"].lead = 0 => pipe'[q]["stdout"].lead = 0
    BY <1>16, <1>life, <1>pipe DEF Write, Open, family
  <2>4. QED
    BY <2>1, <2>2, <2>3, TextsKept
<1>17. ASSUME NEW p \in Child, NEW k \in Kin, StartKin(p, k) PROVE Texts'
  <2>1. \A q \in Process : text'[q] # "part"
    BY <1>17, <1>life, <1>text DEF StartKin, family
  <2>2. \A q \in Process :
           pc'[q] \in {"drain_err", "kill", "wait", "close"} /\ ended'[q] = "exited" =>
             /\ pc[q] \in {"drain_err", "kill", "wait", "close"} /\ ended[q] = "exited"
             /\ child'[q] = child[q]
    BY <1>17, <1>life DEF StartKin, family, Stream
  <2>3. \A q \in Child : life[q] \in {"zombie", "gone"} =>
           /\ life'[q] \in {"zombie", "gone"}
           /\ pipe[q]["stdout"].lead = 0 => pipe'[q]["stdout"].lead = 0
    BY <1>17, <1>life, <1>pipe DEF StartKin, family
  <2>4. QED
    BY <2>1, <2>2, <2>3, TextsKept
<1>18. ASSUME NEW k \in Kin, KinLeaves(k) PROVE Texts'
  <2>1. \A q \in Process : text'[q] # "part"
    BY <1>18, <1>life, <1>text DEF KinLeaves, family
  <2>2. \A q \in Process :
           pc'[q] \in {"drain_err", "kill", "wait", "close"} /\ ended'[q] = "exited" =>
             /\ pc[q] \in {"drain_err", "kill", "wait", "close"} /\ ended[q] = "exited"
             /\ child'[q] = child[q]
    BY <1>18, <1>life DEF KinLeaves, family, Stream
  <2>3. \A q \in Child : life[q] \in {"zombie", "gone"} =>
           /\ life'[q] \in {"zombie", "gone"}
           /\ pipe[q]["stdout"].lead = 0 => pipe'[q]["stdout"].lead = 0
    BY <1>18, <1>life, <1>pipe DEF KinLeaves, family
  <2>4. QED
    BY <2>1, <2>2, <2>3, TextsKept
<1>19. ASSUME NEW k \in Kin, KinExits(k) PROVE Texts'
  <2>1. \A q \in Process : text'[q] # "part"
    BY <1>19, <1>life, <1>text DEF KinExits, family
  <2>2. \A q \in Process :
           pc'[q] \in {"drain_err", "kill", "wait", "close"} /\ ended'[q] = "exited" =>
             /\ pc[q] \in {"drain_err", "kill", "wait", "close"} /\ ended[q] = "exited"
             /\ child'[q] = child[q]
    BY <1>19, <1>life DEF KinExits, family, Stream
  <2>3. \A q \in Child : life[q] \in {"zombie", "gone"} =>
           /\ life'[q] \in {"zombie", "gone"}
           /\ pipe[q]["stdout"].lead = 0 => pipe'[q]["stdout"].lead = 0
    BY <1>19, <1>life, <1>pipe DEF KinExits, family
  <2>4. QED
    BY <2>1, <2>2, <2>3, TextsKept
<1>20. ASSUME NEW k \in Kin, NEW s \in Stream, KinWrites(k, s) PROVE Texts'
  <2>1. \A q \in Process : text'[q] # "part"
    BY <1>20, <1>life, <1>text DEF KinWrites, Open, family
  <2>2. \A q \in Process :
           pc'[q] \in {"drain_err", "kill", "wait", "close"} /\ ended'[q] = "exited" =>
             /\ pc[q] \in {"drain_err", "kill", "wait", "close"} /\ ended[q] = "exited"
             /\ child'[q] = child[q]
    BY <1>20, <1>life DEF KinWrites, Open, family, Stream
  <2>3. \A q \in Child : life[q] \in {"zombie", "gone"} =>
           /\ life'[q] \in {"zombie", "gone"}
           /\ pipe[q]["stdout"].lead = 0 => pipe'[q]["stdout"].lead = 0
    BY <1>20, <1>life, <1>pipe DEF KinWrites, Open, family
  <2>4. QED
    BY <2>1, <2>2, <2>3, TextsKept
<1>21. CASE UNCHANGED vars
  <2>1. \A q \in Process : text'[q] # "part"
    BY <1>21, <1>life, <1>text DEF vars, family
  <2>2. \A q \in Process :
           pc'[q] \in {"drain_err", "kill", "wait", "close"} /\ ended'[q] = "exited" =>
             /\ pc[q] \in {"drain_err", "kill", "wait", "close"} /\ ended[q] = "exited"
             /\ child'[q] = child[q]
    BY <1>21, <1>life DEF vars, family, Stream
  <2>3. \A q \in Child : life[q] \in {"zombie", "gone"} =>
           /\ life'[q] \in {"zombie", "gone"}
           /\ pipe[q]["stdout"].lead = 0 => pipe'[q]["stdout"].lead = 0
    BY <1>21, <1>life, <1>pipe DEF vars, family
  <2>4. QED
    BY <2>1, <2>2, <2>3, TextsKept
<1>22. CASE InterruptedPopen
  <2>1. \A q \in Process : text'[q] # "part"
    BY <1>22, <1>life, <1>text DEF InterruptedPopen
  <2>2. \A q \in Process :
           pc'[q] \in {"drain_err", "kill", "wait", "close"} /\ ended'[q] = "exited" =>
             /\ pc[q] \in {"drain_err", "kill", "wait", "close"} /\ ended[q] = "exited"
             /\ child'[q] = child[q]
    BY <1>22, <1>life DEF InterruptedPopen
  <2>3. \A q \in Child : life[q] \in {"zombie", "gone"} =>
           /\ life'[q] \in {"zombie", "gone"}
           /\ pipe[q]["stdout"].lead = 0 => pipe'[q]["stdout"].lead = 0
    <3>1. UNCHANGED pipe /\ \A q \in Child : life'[q] = life[q] \/ life[q] = "none"
      <4>1. CASE UNCHANGED <<world, claim>>
        BY <4>1 DEF world
      <4>2. CASE Forks(0, calls + 1)
        <5>1. 0 \in Process
          BY LimitAssumption DEF Process
        <5>2. QED
          BY <1>22, <4>2, <5>1, <1>life, Newborn DEF InterruptedPopen, Forks
      <4>3. QED
        BY <1>22, <4>1, <4>2 DEF InterruptedPopen
    <3>2. QED
      BY <3>1
  <2>4. QED
    BY <2>1, <2>2, <2>3, TextsKept
<1>23. CASE InterruptedEnding
  <2>1. \A q \in Process : text'[q] # "part"
    BY <1>23, <1>life, <1>text DEF InterruptedEnding, Forgets
  <2>2. \A q \in Process :
           pc'[q] \in {"drain_err", "kill", "wait", "close"} /\ ended'[q] = "exited" =>
             /\ pc[q] \in {"drain_err", "kill", "wait", "close"} /\ ended[q] = "exited"
             /\ child'[q] = child[q]
    BY <1>23, <1>life DEF InterruptedEnding, Forgets
  <2>3. \A q \in Child : life[q] \in {"zombie", "gone"} =>
           /\ life'[q] \in {"zombie", "gone"}
           /\ pipe[q]["stdout"].lead = 0 => pipe'[q]["stdout"].lead = 0
    <3>1. life' = life /\ \A q \in Child : pipe'[q] = pipe[q] \/ pipe'[q] = NoOutput
      BY <1>23 DEF InterruptedEnding, Forgets
    <3>2. NoOutput["stdout"].lead = 0
      BY <1>pipe DEF NoOutput, Nothing
    <3>3. QED
      BY <3>1, <3>2
  <2>4. QED
    BY <2>1, <2>2, <2>3, TextsKept
<1>24. CASE InterruptedLeaving
  <2>1. \A q \in Process : text'[q] # "part"
    BY <1>24, <1>life, <1>text DEF InterruptedLeaving, Leaves, Forgets
  <2>2. \A q \in Process :
           pc'[q] \in {"drain_err", "kill", "wait", "close"} /\ ended'[q] = "exited" =>
             /\ pc[q] \in {"drain_err", "kill", "wait", "close"} /\ ended[q] = "exited"
             /\ child'[q] = child[q]
    BY <1>24, <1>life DEF InterruptedLeaving, Leaves, Forgets
  <2>3. \A q \in Child : life[q] \in {"zombie", "gone"} =>
           /\ life'[q] \in {"zombie", "gone"}
           /\ pipe[q]["stdout"].lead = 0 => pipe'[q]["stdout"].lead = 0
    <3>1. life' = life /\ \A q \in Child : pipe'[q] = pipe[q] \/ pipe'[q] = NoOutput
      BY <1>24 DEF InterruptedLeaving, Leaves, Forgets
    <3>2. NoOutput["stdout"].lead = 0
      BY <1>pipe DEF NoOutput, Nothing
    <3>3. QED
      BY <3>1, <3>2
  <2>4. QED
    BY <2>1, <2>2, <2>3, TextsKept
<1>25. ASSUME NEW p \in Child, Collect(p) PROVE Texts'
  <2>1. \A q \in Process : text'[q] # "part"
    BY <1>25, <1>life, <1>text DEF Collect
  <2>2. \A q \in Process :
           pc'[q] \in {"drain_err", "kill", "wait", "close"} /\ ended'[q] = "exited" =>
             /\ pc[q] \in {"drain_err", "kill", "wait", "close"} /\ ended[q] = "exited"
             /\ child'[q] = child[q]
    BY <1>25, <1>life DEF Collect
  <2>3. \A q \in Child : life[q] \in {"zombie", "gone"} =>
           /\ life'[q] \in {"zombie", "gone"}
           /\ pipe[q]["stdout"].lead = 0 => pipe'[q]["stdout"].lead = 0
    BY <1>25, <1>life DEF Collect
  <2>4. QED
    BY <2>1, <2>2, <2>3, TextsKept
<1>26. QED
  BY <1>1, <1>2, <1>3, <1>4, <1>5, <1>6, <1>7, <1>8, <1>9, <1>10, <1>11, <1>12, <1>13,
     <1>14, <1>15, <1>16, <1>17, <1>18, <1>19, <1>20, <1>21, <1>22, <1>23, <1>24, <1>25
     DEF Next, Runner, CtrlC

----------------------------------------------------------------------------
\* The user's shell has started nothing yet.
LEMMA InitIInv == Init => IInv
<1> SUFFICES ASSUME Init PROVE IInv
  OBVIOUS
<1> USE DepthAssumption, LimitAssumption DEF Init, Process, Child, None, Stream
<1>1. TypeOK
  <2>1. TypeTree
    <3>1. contained \in [Process -> BOOLEAN] /\ claim \in [Process -> {"none", "text", "granted"}]
      BY DEF Consumes
    <3>2. /\ life \in [Process -> {"none", "booting", "running", "zombie", "gone"}]
          /\ depth \in [Process -> 0..MaxDepth] /\ parent \in [Child -> Process]
          /\ calls \in 0..MaxCalls
      OBVIOUS
    <3>3. /\ lost \in [Child -> {"no", "unreaped", "unkilled"}] /\ leaked \in BOOLEAN
          /\ child \in [Process -> Child \cup {None}] /\ grp \in [Child -> Child \cup {None}]
      OBVIOUS
    <3>4. QED
      BY <3>1, <3>2, <3>3 DEF TypeTree
  <2>2. TypeKin /\ TypePipe /\ TypeRun /\ TypeBuf
    BY DEF TypeKin, TypePipe, TypeRun, TypeBuf, Programs, Gone, NoOutput, Nothing, Units,
       Total, NoBuffer, Pc, Ended
  <2>3. QED
    BY <2>1, <2>2 DEF TypeOK, TypeTree, TypeKin, TypePipe, TypeRun, TypeBuf, Programs
<1>2. Family
  <2>1. contained = [p \in Process |-> FALSE]
    BY DEF Consumes
  <2>2. 0 \in Process /\ Child \subseteq Process /\ \A p \in Child : p > 0 /\ p # 0
    OBVIOUS
  <2>3. ~contained[0] /\ life[0] = "running" /\ calls = 0
    BY <2>1, <2>2
  <2>4. \A p \in Child : life[p] = "none" /\ grp[p] = None /\ reused[p] = "no"
    BY <2>2
  <2>5. QED
    BY <2>2, <2>3, <2>4 DEF Family
<1>3. Runners
  BY DEF Runners, Tended, Alive, Active, Gathers
<1>4. Domain
  BY DEF Domain, Alive, Gone
<1>5. Buffers
  BY DEF Buffers, NoBuffer
<1>6. Texts
  BY DEF Texts
<1>7. QED
  BY <1>1, <1>2, <1>3, <1>4, <1>5, <1>6 DEF IInv

\* The invariant is inductive, in every interleaving of nested shells, of the programs they
\* leave, of deadlines and of the reuse of group numbers.
THEOREM Invariance == Spec => []IInv
<1>1. IInv /\ [Next]_vars => IInv'
  BY TypeOKStep, FamilyStep, RunnersStep, DomainStep, BuffersStep, TextsStep DEF IInv
<1>2. QED
  BY InitIInv, <1>1, PTL DEF Spec

\* Whatever way a substitution ends, nothing of its process group outlives it, no
\* other group is killed in its place, its child is reaped and no descriptor stays
\* open: for every depth of nesting and whatever programs nested commands leave.  A
\* Ctrl+C may fall anywhere in _run_nested.  Where it falls within Popen, or in the
\* finally before the kill, that group alone is let go (Unkilled), and nothing that
\* lives is in any other group without a runner at work on it.
THEOREM SweptAlways == Spec => []Swept
<1>1. IInv => Swept
  <2> SUFFICES ASSUME IInv PROVE Swept
    OBVIOUS
  <2> USE DEF IInv
  <2>1. NothingLeftOpen
    <3>1. \A r \in Process : pc[r] = "idle" => fds[r] = {}
      BY DEF Runners
    <3>2. ASSUME NEW r \in Process, pc[r] = "idle", life[r] = "running",
                 NEW p \in Child, parent[p] = r
          PROVE  life[p] \in {"none", "gone"} \/ lost[p] # "no"
      <4>1. life[p] \in {"none", "booting", "running", "zombie", "gone"}
        BY DEF TypeOK, Process, Child
      <4>2. Tended(p) /\ Alive(parent[p])
        BY <3>2 DEF Runners, Alive
      <4>3. QED
        BY <3>2, <4>1, <4>2 DEF Tended, Active, Gathers
    <3>3. QED
      BY <3>1, <3>2 DEF NothingLeftOpen
  <2>2. StrangersSpared
    BY DEF Family, StrangersSpared
  <2>3. ASSUME NEW g, InDomain(g) PROVE Supervised(g)
    <3>1. child[0] = g /\ g # None /\ pc[0] # "idle" /\ 0 \in Process
      BY <2>3, LimitAssumption DEF InDomain, Gathers, Process
    <3>2. parent[g] = 0
      BY <3>1 DEF Runners
    <3>3. QED
      BY <3>1, <3>2 DEF Supervised
  <2>4. QED
    BY <2>1, <2>2, <2>3 DEF Swept, Domain, Held
<1>2. QED
  BY Invariance, <1>1, PTL

\* A substituted text is everything the nested shell wrote or it is empty, and what
\* is captured meanwhile is bounded: for all limits and pipes.
THEOREM TextIsWhole == Spec => []WholeText
<1>1. IInv => WholeText
  BY DEF IInv, Buffers, Texts, WholeText, BoundedCapture
<1>2. QED
  BY Invariance, <1>1, PTL

=============================================================================
