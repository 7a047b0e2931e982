--------------------------- MODULE ChildrenProofs ---------------------------
(***************************************************************************)
(* Theorems about the two components that wait for children behind a       *)
(* terminal: JobControl, for every number of children, jobs and stages,    *)
(* with and without a terminal; and, at the end, SecureBridge, for every   *)
(* capacity of the pseudo-terminal, any number of keys and of Ctrl+C, with *)
(* and without an indicator.                                               *)
(***************************************************************************)
EXTENDS JobControl, SecureBridge, FiniteSetTheorems, WellFoundedInduction, TLAPS

\* A finite nonempty set of integers has a least element, found as the x whose
\* set of smaller elements is minimal for strict inclusion.
LEMMA LeastExists ==
    ASSUME NEW S \in SUBSET Int, IsFiniteSet(S), S # {}
    PROVE  \E x \in S : \A y \in S : x <= y
<1> DEFINE Below(x) == {y \in S : y < x}
           T == {Below(x) : x \in S}
<1>1. T \subseteq FiniteSubsetsOf(S)
  BY FS_Subset DEF FiniteSubsetsOf
<1>2. T # {}
  OBVIOUS
<1>3. PICK B \in T : \A C \in T : <<C, B>> \notin StrictSubsetOrdering(S)
  <2> HIDE DEF T
  <2> QED BY <1>1, <1>2, WFMin, FS_StrictSubsetOrderingWellFounded
<1>4. PICK x \in S : B = Below(x)
  OBVIOUS
<1>5. ASSUME NEW y \in S PROVE x <= y
  <2>1. SUFFICES ASSUME y < x PROVE FALSE
    OBVIOUS
  <2>2. x \in Int /\ y \in Int /\ \A z \in S : z \in Int
    OBVIOUS
  <2>3. y \in Below(x) /\ y \notin Below(y)
    BY <2>1, <2>2
  <2>4. \A z \in S : z < y => z < x
    BY <2>1, <2>2
  <2>5. Below(y) \subseteq Below(x)
    BY <2>4
  <2>6. <<Below(y), Below(x)>> \in StrictSubsetOrdering(S)
    BY <2>3, <2>5 DEF StrictSubsetOrdering
  <2>7. QED
    BY <1>3, <1>4, <2>6
<1>6. QED
  BY <1>5

\* A non-empty finite set of integers has a greatest element.
LEMMA GreatestExists ==
    ASSUME NEW S \in SUBSET Int, IsFiniteSet(S), S # {}
    PROVE  \E x \in S : \A y \in S : x >= y
<1> DEFINE Above(x) == {y \in S : y > x}
           T == {Above(x) : x \in S}
<1>1. T \subseteq FiniteSubsetsOf(S)
  BY FS_Subset DEF FiniteSubsetsOf
<1>2. T # {}
  OBVIOUS
<1>3. PICK B \in T : \A C \in T : <<C, B>> \notin StrictSubsetOrdering(S)
  <2> HIDE DEF T
  <2> QED BY <1>1, <1>2, WFMin, FS_StrictSubsetOrderingWellFounded
<1>4. PICK x \in S : B = Above(x)
  OBVIOUS
<1>5. ASSUME NEW y \in S PROVE x >= y
  <2>1. SUFFICES ASSUME y > x PROVE FALSE
    OBVIOUS
  <2>2. x \in Int /\ y \in Int /\ \A z \in S : z \in Int
    OBVIOUS
  <2>3. y \in Above(x) /\ y \notin Above(y)
    BY <2>1, <2>2
  <2>4. \A z \in S : z > y => z > x
    BY <2>1, <2>2
  <2>5. Above(y) \subseteq Above(x)
    BY <2>4
  <2>6. <<Above(y), Above(x)>> \in StrictSubsetOrdering(S)
    BY <2>3, <2>5 DEF StrictSubsetOrdering
  <2>7. QED
    BY <1>3, <1>4, <2>6
<1>6. QED
  BY <1>5

\* The stage waitpid is called for, and the last stage of a poll, are stages.
LEMMA MinMaxPid ==
    ASSUME NEW S \in SUBSET Pid, S # {}
    PROVE  /\ Min(S) \in S /\ \A q \in S : Min(S) <= q
           /\ Max(S) \in S /\ \A q \in S : Max(S) >= q
<1>1. IsFiniteSet(1..MaxPid)
  <2>1. MaxPid \in Int
    BY BoundsAssumption
  <2>2. QED
    BY <2>1, FS_Interval
<1>2. IsFiniteSet(S) /\ S \in SUBSET Int
  <2>1. S \in SUBSET (1..MaxPid)
    BY DEF Pid
  <2>2. IsFiniteSet(S)
    BY <1>1, <2>1, FS_Subset
  <2>3. S \in SUBSET Int
    BY <2>1, BoundsAssumption
  <2>4. QED
    BY <2>2, <2>3
<1>3. \E x \in S : \A y \in S : x <= y
  BY <1>2, LeastExists
<1>4. \E x \in S : \A y \in S : x >= y
  BY <1>2, GreatestExists
<1>5. QED
  BY <1>3, <1>4 DEF Min, Max

----------------------------------------------------------------------------
(***************************************************************************)
(* The inductive invariant.  Shape relates the program counter to the      *)
(* variables of the call in progress; Records says that pids are used      *)
(* once, that a process missing from job.pids has been reaped, and that    *)
(* _wait_for_job skips only reaped processes.                              *)
(***************************************************************************)
Shape ==
    /\ pc = "idle" => todo = {}
    /\ pc \in {"spawned", "waitCmd"} => handle \in Pid /\ todo = {handle}
    /\ pc = "unwind" => handle \in Pid /\ todo = {}
    /\ pc = "waitPipe" => todo # {}
    /\ pc = "forking" /\ want = 0 => todo # {}
    /\ pc = "waitJob" => fjob # None
    /\ fjob # None => pc \in {"waitJob", "interrupted", "exited"} /\ fjob \in table
    /\ pc \in {"forking", "spawned", "waitCmd"} => nextId <= MaxJobs
    /\ nextPid + want - 1 <= MaxPid
    /\ want # 0 => pc \in {"forking", "exited"}
    /\ \A j \in table : j < nextId

Records ==
    /\ \A p \in Pid : proc[p] = "unborn" <=> p >= nextPid
    /\ \A p \in todo : p < nextPid
    /\ \A j \in table : /\ pids[j] \subseteq stages[j]
                        /\ \A p \in stages[j] : /\ p < nextPid
                                                /\ p \notin pids[j] => proc[p] = "reaped"
    /\ fjob # None => /\ todo \subseteq pids[fjob]
                      /\ \A p \in pids[fjob] \ todo : proc[p] = "reaped"

IInv == TypeOK /\ Shape /\ Records /\ Tracked /\ DoneMeansReaped

\* The arithmetic of the bounds: launch guards leave a free pid and job record.
LEMMA Bounds ==
    /\ \A n \in 1..(MaxPid + 1) : n <= MaxPid => n \in Pid /\ n + 1 \in 1..(MaxPid + 1)
    /\ \A n \in 1..(MaxJobs + 1) : n <= MaxJobs => n \in JobId /\ n + 1 \in 1..(MaxJobs + 1)
    /\ \A p \in Pid : p \in Nat /\ p # None /\ p # ShellGroup
    /\ \A j \in JobId : j \in Nat /\ j # None
    /\ Codes \subseteq ExitStatus
    /\ {0, SigintStatus, SigkillStatus} \subseteq ExitStatus
    /\ \A n \in StageCounts : n \in 0..MaxPid
    /\ \A n \in 0..MaxPid : n > 0 => n - 1 \in 0..MaxPid
BY BoundsAssumption, InputAssumption
   DEF Pid, JobId, None, ShellGroup, ExitStatus, SigintStatus, SigkillStatus

----------------------------------------------------------------------------
\* Every step keeps the kernel's variables and subprocess._active typed.
LEMMA KernelTypesStep == IInv /\ [Next]_vars => KernelTypes'
<1> SUFFICES ASSUME IInv, [Next]_vars PROVE KernelTypes'
  OBVIOUS
<1> USE Bounds DEF IInv, TypeOK, KernelTypes
<1>1. ASSUME NEW p \in Pid, NEW c \in Codes, Exit(p, c) PROVE KernelTypes'
  BY <1>1 DEF Exit, Shape, tableVars, callVars, kernelVars, vars, ProcState, JobStatus, PC
<1>2. ASSUME NEW p \in Pid, Kill(p) PROVE KernelTypes'
  BY <1>2 DEF Kill, Shape, tableVars, callVars, kernelVars, vars, ProcState, JobStatus, PC
<1>3. CASE CtrlC
  BY <1>3 DEF CtrlC, SigInt, Shape, tableVars, callVars, kernelVars, vars, ProcState,
     JobStatus, PC
<1>4. ASSUME NEW g \in Pid, StopGroup(g) PROVE KernelTypes'
  BY <1>4 DEF StopGroup, Shape, tableVars, callVars, kernelVars, vars, ProcState,
     JobStatus, PC
<1>5. ASSUME NEW g \in Pid, ContGroup(g) PROVE KernelTypes'
  BY <1>5 DEF ContGroup, Continue, Shape, tableVars, callVars, kernelVars, vars, ProcState,
     JobStatus, PC
<1>6. CASE RunBackground
  BY <1>6 DEF RunBackground, CanLaunch, Spawn, Cleanup, Stolen, AddJob, Shape, tableVars,
     callVars, kernelVars, vars, ProcState, JobStatus, PC
<1>7. CASE RunForeground
  BY <1>7 DEF RunForeground, CanLaunch, Spawn, Cleanup, Stolen, Shape, tableVars, callVars,
     kernelVars, vars, ProcState, JobStatus, PC
<1>8. CASE PopenElsewhere
  BY <1>8 DEF PopenElsewhere, Cleanup, Stolen, Shape, tableVars, callVars, kernelVars,
     vars, ProcState, JobStatus, PC
<1>9. ASSUME NEW n \in StageCounts, NEW bg \in BOOLEAN, StartPipeline(n, bg) PROVE KernelTypes'
  BY <1>9 DEF StartPipeline, CanLaunch, Shape, tableVars, callVars, kernelVars, vars,
     ProcState, JobStatus, PC
<1>10. ASSUME NEW j \in JobId, Fg(j) PROVE KernelTypes'
  <2>1. proc' \in [Pid -> ProcState] /\ note' \in [Pid -> BOOLEAN]
    <3>1. CASE status[j] = "Stopped"
      BY <1>10, <3>1 DEF Fg, Resolves, Continue, ProcState
    <3>2. CASE status[j] # "Stopped"
      BY <1>10, <3>2 DEF Fg, Resolves
    <3>3. QED
      BY <3>1, <3>2
  <2>2. fgGroup' \in Pid \union {ShellGroup, NoTerminal}
    BY <1>10 DEF Fg, Resolves, GiveTerminalTo, TableTypes
  <2>3. QED
    BY <1>10, <2>1, <2>2 DEF Fg, Resolves
<1>11. ASSUME NEW j \in JobId, Bg(j) PROVE KernelTypes'
  BY <1>11 DEF Bg, Resolves, Continue, Shape, tableVars, callVars, kernelVars, vars, ProcState,
     JobStatus, PC
<1>12. CASE Jobs
  BY <1>12 DEF Jobs, RemoveDone, Reap, Polled, Ended, Noted, StillUp, Shape, tableVars, callVars,
     kernelVars, vars, ProcState, JobStatus, PC
<1>13. CASE Prompt
  BY <1>13 DEF Prompt, Reap, Polled, Ended, Noted, StillUp, Shape, tableVars, callVars,
     kernelVars, vars, ProcState, JobStatus, PC
<1>14. CASE Leave
  BY <1>14 DEF Leave, Shape, tableVars, callVars, kernelVars, vars, ProcState, JobStatus, PC
<1>15. CASE CommandHandOver
  BY <1>15 DEF CommandHandOver, GiveTerminalTo, Shape, tableVars, callVars, kernelVars,
     vars, ProcState, JobStatus, PC
<1>16. CASE CommandExited
  BY <1>16 DEF CommandExited, TakeTerminalBack, Shape, tableVars, callVars, kernelVars,
     vars, ProcState, JobStatus, PC
<1>17. CASE CommandStopped
  BY <1>17 DEF CommandStopped, AddJob, TakeTerminalBack, Shape, tableVars, callVars,
     kernelVars, vars, ProcState, JobStatus, PC
<1>18. CASE DropPopen
  BY <1>18 DEF DropPopen, Shape, tableVars, callVars, kernelVars, vars, ProcState,
     JobStatus, PC
<1>19. CASE ForkStage
  <2>1. nextPid \in Pid /\ nextPid' \in 1..(MaxPid + 1)
    <3>1. nextPid <= MaxPid
      BY <1>19, BoundsAssumption DEF ForkStage, Shape, CallTypes
    <3>2. QED
      BY <1>19, <3>1 DEF ForkStage
  <2>2. (IF todo = {} THEN nextPid ELSE Min(todo)) \in Pid
    BY <2>1, MinMaxPid DEF CallTypes
  <2>3. QED
    BY <1>19, <2>1, <2>2 DEF ForkStage, ProcState
<1>20. CASE PipelineToBackground
  BY <1>20 DEF PipelineToBackground, AddJob, Shape, tableVars, callVars, kernelVars, vars,
     ProcState, JobStatus, PC
<1>21. CASE PipelineHandOver
  <2>1. Min(todo) \in Pid
    BY <1>21, MinMaxPid DEF PipelineHandOver, Shape, CallTypes
  <2>2. QED
    BY <1>21, <2>1 DEF PipelineHandOver, GiveTerminalTo
<1>22. CASE PipelineStageExited
  BY <1>22, MinMaxPid DEF PipelineStageExited, TakeTerminalBack, Shape, tableVars,
     callVars, kernelVars, vars, ProcState, JobStatus, PC
<1>23. CASE WaitedExited
  BY <1>23 DEF WaitedExited, Shape, tableVars, callVars, kernelVars, vars, ProcState,
     JobStatus, PC
<1>24. CASE WaitedStopped
  BY <1>24, MinMaxPid DEF WaitedStopped, FgReturns, TakeTerminalBack, Shape, tableVars,
     callVars, kernelVars, vars, ProcState, JobStatus, PC
<1>25. CASE WaitedDone
  BY <1>25 DEF WaitedDone, FgReturns, TakeTerminalBack, Shape, tableVars, callVars,
     kernelVars, vars, ProcState, JobStatus, PC
<1>26. CASE InterruptedExited
  BY <1>26, MinMaxPid DEF InterruptedExited, Shape, tableVars, callVars, kernelVars, vars,
     ProcState, JobStatus, PC
<1>27. CASE InterruptedReturns
  BY <1>27 DEF InterruptedReturns, FgReturns, TakeTerminalBack, Shape, tableVars, callVars,
     kernelVars, vars, ProcState, JobStatus, PC
<1>28. CASE ForkFails
  BY <1>28 DEF ForkFails, Shape, tableVars, callVars, kernelVars, vars, ProcState,
     JobStatus, PC
<1>29. CASE Interrupt
  BY <1>29 DEF Interrupt, SigInt, Shape, tableVars, callVars, kernelVars, vars, ProcState,
     JobStatus, PC
<1>30. CASE Escape
  BY <1>30 DEF Escape, Shape, tableVars, callVars, kernelVars, vars, ProcState, JobStatus,
     PC
<1>31. CASE Exited \/ UNCHANGED vars
  BY <1>31 DEF Exited, vars, Shape, tableVars, callVars, kernelVars, vars, ProcState,
     JobStatus, PC
<1>32. QED
  BY <1>1, <1>2, <1>3, <1>4, <1>5, <1>6, <1>7, <1>8, <1>9, <1>10, <1>11, <1>12, <1>13,
     <1>14, <1>15, <1>16, <1>17, <1>18, <1>19, <1>20, <1>21, <1>22, <1>23, <1>24, <1>25,
     <1>26, <1>27, <1>28, <1>29, <1>30, <1>31 DEF Next, Child, Signals, User, Call, Fault

\* Every step keeps the job table typed: Job fields, _next_id, _current_job_id.
LEMMA TableTypesStep == IInv /\ [Next]_vars => TableTypes'
<1> SUFFICES ASSUME IInv, [Next]_vars PROVE TableTypes'
  OBVIOUS
<1> USE Bounds DEF IInv, TypeOK, TableTypes
<1>1. ASSUME NEW p \in Pid, NEW c \in Codes, Exit(p, c) PROVE TableTypes'
  BY <1>1 DEF Exit, Shape, tableVars, callVars, kernelVars, vars, ProcState, JobStatus, PC
<1>2. ASSUME NEW p \in Pid, Kill(p) PROVE TableTypes'
  BY <1>2 DEF Kill, Shape, tableVars, callVars, kernelVars, vars, ProcState, JobStatus, PC
<1>3. CASE CtrlC
  BY <1>3 DEF CtrlC, SigInt, Shape, tableVars, callVars, kernelVars, vars, ProcState,
     JobStatus, PC
<1>4. ASSUME NEW g \in Pid, StopGroup(g) PROVE TableTypes'
  BY <1>4 DEF StopGroup, Shape, tableVars, callVars, kernelVars, vars, ProcState,
     JobStatus, PC
<1>5. ASSUME NEW g \in Pid, ContGroup(g) PROVE TableTypes'
  BY <1>5 DEF ContGroup, Continue, Shape, tableVars, callVars, kernelVars, vars, ProcState,
     JobStatus, PC
<1>6. CASE RunBackground
  <2>1. nextId \in JobId /\ nextId' \in 1..(MaxJobs + 1)
    BY <1>6 DEF RunBackground, CanLaunch, AddJob
  <2>2. nextPid \in Pid
    BY <1>6, MinMaxPid DEF RunBackground, CanLaunch, Shape, KernelTypes, CallTypes
  <2>3. QED
    BY <1>6, <2>1, <2>2 DEF RunBackground, AddJob, JobStatus
<1>7. CASE RunForeground
  BY <1>7 DEF RunForeground, CanLaunch, Spawn, Cleanup, Stolen, Shape, tableVars, callVars,
     kernelVars, vars, ProcState, JobStatus, PC
<1>8. CASE PopenElsewhere
  BY <1>8 DEF PopenElsewhere, Cleanup, Stolen, Shape, tableVars, callVars, kernelVars,
     vars, ProcState, JobStatus, PC
<1>9. ASSUME NEW n \in StageCounts, NEW bg \in BOOLEAN, StartPipeline(n, bg) PROVE TableTypes'
  BY <1>9 DEF StartPipeline, CanLaunch, Shape, tableVars, callVars, kernelVars, vars,
     ProcState, JobStatus, PC
<1>10. ASSUME NEW j \in JobId, Fg(j) PROVE TableTypes'
  BY <1>10 DEF Fg, Resolves, GiveTerminalTo, Continue, Shape, tableVars, callVars, kernelVars, vars,
     ProcState, JobStatus, PC
<1>11. ASSUME NEW j \in JobId, Bg(j) PROVE TableTypes'
  BY <1>11 DEF Bg, Resolves, Continue, Shape, tableVars, callVars, kernelVars, vars, ProcState,
     JobStatus, PC
<1>12. CASE Jobs
  <2>1. \A j \in JobId : lastStatus'[j] \in ExitStatus
    <3> SUFFICES ASSUME NEW j \in JobId PROVE lastStatus'[j] \in ExitStatus
      OBVIOUS
    <3>1. Ended(j) \in SUBSET Pid
      BY DEF Ended
    <3>2. CASE j \in Polled /\ StillUp(j) = {} /\ Ended(j) # {}
      BY <1>12, <3>1, <3>2, MinMaxPid DEF Jobs, RemoveDone, Reap, KernelTypes
    <3>3. CASE ~(j \in Polled /\ StillUp(j) = {} /\ Ended(j) # {})
      BY <1>12, <3>3 DEF Jobs, RemoveDone, Reap
    <3>4. QED
      BY <3>2, <3>3
  <2>2. lastStatus' \in [JobId -> ExitStatus]
    BY <1>12, <2>1 DEF Jobs, RemoveDone, Reap
  <2>3. pids' \in [JobId -> SUBSET Pid]
    BY <1>12 DEF Jobs, RemoveDone, Reap, StillUp
  <2>4. status' \in [JobId -> JobStatus]
    BY <1>12 DEF Jobs, RemoveDone, Reap, JobStatus
  <2>5. QED
    BY <1>12, <2>2, <2>3, <2>4 DEF Jobs, RemoveDone, Reap
<1>13. CASE Prompt
  <2>1. \A j \in JobId : lastStatus'[j] \in ExitStatus
    <3> SUFFICES ASSUME NEW j \in JobId PROVE lastStatus'[j] \in ExitStatus
      OBVIOUS
    <3>1. Ended(j) \in SUBSET Pid
      BY DEF Ended
    <3>2. CASE j \in Polled /\ StillUp(j) = {} /\ Ended(j) # {}
      BY <1>13, <3>1, <3>2, MinMaxPid DEF Prompt, Reap, KernelTypes
    <3>3. CASE ~(j \in Polled /\ StillUp(j) = {} /\ Ended(j) # {})
      BY <1>13, <3>3 DEF Prompt, Reap
    <3>4. QED
      BY <3>2, <3>3
  <2>2. lastStatus' \in [JobId -> ExitStatus]
    BY <1>13, <2>1 DEF Prompt, Reap
  <2>3. pids' \in [JobId -> SUBSET Pid]
    BY <1>13 DEF Prompt, Reap, StillUp
  <2>4. status' \in [JobId -> JobStatus]
    BY <1>13 DEF Prompt, Reap, JobStatus
  <2>5. QED
    BY <1>13, <2>2, <2>3, <2>4 DEF Prompt, Reap
<1>14. CASE Leave
  BY <1>14 DEF Leave, Shape, tableVars, callVars, kernelVars, vars, ProcState, JobStatus, PC
<1>15. CASE CommandHandOver
  BY <1>15 DEF CommandHandOver, GiveTerminalTo, Shape, tableVars, callVars, kernelVars,
     vars, ProcState, JobStatus, PC
<1>16. CASE CommandExited
  BY <1>16 DEF CommandExited, TakeTerminalBack, Shape, tableVars, callVars, kernelVars,
     vars, ProcState, JobStatus, PC
<1>17. CASE CommandStopped
  BY <1>17 DEF CommandStopped, AddJob, TakeTerminalBack, Shape, tableVars, callVars,
     kernelVars, vars, ProcState, JobStatus, PC
<1>18. CASE DropPopen
  BY <1>18 DEF DropPopen, Shape, tableVars, callVars, kernelVars, vars, ProcState,
     JobStatus, PC
<1>19. CASE ForkStage
  BY <1>19 DEF ForkStage, Shape, tableVars, callVars, kernelVars, vars, ProcState,
     JobStatus, PC
<1>20. CASE PipelineToBackground
  <2>1. nextId \in JobId /\ nextId' \in 1..(MaxJobs + 1)
    BY <1>20 DEF PipelineToBackground, Shape, AddJob
  <2>2. Min(todo) \in Pid /\ todo \in SUBSET Pid
    BY <1>20, MinMaxPid DEF PipelineToBackground, Shape, CallTypes
  <2>3. QED
    BY <1>20, <2>1, <2>2 DEF PipelineToBackground, AddJob, JobStatus
<1>21. CASE PipelineHandOver
  BY <1>21 DEF PipelineHandOver, GiveTerminalTo, Shape, tableVars, callVars, kernelVars,
     vars, ProcState, JobStatus, PC
<1>22. CASE PipelineStageExited
  BY <1>22, MinMaxPid DEF PipelineStageExited, TakeTerminalBack, Shape, tableVars,
     callVars, kernelVars, vars, ProcState, JobStatus, PC
<1>23. CASE WaitedExited
  BY <1>23 DEF WaitedExited, Shape, tableVars, callVars, kernelVars, vars, ProcState,
     JobStatus, PC
<1>24. CASE WaitedStopped
  BY <1>24, MinMaxPid DEF WaitedStopped, FgReturns, TakeTerminalBack, Shape, tableVars,
     callVars, kernelVars, vars, ProcState, JobStatus, PC
<1>25. CASE WaitedDone
  <2>1. fjob \in JobId
    BY <1>25 DEF WaitedDone, Shape, CallTypes
  <2>2. QED
    BY <1>25, <2>1 DEF WaitedDone, FgReturns, CallTypes, JobStatus
<1>26. CASE InterruptedExited
  BY <1>26, MinMaxPid DEF InterruptedExited, Shape, tableVars, callVars, kernelVars, vars,
     ProcState, JobStatus, PC
<1>27. CASE InterruptedReturns
  BY <1>27 DEF InterruptedReturns, FgReturns, TakeTerminalBack, Shape, tableVars, callVars,
     kernelVars, vars, ProcState, JobStatus, PC
<1>28. CASE ForkFails
  BY <1>28 DEF ForkFails, Shape, tableVars, callVars, kernelVars, vars, ProcState,
     JobStatus, PC
<1>29. CASE Interrupt
  BY <1>29 DEF Interrupt, SigInt, Shape, tableVars, callVars, kernelVars, vars, ProcState,
     JobStatus, PC
<1>30. CASE Escape
  BY <1>30 DEF Escape, Shape, tableVars, callVars, kernelVars, vars, ProcState, JobStatus,
     PC
<1>31. CASE Exited \/ UNCHANGED vars
  BY <1>31 DEF Exited, vars, Shape, tableVars, callVars, kernelVars, vars, ProcState,
     JobStatus, PC
<1>32. QED
  BY <1>1, <1>2, <1>3, <1>4, <1>5, <1>6, <1>7, <1>8, <1>9, <1>10, <1>11, <1>12, <1>13,
     <1>14, <1>15, <1>16, <1>17, <1>18, <1>19, <1>20, <1>21, <1>22, <1>23, <1>24, <1>25,
     <1>26, <1>27, <1>28, <1>29, <1>30, <1>31 DEF Next, Child, Signals, User, Call, Fault

\* Every step keeps the variables of the call in progress typed.
LEMMA CallTypesStep == IInv /\ [Next]_vars => CallTypes'
<1> SUFFICES ASSUME IInv, [Next]_vars PROVE CallTypes'
  OBVIOUS
<1> USE Bounds DEF IInv, TypeOK, CallTypes
<1>1. ASSUME NEW p \in Pid, NEW c \in Codes, Exit(p, c) PROVE CallTypes'
  BY <1>1 DEF Exit, Shape, tableVars, callVars, kernelVars, vars, ProcState, JobStatus, PC
<1>2. ASSUME NEW p \in Pid, Kill(p) PROVE CallTypes'
  BY <1>2 DEF Kill, Shape, tableVars, callVars, kernelVars, vars, ProcState, JobStatus, PC
<1>3. CASE CtrlC
  BY <1>3 DEF CtrlC, SigInt, Shape, tableVars, callVars, kernelVars, vars, ProcState,
     JobStatus, PC
<1>4. ASSUME NEW g \in Pid, StopGroup(g) PROVE CallTypes'
  BY <1>4 DEF StopGroup, Shape, tableVars, callVars, kernelVars, vars, ProcState,
     JobStatus, PC
<1>5. ASSUME NEW g \in Pid, ContGroup(g) PROVE CallTypes'
  BY <1>5 DEF ContGroup, Continue, Shape, tableVars, callVars, kernelVars, vars, ProcState,
     JobStatus, PC
<1>6. CASE RunBackground
  <2>1. nextPid \in Pid
    BY <1>6 DEF RunBackground, CanLaunch, Shape, KernelTypes
  <2>2. QED
    BY <1>6, <2>1 DEF RunBackground, Spawn, PC
<1>7. CASE RunForeground
  <2>1. nextPid \in Pid
    BY <1>7 DEF RunForeground, CanLaunch, Shape, KernelTypes
  <2>2. QED
    BY <1>7, <2>1 DEF RunForeground, Spawn, PC
<1>8. CASE PopenElsewhere
  BY <1>8 DEF PopenElsewhere, Cleanup, Stolen, Shape, tableVars, callVars, kernelVars,
     vars, ProcState, JobStatus, PC
<1>9. ASSUME NEW n \in StageCounts, NEW bg \in BOOLEAN, StartPipeline(n, bg) PROVE CallTypes'
  BY <1>9 DEF StartPipeline, CanLaunch, Shape, tableVars, callVars, kernelVars, vars,
     ProcState, JobStatus, PC
<1>10. ASSUME NEW j \in JobId, Fg(j) PROVE CallTypes'
  BY <1>10 DEF Fg, Resolves, TableTypes, PC
<1>11. ASSUME NEW j \in JobId, Bg(j) PROVE CallTypes'
  BY <1>11 DEF Bg, Resolves, Continue, Shape, tableVars, callVars, kernelVars, vars, ProcState,
     JobStatus, PC
<1>12. CASE Jobs
  BY <1>12 DEF Jobs, RemoveDone, Reap, Polled, Ended, Noted, StillUp, Shape, tableVars, callVars,
     kernelVars, vars, ProcState, JobStatus, PC
<1>13. CASE Prompt
  BY <1>13 DEF Prompt, Reap, Polled, Ended, Noted, StillUp, Shape, tableVars, callVars,
     kernelVars, vars, ProcState, JobStatus, PC
<1>14. CASE Leave
  BY <1>14 DEF Leave, Shape, tableVars, callVars, kernelVars, vars, ProcState, JobStatus, PC
<1>15. CASE CommandHandOver
  BY <1>15 DEF CommandHandOver, GiveTerminalTo, Shape, tableVars, callVars, kernelVars,
     vars, ProcState, JobStatus, PC
<1>16. CASE CommandExited
  BY <1>16 DEF CommandExited, TakeTerminalBack, Shape, tableVars, callVars, kernelVars,
     vars, ProcState, JobStatus, PC
<1>17. CASE CommandStopped
  BY <1>17 DEF CommandStopped, AddJob, TakeTerminalBack, Shape, tableVars, callVars,
     kernelVars, vars, ProcState, JobStatus, PC
<1>18. CASE DropPopen
  BY <1>18 DEF DropPopen, Shape, tableVars, callVars, kernelVars, vars, ProcState,
     JobStatus, PC
<1>19. CASE ForkStage
  <2>1. nextPid \in Pid
    <3>1. nextPid <= MaxPid
      BY <1>19, BoundsAssumption DEF ForkStage, Shape, KernelTypes
    <3>2. QED
      BY <3>1 DEF KernelTypes
  <2>2. want' \in 0..MaxPid
    BY <1>19 DEF ForkStage
  <2>3. QED
    BY <1>19, <2>1, <2>2 DEF ForkStage
<1>20. CASE PipelineToBackground
  BY <1>20 DEF PipelineToBackground, AddJob, Shape, tableVars, callVars, kernelVars, vars,
     ProcState, JobStatus, PC
<1>21. CASE PipelineHandOver
  BY <1>21 DEF PipelineHandOver, GiveTerminalTo, Shape, tableVars, callVars, kernelVars,
     vars, ProcState, JobStatus, PC
<1>22. CASE PipelineStageExited
  BY <1>22, MinMaxPid DEF PipelineStageExited, TakeTerminalBack, Shape, tableVars,
     callVars, kernelVars, vars, ProcState, JobStatus, PC
<1>23. CASE WaitedExited
  <2>1. Min(todo) \in Pid
    BY <1>23, MinMaxPid DEF WaitedExited
  <2>2. QED
    BY <1>23, <2>1 DEF WaitedExited, KernelTypes
<1>24. CASE WaitedStopped
  BY <1>24, MinMaxPid DEF WaitedStopped, FgReturns, TakeTerminalBack, Shape, tableVars,
     callVars, kernelVars, vars, ProcState, JobStatus, PC
<1>25. CASE WaitedDone
  BY <1>25 DEF WaitedDone, FgReturns, TakeTerminalBack, Shape, tableVars, callVars,
     kernelVars, vars, ProcState, JobStatus, PC
<1>26. CASE InterruptedExited
  BY <1>26, MinMaxPid DEF InterruptedExited, Shape, tableVars, callVars, kernelVars, vars,
     ProcState, JobStatus, PC
<1>27. CASE InterruptedReturns
  BY <1>27 DEF InterruptedReturns, FgReturns, TakeTerminalBack, Shape, tableVars, callVars,
     kernelVars, vars, ProcState, JobStatus, PC
<1>28. CASE ForkFails
  <2>1. 0 \in 0..MaxPid
    BY BoundsAssumption
  <2>2. QED
    BY <1>28, <2>1 DEF ForkFails, PC
<1>29. CASE Interrupt
  BY <1>29 DEF Interrupt, SigInt, Shape, tableVars, callVars, kernelVars, vars, ProcState,
     JobStatus, PC
<1>30. CASE Escape
  BY <1>30 DEF Escape, Shape, tableVars, callVars, kernelVars, vars, ProcState, JobStatus,
     PC
<1>31. CASE Exited \/ UNCHANGED vars
  BY <1>31 DEF Exited, vars, Shape, tableVars, callVars, kernelVars, vars, ProcState,
     JobStatus, PC
<1>32. QED
  BY <1>1, <1>2, <1>3, <1>4, <1>5, <1>6, <1>7, <1>8, <1>9, <1>10, <1>11, <1>12, <1>13,
     <1>14, <1>15, <1>16, <1>17, <1>18, <1>19, <1>20, <1>21, <1>22, <1>23, <1>24, <1>25,
     <1>26, <1>27, <1>28, <1>29, <1>30, <1>31 DEF Next, Child, Signals, User, Call, Fault

\* Every step keeps the call in progress consistent with its program counter.
LEMMA ShapeStep == IInv /\ [Next]_vars => Shape'
<1> SUFFICES ASSUME IInv, [Next]_vars PROVE Shape'
  OBVIOUS
<1> USE Bounds DEF IInv, TypeOK, KernelTypes, TableTypes, CallTypes, Shape
<1>1. ASSUME NEW p \in Pid, NEW c \in Codes, Exit(p, c) PROVE Shape'
  BY <1>1 DEF Exit, kernelVars, tableVars, callVars, vars
<1>2. ASSUME NEW p \in Pid, Kill(p) PROVE Shape'
  BY <1>2 DEF Kill, kernelVars, tableVars, callVars, vars
<1>3. CASE CtrlC
  BY <1>3 DEF CtrlC, SigInt, kernelVars, tableVars, callVars, vars
<1>4. ASSUME NEW g \in Pid, StopGroup(g) PROVE Shape'
  BY <1>4 DEF StopGroup, kernelVars, tableVars, callVars, vars
<1>5. ASSUME NEW g \in Pid, ContGroup(g) PROVE Shape'
  BY <1>5 DEF ContGroup, Continue, kernelVars, tableVars, callVars, vars
<1>6. CASE RunBackground
  BY <1>6 DEF RunBackground, CanLaunch, Spawn, Cleanup, Stolen, AddJob, kernelVars,
     tableVars, callVars, vars
<1>7. CASE RunForeground
  BY <1>7 DEF RunForeground, CanLaunch, Spawn, Cleanup, Stolen, kernelVars, tableVars,
     callVars, vars
<1>8. CASE PopenElsewhere
  BY <1>8 DEF PopenElsewhere, Cleanup, Stolen, kernelVars, tableVars, callVars, vars
<1>9. ASSUME NEW n \in StageCounts, NEW bg \in BOOLEAN, StartPipeline(n, bg) PROVE Shape'
  BY <1>9 DEF StartPipeline, CanLaunch, kernelVars, tableVars, callVars, vars
<1>10. ASSUME NEW j \in JobId, Fg(j) PROVE Shape'
  BY <1>10 DEF Fg, Resolves, GiveTerminalTo, Continue, kernelVars, tableVars, callVars, vars
<1>11. ASSUME NEW j \in JobId, Bg(j) PROVE Shape'
  BY <1>11 DEF Bg, Resolves, Continue, kernelVars, tableVars, callVars, vars
<1>12. CASE Jobs
  BY <1>12 DEF Jobs, RemoveDone, Reap, Polled, Ended, Noted, StillUp, kernelVars, tableVars, callVars,
     vars
<1>13. CASE Prompt
  BY <1>13 DEF Prompt, Reap, Polled, Ended, Noted, StillUp, kernelVars, tableVars,
     callVars, vars
<1>14. CASE Leave
  BY <1>14 DEF Leave, kernelVars, tableVars, callVars, vars
<1>15. CASE CommandHandOver
  BY <1>15 DEF CommandHandOver, GiveTerminalTo, kernelVars, tableVars, callVars, vars
<1>16. CASE CommandExited
  BY <1>16 DEF CommandExited, TakeTerminalBack, kernelVars, tableVars, callVars, vars
<1>17. CASE CommandStopped
  BY <1>17 DEF CommandStopped, AddJob, TakeTerminalBack, kernelVars, tableVars, callVars,
     vars
<1>18. CASE DropPopen
  BY <1>18 DEF DropPopen, kernelVars, tableVars, callVars, vars
<1>19. CASE ForkStage
  BY <1>19, MinMaxPid DEF ForkStage, kernelVars, tableVars, callVars, vars
<1>20. CASE PipelineToBackground
  BY <1>20, MinMaxPid DEF PipelineToBackground, AddJob, kernelVars, tableVars, callVars,
     vars
<1>21. CASE PipelineHandOver
  BY <1>21, MinMaxPid DEF PipelineHandOver, GiveTerminalTo, kernelVars, tableVars,
     callVars, vars
<1>22. CASE PipelineStageExited
  BY <1>22, MinMaxPid DEF PipelineStageExited, TakeTerminalBack, kernelVars, tableVars,
     callVars, vars
<1>23. CASE WaitedExited
  BY <1>23, MinMaxPid DEF WaitedExited, kernelVars, tableVars, callVars, vars
<1>24. CASE WaitedStopped
  BY <1>24, MinMaxPid DEF WaitedStopped, FgReturns, TakeTerminalBack, kernelVars,
     tableVars, callVars, vars
<1>25. CASE WaitedDone
  BY <1>25 DEF WaitedDone, FgReturns, TakeTerminalBack, kernelVars, tableVars, callVars,
     vars
<1>26. CASE InterruptedExited
  BY <1>26, MinMaxPid DEF InterruptedExited, kernelVars, tableVars, callVars, vars
<1>27. CASE InterruptedReturns
  BY <1>27 DEF InterruptedReturns, FgReturns, TakeTerminalBack, kernelVars, tableVars,
     callVars, vars
<1>28. CASE ForkFails
  <2>1. nextPid' + want' - 1 <= MaxPid
    BY <1>28, BoundsAssumption DEF ForkFails
  <2>2. QED
    BY <1>28, <2>1 DEF ForkFails, tableVars
<1>29. CASE Interrupt
  BY <1>29 DEF Interrupt, SigInt, kernelVars, tableVars, callVars, vars
<1>30. CASE Escape
  BY <1>30 DEF Escape, kernelVars, tableVars, callVars, vars
<1>31. CASE Exited \/ UNCHANGED vars
  BY <1>31 DEF Exited, vars, kernelVars, tableVars, callVars, vars
<1>32. QED
  BY <1>1, <1>2, <1>3, <1>4, <1>5, <1>6, <1>7, <1>8, <1>9, <1>10, <1>11, <1>12, <1>13,
     <1>14, <1>15, <1>16, <1>17, <1>18, <1>19, <1>20, <1>21, <1>22, <1>23, <1>24, <1>25,
     <1>26, <1>27, <1>28, <1>29, <1>30, <1>31 DEF Next, Child, Signals, User, Call, Fault

\* Every step keeps the records truthful: what left job.pids has been reaped.
LEMMA RecordsStep == IInv /\ [Next]_vars => Records'
<1> SUFFICES ASSUME IInv, [Next]_vars PROVE Records'
  OBVIOUS
<1> USE Bounds DEF IInv, TypeOK, KernelTypes, TableTypes, CallTypes, Shape, Records
<1>1. ASSUME NEW p \in Pid, NEW c \in Codes, Exit(p, c) PROVE Records'
  BY <1>1 DEF Exit, kernelVars, tableVars, callVars, vars
<1>2. ASSUME NEW p \in Pid, Kill(p) PROVE Records'
  BY <1>2 DEF Kill, kernelVars, tableVars, callVars, vars
<1>3. CASE CtrlC
  BY <1>3 DEF CtrlC, SigInt, kernelVars, tableVars, callVars, vars
<1>4. ASSUME NEW g \in Pid, StopGroup(g) PROVE Records'
  BY <1>4 DEF StopGroup, kernelVars, tableVars, callVars, vars
<1>5. ASSUME NEW g \in Pid, ContGroup(g) PROVE Records'
  BY <1>5 DEF ContGroup, Continue, kernelVars, tableVars, callVars, vars
<1>6. CASE RunBackground
  <2>1. nextPid \in Pid /\ nextPid' = nextPid + 1 /\ active \in SUBSET Pid
    BY <1>6 DEF RunBackground, CanLaunch, Spawn
  <2>2. \A p \in Pid : proc[p] = "reaped" => proc'[p] = "reaped"
    BY <1>6, <2>1 DEF RunBackground, Spawn, Stolen
  <2>3. \A p \in Pid : proc'[p] = "unborn" <=> proc[p] = "unborn" /\ p # nextPid
    BY <1>6, <2>1 DEF RunBackground, Spawn, Stolen
  <2>4. \A p \in Pid : proc'[p] = "unborn" <=> p >= nextPid'
    BY <2>1, <2>3

  <2>5. nextId \notin table /\ nextId \in JobId /\ fjob' = None /\ todo' = {}
    BY <1>6 DEF RunBackground, CanLaunch
  <2>6. \A j \in table' : j \in table \/ j = nextId
    BY <1>6 DEF RunBackground, AddJob
  <2>7. ASSUME NEW j \in table'
        PROVE  /\ pids'[j] \subseteq stages'[j]
               /\ \A p \in stages'[j] : /\ p < nextPid'
                                        /\ p \notin pids'[j] => proc'[p] = "reaped"
    <3>1. CASE j = nextId
      BY <1>6, <2>1, <2>5, <3>1 DEF RunBackground, AddJob
    <3>2. CASE j # nextId
      <4>1. j \in table /\ pids'[j] = pids[j] /\ stages'[j] = stages[j]
        BY <1>6, <2>5, <2>6, <3>2 DEF RunBackground, AddJob
      <4>2. \A p \in stages[j] : p \in Pid /\ p < nextPid'
        BY <2>1, <4>1
      <4>3. QED
        BY <2>2, <4>1, <4>2
    <3>3. QED
      BY <3>1, <3>2
  <2>8. QED
    BY <2>4, <2>5, <2>7
<1>7. CASE RunForeground
  <2>1. nextPid \in Pid /\ nextPid' = nextPid + 1 /\ active \in SUBSET Pid
    BY <1>7 DEF RunForeground, CanLaunch, Spawn
  <2>2. \A p \in Pid : proc[p] = "reaped" => proc'[p] = "reaped"
    BY <1>7, <2>1 DEF RunForeground, Spawn, Stolen
  <2>3. \A p \in Pid : proc'[p] = "unborn" <=> proc[p] = "unborn" /\ p # nextPid
    BY <1>7, <2>1 DEF RunForeground, Spawn, Stolen
  <2>4. \A p \in Pid : proc'[p] = "unborn" <=> p >= nextPid'
    BY <2>1, <2>3

  <2>5. \A p \in todo' : p < nextPid'
    BY <1>7, <2>1 DEF RunForeground
  <2>6. \A j \in table : \A p \in stages[j] : p \in Pid /\ p < nextPid'
    BY <2>1
  <2>7. fjob' = None
    BY <1>7 DEF RunForeground, CanLaunch
  <2>8. QED
    BY <1>7, <2>2, <2>4, <2>5, <2>6, <2>7 DEF RunForeground, tableVars
<1>8. CASE PopenElsewhere
  BY <1>8 DEF PopenElsewhere, Cleanup, Stolen, kernelVars, tableVars, callVars, vars
<1>9. ASSUME NEW n \in StageCounts, NEW bg \in BOOLEAN, StartPipeline(n, bg) PROVE Records'
  BY <1>9 DEF StartPipeline, CanLaunch, kernelVars, tableVars, callVars, vars
<1>10. ASSUME NEW j \in JobId, Fg(j) PROVE Records'
  BY <1>10 DEF Fg, Resolves, GiveTerminalTo, Continue, kernelVars, tableVars, callVars, vars
<1>11. ASSUME NEW j \in JobId, Bg(j) PROVE Records'
  BY <1>11 DEF Bg, Resolves, Continue, kernelVars, tableVars, callVars, vars
<1>12. CASE Jobs
  <2>1. /\ \A p \in Pid : (proc'[p] = "unborn") <=> (proc[p] = "unborn")
        /\ \A p \in Pid : proc[p] = "reaped" => proc'[p] = "reaped"
    BY <1>12 DEF Jobs, RemoveDone, Reap, Ended
  <2>2. ASSUME NEW j \in table
        PROVE  /\ pids'[j] \subseteq pids[j]
               /\ \A p \in pids[j] : p \notin pids'[j] => proc'[p] = "reaped"
    <3>1. CASE j \in Polled
      <4>1. pids'[j] = StillUp(j)
        BY <1>12, <3>1 DEF Jobs, RemoveDone, Reap
      <4>2. \A p \in pids[j] : p \in Pid /\ proc[p] \in ProcState /\ proc[p] # "unborn"
        OBVIOUS
      <4>3. \A p \in pids[j] : p \notin StillUp(j) => proc[p] \in {"zombie", "reaped"}
        BY <4>2 DEF StillUp, ProcState
      <4>4. \A p \in pids[j] : proc[p] = "zombie" => proc'[p] = "reaped"
        BY <1>12, <3>1, <4>2 DEF Jobs, RemoveDone, Reap, Ended
      <4>5. StillUp(j) \subseteq pids[j]
        BY DEF StillUp
      <4>6. ASSUME NEW p \in pids[j], p \notin StillUp(j)
            PROVE  proc'[p] = "reaped"
        <5>1. CASE proc[p] = "zombie"
          BY <4>4, <5>1
        <5>2. CASE proc[p] = "reaped"
          BY <2>1, <4>2, <5>2
        <5>3. QED
          BY <4>3, <4>6, <5>1, <5>2
      <4>7. QED
        BY <4>1, <4>5, <4>6
    <3>2. CASE j \notin Polled
      BY <1>12, <3>2 DEF Jobs, RemoveDone, Reap
    <3>3. QED
      BY <3>1, <3>2
  <2>3. table' \subseteq table /\ nextPid' = nextPid /\ stages' = stages
    BY <1>12 DEF Jobs, RemoveDone, Reap
  <2>4. fjob' = None /\ todo' = {}
    BY <1>12 DEF Jobs, RemoveDone, Reap, callVars
  <2>5. ASSUME NEW j \in table
        PROVE  /\ pids'[j] \subseteq stages[j]
               /\ \A p \in stages[j] : p \notin pids'[j] => proc'[p] = "reaped"
    <3>1. pids[j] \subseteq stages[j] /\ stages[j] \subseteq Pid
      OBVIOUS
    <3>2. ASSUME NEW p \in stages[j], p \notin pids'[j]
          PROVE  proc'[p] = "reaped"
      <4>1. CASE p \in pids[j]
        BY <2>2, <3>2, <4>1
      <4>2. CASE p \notin pids[j]
        BY <2>1, <3>1, <4>2
      <4>3. QED
        BY <4>1, <4>2
    <3>3. QED
      BY <2>2, <3>1, <3>2
  <2>6. ASSUME NEW p \in Pid
        PROVE  proc'[p] = "unborn" <=> p >= nextPid'
    <3>1. proc[p] = "unborn" <=> p >= nextPid
      OBVIOUS
    <3>2. QED
      BY <2>1, <2>3, <3>1
  <2>7. \A j \in table' : \A p \in stages'[j] : p < nextPid'
    BY <2>3
  <2>8. QED
    BY <2>3, <2>4, <2>5, <2>6, <2>7
<1>13. CASE Prompt
  <2>1. /\ \A p \in Pid : (proc'[p] = "unborn") <=> (proc[p] = "unborn")
        /\ \A p \in Pid : proc[p] = "reaped" => proc'[p] = "reaped"
    BY <1>13 DEF Prompt, Reap, Ended
  <2>2. ASSUME NEW j \in table
        PROVE  /\ pids'[j] \subseteq pids[j]
               /\ \A p \in pids[j] : p \notin pids'[j] => proc'[p] = "reaped"
    <3>1. CASE j \in Polled
      <4>1. pids'[j] = StillUp(j)
        BY <1>13, <3>1 DEF Prompt, Reap
      <4>2. \A p \in pids[j] : p \in Pid /\ proc[p] \in ProcState /\ proc[p] # "unborn"
        OBVIOUS
      <4>3. \A p \in pids[j] : p \notin StillUp(j) => proc[p] \in {"zombie", "reaped"}
        BY <4>2 DEF StillUp, ProcState
      <4>4. \A p \in pids[j] : proc[p] = "zombie" => proc'[p] = "reaped"
        BY <1>13, <3>1, <4>2 DEF Prompt, Reap, Ended
      <4>5. StillUp(j) \subseteq pids[j]
        BY DEF StillUp
      <4>6. ASSUME NEW p \in pids[j], p \notin StillUp(j)
            PROVE  proc'[p] = "reaped"
        <5>1. CASE proc[p] = "zombie"
          BY <4>4, <5>1
        <5>2. CASE proc[p] = "reaped"
          BY <2>1, <4>2, <5>2
        <5>3. QED
          BY <4>3, <4>6, <5>1, <5>2
      <4>7. QED
        BY <4>1, <4>5, <4>6
    <3>2. CASE j \notin Polled
      BY <1>13, <3>2 DEF Prompt, Reap
    <3>3. QED
      BY <3>1, <3>2
  <2>3. table' \subseteq table /\ nextPid' = nextPid /\ stages' = stages
    BY <1>13 DEF Prompt, Reap
  <2>4. fjob' = None /\ todo' = {}
    BY <1>13 DEF Prompt, Reap, callVars
  <2>5. ASSUME NEW j \in table
        PROVE  /\ pids'[j] \subseteq stages[j]
               /\ \A p \in stages[j] : p \notin pids'[j] => proc'[p] = "reaped"
    <3>1. pids[j] \subseteq stages[j] /\ stages[j] \subseteq Pid
      OBVIOUS
    <3>2. ASSUME NEW p \in stages[j], p \notin pids'[j]
          PROVE  proc'[p] = "reaped"
      <4>1. CASE p \in pids[j]
        BY <2>2, <3>2, <4>1
      <4>2. CASE p \notin pids[j]
        BY <2>1, <3>1, <4>2
      <4>3. QED
        BY <4>1, <4>2
    <3>3. QED
      BY <2>2, <3>1, <3>2
  <2>6. ASSUME NEW p \in Pid
        PROVE  proc'[p] = "unborn" <=> p >= nextPid'
    <3>1. proc[p] = "unborn" <=> p >= nextPid
      OBVIOUS
    <3>2. QED
      BY <2>1, <2>3, <3>1
  <2>7. \A j \in table' : \A p \in stages'[j] : p < nextPid'
    BY <2>3
  <2>8. QED
    BY <2>3, <2>4, <2>5, <2>6, <2>7
<1>14. CASE Leave
  BY <1>14 DEF Leave, kernelVars, tableVars, callVars, vars
<1>15. CASE CommandHandOver
  BY <1>15 DEF CommandHandOver, GiveTerminalTo, kernelVars, tableVars, callVars, vars
<1>16. CASE CommandExited
  BY <1>16 DEF CommandExited, TakeTerminalBack, kernelVars, tableVars, callVars, vars
<1>17. CASE CommandStopped
  BY <1>17 DEF CommandStopped, AddJob, TakeTerminalBack, kernelVars, tableVars, callVars,
     vars
<1>18. CASE DropPopen
  BY <1>18 DEF DropPopen, kernelVars, tableVars, callVars, vars
<1>19. CASE ForkStage
  BY <1>19, MinMaxPid, SMTT(40) DEF ForkStage, kernelVars, tableVars, callVars, vars
<1>20. CASE PipelineToBackground
  BY <1>20, MinMaxPid DEF PipelineToBackground, AddJob, kernelVars, tableVars, callVars,
     vars
<1>21. CASE PipelineHandOver
  BY <1>21, MinMaxPid DEF PipelineHandOver, GiveTerminalTo, kernelVars, tableVars,
     callVars, vars
<1>22. CASE PipelineStageExited
  BY <1>22, MinMaxPid DEF PipelineStageExited, TakeTerminalBack, kernelVars, tableVars,
     callVars, vars
<1>23. CASE WaitedExited
  BY <1>23, MinMaxPid DEF WaitedExited, kernelVars, tableVars, callVars, vars
<1>24. CASE WaitedStopped
  BY <1>24, MinMaxPid DEF WaitedStopped, FgReturns, TakeTerminalBack, kernelVars,
     tableVars, callVars, vars
<1>25. CASE WaitedDone
  BY <1>25 DEF WaitedDone, FgReturns, TakeTerminalBack, kernelVars, tableVars, callVars,
     vars
<1>26. CASE InterruptedExited
  BY <1>26, MinMaxPid DEF InterruptedExited, kernelVars, tableVars, callVars, vars
<1>27. CASE InterruptedReturns
  BY <1>27 DEF InterruptedReturns, FgReturns, TakeTerminalBack, kernelVars, tableVars,
     callVars, vars
<1>28. CASE ForkFails
  BY <1>28 DEF ForkFails, kernelVars, tableVars, callVars, vars
<1>29. CASE Interrupt
  BY <1>29 DEF Interrupt, SigInt, kernelVars, tableVars, callVars, vars
<1>30. CASE Escape
  BY <1>30 DEF Escape, kernelVars, tableVars, callVars, vars
<1>31. CASE Exited \/ UNCHANGED vars
  BY <1>31 DEF Exited, vars, kernelVars, tableVars, callVars, vars
<1>32. QED
  BY <1>1, <1>2, <1>3, <1>4, <1>5, <1>6, <1>7, <1>8, <1>9, <1>10, <1>11, <1>12, <1>13,
     <1>14, <1>15, <1>16, <1>17, <1>18, <1>19, <1>20, <1>21, <1>22, <1>23, <1>24, <1>25,
     <1>26, <1>27, <1>28, <1>29, <1>30, <1>31 DEF Next, Child, Signals, User, Call, Fault

\* No step loses a child: the heart of the reaping code of jobs.py and shell.py.
LEMMA TrackedStep == IInv /\ [Next]_vars => Tracked'
<1> SUFFICES ASSUME IInv, [Next]_vars PROVE Tracked'
  OBVIOUS
<1> USE Bounds DEF IInv, TypeOK, KernelTypes, TableTypes, CallTypes, Shape, Records, Tracked, Unreaped, Alive
<1>1. ASSUME NEW p \in Pid, NEW c \in Codes, Exit(p, c) PROVE Tracked'
  BY <1>1 DEF Exit, kernelVars, tableVars, callVars, vars
<1>2. ASSUME NEW p \in Pid, Kill(p) PROVE Tracked'
  BY <1>2 DEF Kill, kernelVars, tableVars, callVars, vars
<1>3. CASE CtrlC
  BY <1>3 DEF CtrlC, SigInt, kernelVars, tableVars, callVars, vars
<1>4. ASSUME NEW g \in Pid, StopGroup(g) PROVE Tracked'
  BY <1>4 DEF StopGroup, kernelVars, tableVars, callVars, vars
<1>5. ASSUME NEW g \in Pid, ContGroup(g) PROVE Tracked'
  BY <1>5 DEF ContGroup, Continue, kernelVars, tableVars, callVars, vars
<1>6. CASE RunBackground
  BY <1>6 DEF RunBackground, CanLaunch, Spawn, Cleanup, Stolen, AddJob, kernelVars,
     tableVars, callVars, vars
<1>7. CASE RunForeground
  BY <1>7 DEF RunForeground, CanLaunch, Spawn, Cleanup, Stolen, kernelVars, tableVars,
     callVars, vars
<1>8. CASE PopenElsewhere
  BY <1>8 DEF PopenElsewhere, Cleanup, Stolen, kernelVars, tableVars, callVars, vars
<1>9. ASSUME NEW n \in StageCounts, NEW bg \in BOOLEAN, StartPipeline(n, bg) PROVE Tracked'
  BY <1>9 DEF StartPipeline, CanLaunch, kernelVars, tableVars, callVars, vars
<1>10. ASSUME NEW j \in JobId, Fg(j) PROVE Tracked'
  BY <1>10 DEF Fg, Resolves, GiveTerminalTo, Continue, kernelVars, tableVars, callVars, vars
<1>11. ASSUME NEW j \in JobId, Bg(j) PROVE Tracked'
  BY <1>11 DEF Bg, Resolves, Continue, kernelVars, tableVars, callVars, vars
<1>12. CASE Jobs
  BY <1>12 DEF Jobs, RemoveDone, Reap, Polled, Ended, Noted, StillUp, kernelVars, tableVars, callVars,
     vars
<1>13. CASE Prompt
  BY <1>13 DEF Prompt, Reap, Polled, Ended, Noted, StillUp, kernelVars, tableVars,
     callVars, vars
<1>14. CASE Leave
  BY <1>14 DEF Leave, kernelVars, tableVars, callVars, vars
<1>15. CASE CommandHandOver
  BY <1>15 DEF CommandHandOver, GiveTerminalTo, kernelVars, tableVars, callVars, vars
<1>16. CASE CommandExited
  BY <1>16 DEF CommandExited, TakeTerminalBack, kernelVars, tableVars, callVars, vars
<1>17. CASE CommandStopped
  BY <1>17 DEF CommandStopped, AddJob, TakeTerminalBack, kernelVars, tableVars, callVars,
     vars
<1>18. CASE DropPopen
  BY <1>18 DEF DropPopen, kernelVars, tableVars, callVars, vars
<1>19. CASE ForkStage
  BY <1>19, MinMaxPid DEF ForkStage, kernelVars, tableVars, callVars, vars
<1>20. CASE PipelineToBackground
  BY <1>20, MinMaxPid DEF PipelineToBackground, AddJob, kernelVars, tableVars, callVars,
     vars
<1>21. CASE PipelineHandOver
  BY <1>21, MinMaxPid DEF PipelineHandOver, GiveTerminalTo, kernelVars, tableVars,
     callVars, vars
<1>22. CASE PipelineStageExited
  BY <1>22, MinMaxPid DEF PipelineStageExited, TakeTerminalBack, kernelVars, tableVars,
     callVars, vars
<1>23. CASE WaitedExited
  BY <1>23, MinMaxPid DEF WaitedExited, kernelVars, tableVars, callVars, vars
<1>24. CASE WaitedStopped
  BY <1>24, MinMaxPid DEF WaitedStopped, FgReturns, TakeTerminalBack, kernelVars,
     tableVars, callVars, vars
<1>25. CASE WaitedDone
  BY <1>25 DEF WaitedDone, FgReturns, TakeTerminalBack, kernelVars, tableVars, callVars,
     vars
<1>26. CASE InterruptedExited
  BY <1>26, MinMaxPid DEF InterruptedExited, kernelVars, tableVars, callVars, vars
<1>27. CASE InterruptedReturns
  BY <1>27 DEF InterruptedReturns, FgReturns, TakeTerminalBack, kernelVars, tableVars,
     callVars, vars
<1>28. CASE ForkFails
  BY <1>28 DEF ForkFails, kernelVars, tableVars, callVars, vars
<1>29. CASE Interrupt
  BY <1>29 DEF Interrupt, SigInt, kernelVars, tableVars, callVars, vars
<1>30. CASE Escape
  BY <1>30 DEF Escape, kernelVars, tableVars, callVars, vars
<1>31. CASE Exited \/ UNCHANGED vars
  BY <1>31 DEF Exited, vars, kernelVars, tableVars, callVars, vars
<1>32. QED
  BY <1>1, <1>2, <1>3, <1>4, <1>5, <1>6, <1>7, <1>8, <1>9, <1>10, <1>11, <1>12, <1>13,
     <1>14, <1>15, <1>16, <1>17, <1>18, <1>19, <1>20, <1>21, <1>22, <1>23, <1>24, <1>25,
     <1>26, <1>27, <1>28, <1>29, <1>30, <1>31 DEF Next, Child, Signals, User, Call, Fault

\* No step calls a job Done before its processes are reaped.
LEMMA DoneStep == IInv /\ [Next]_vars => DoneMeansReaped'
<1> SUFFICES ASSUME IInv, [Next]_vars PROVE DoneMeansReaped'
  OBVIOUS
<1> USE Bounds DEF IInv, TypeOK, KernelTypes, TableTypes, CallTypes, Shape, Records, DoneMeansReaped
<1>1. ASSUME NEW p \in Pid, NEW c \in Codes, Exit(p, c) PROVE DoneMeansReaped'
  BY <1>1 DEF Exit, kernelVars, tableVars, callVars, vars
<1>2. ASSUME NEW p \in Pid, Kill(p) PROVE DoneMeansReaped'
  BY <1>2 DEF Kill, kernelVars, tableVars, callVars, vars
<1>3. CASE CtrlC
  BY <1>3 DEF CtrlC, SigInt, kernelVars, tableVars, callVars, vars
<1>4. ASSUME NEW g \in Pid, StopGroup(g) PROVE DoneMeansReaped'
  BY <1>4 DEF StopGroup, kernelVars, tableVars, callVars, vars
<1>5. ASSUME NEW g \in Pid, ContGroup(g) PROVE DoneMeansReaped'
  BY <1>5 DEF ContGroup, Continue, kernelVars, tableVars, callVars, vars
<1>6. CASE RunBackground
  BY <1>6 DEF RunBackground, CanLaunch, Spawn, Cleanup, Stolen, AddJob, kernelVars,
     tableVars, callVars, vars
<1>7. CASE RunForeground
  BY <1>7 DEF RunForeground, CanLaunch, Spawn, Cleanup, Stolen, kernelVars, tableVars,
     callVars, vars
<1>8. CASE PopenElsewhere
  BY <1>8 DEF PopenElsewhere, Cleanup, Stolen, kernelVars, tableVars, callVars, vars
<1>9. ASSUME NEW n \in StageCounts, NEW bg \in BOOLEAN, StartPipeline(n, bg) PROVE DoneMeansReaped'
  BY <1>9 DEF StartPipeline, CanLaunch, kernelVars, tableVars, callVars, vars
<1>10. ASSUME NEW j \in JobId, Fg(j) PROVE DoneMeansReaped'
  BY <1>10 DEF Fg, Resolves, GiveTerminalTo, Continue, kernelVars, tableVars, callVars, vars
<1>11. ASSUME NEW j \in JobId, Bg(j) PROVE DoneMeansReaped'
  BY <1>11 DEF Bg, Resolves, Continue, kernelVars, tableVars, callVars, vars
<1>12. CASE Jobs
  BY <1>12 DEF Jobs, RemoveDone, Reap, Polled, Ended, Noted, StillUp, kernelVars, tableVars, callVars,
     vars
<1>13. CASE Prompt
  <2>1. \A p \in Pid : proc[p] = "reaped" => proc'[p] = "reaped"
    BY <1>13 DEF Prompt, Reap, Ended
  <2>2. ASSUME NEW j \in table, status'[j] = "Done", NEW p \in stages[j]
        PROVE  proc'[p] = "reaped"
    <3>1. CASE j \notin Polled
      BY <1>13, <2>1, <2>2, <3>1 DEF Prompt, Reap
    <3>2. CASE j \in Polled
      <4>1. StillUp(j) = {}
        BY <1>13, <2>2, <3>2 DEF Prompt, Reap
      <4>2. p \in Pid /\ proc[p] \in ProcState /\ proc[p] # "unborn"
        OBVIOUS
      <4>3. proc[p] = "reaped" \/ p \in Ended(j)
        BY <4>1, <4>2 DEF StillUp, Ended, ProcState
      <4>4. QED
        BY <1>13, <2>1, <3>2, <4>2, <4>3 DEF Prompt, Reap
    <3>3. QED
      BY <3>1, <3>2
  <2>3. QED
    BY <1>13, <2>2 DEF Prompt, Reap
<1>14. CASE Leave
  BY <1>14 DEF Leave, kernelVars, tableVars, callVars, vars
<1>15. CASE CommandHandOver
  BY <1>15 DEF CommandHandOver, GiveTerminalTo, kernelVars, tableVars, callVars, vars
<1>16. CASE CommandExited
  BY <1>16 DEF CommandExited, TakeTerminalBack, kernelVars, tableVars, callVars, vars
<1>17. CASE CommandStopped
  BY <1>17 DEF CommandStopped, AddJob, TakeTerminalBack, kernelVars, tableVars, callVars,
     vars
<1>18. CASE DropPopen
  BY <1>18 DEF DropPopen, kernelVars, tableVars, callVars, vars
<1>19. CASE ForkStage
  BY <1>19, MinMaxPid DEF ForkStage, kernelVars, tableVars, callVars, vars
<1>20. CASE PipelineToBackground
  BY <1>20, MinMaxPid DEF PipelineToBackground, AddJob, kernelVars, tableVars, callVars,
     vars
<1>21. CASE PipelineHandOver
  BY <1>21, MinMaxPid DEF PipelineHandOver, GiveTerminalTo, kernelVars, tableVars,
     callVars, vars
<1>22. CASE PipelineStageExited
  BY <1>22, MinMaxPid DEF PipelineStageExited, TakeTerminalBack, kernelVars, tableVars,
     callVars, vars
<1>23. CASE WaitedExited
  BY <1>23, MinMaxPid DEF WaitedExited, kernelVars, tableVars, callVars, vars
<1>24. CASE WaitedStopped
  BY <1>24, MinMaxPid DEF WaitedStopped, FgReturns, TakeTerminalBack, kernelVars,
     tableVars, callVars, vars
<1>25. CASE WaitedDone
  BY <1>25 DEF WaitedDone, FgReturns, TakeTerminalBack, kernelVars, tableVars, callVars,
     vars
<1>26. CASE InterruptedExited
  BY <1>26, MinMaxPid DEF InterruptedExited, kernelVars, tableVars, callVars, vars
<1>27. CASE InterruptedReturns
  BY <1>27 DEF InterruptedReturns, FgReturns, TakeTerminalBack, kernelVars, tableVars,
     callVars, vars
<1>28. CASE ForkFails
  BY <1>28 DEF ForkFails, kernelVars, tableVars, callVars, vars
<1>29. CASE Interrupt
  BY <1>29 DEF Interrupt, SigInt, kernelVars, tableVars, callVars, vars
<1>30. CASE Escape
  BY <1>30 DEF Escape, kernelVars, tableVars, callVars, vars
<1>31. CASE Exited \/ UNCHANGED vars
  BY <1>31 DEF Exited, vars, kernelVars, tableVars, callVars, vars
<1>32. QED
  BY <1>1, <1>2, <1>3, <1>4, <1>5, <1>6, <1>7, <1>8, <1>9, <1>10, <1>11, <1>12, <1>13,
     <1>14, <1>15, <1>16, <1>17, <1>18, <1>19, <1>20, <1>21, <1>22, <1>23, <1>24, <1>25,
     <1>26, <1>27, <1>28, <1>29, <1>30, <1>31 DEF Next, Child, Signals, User, Call, Fault

----------------------------------------------------------------------------
\* The shell starts with an empty table and nothing to wait for.
LEMMA InitIInv == Init => IInv
<1> SUFFICES ASSUME Init PROVE IInv
  OBVIOUS
<1> USE Bounds, BoundsAssumption DEF Init
<1>1. TypeOK
  <2>1. KernelTypes
    BY DEF KernelTypes, ProcState
  <2>2. TableTypes
    <3>1. nextId \in 1..(MaxJobs + 1) /\ current \in JobId \union {None}
      OBVIOUS
    <3>2. lastStatus \in [JobId -> ExitStatus]
      OBVIOUS
    <3>3. /\ table \in SUBSET JobId /\ status \in [JobId -> JobStatus]
          /\ pids \in [JobId -> SUBSET Pid] /\ stages \in [JobId -> SUBSET Pid]
          /\ pgid \in [JobId -> Pid \union {ShellGroup}]
      BY DEF JobStatus
    <3>4. QED
      BY <3>1, <3>2, <3>3 DEF TableTypes
  <2>3. CallTypes
    <3>1. want \in 0..MaxPid /\ res \in ExitStatus
      OBVIOUS
    <3>2. QED
      BY <3>1 DEF CallTypes, PC
  <2>4. QED
    BY <2>1, <2>2, <2>3 DEF TypeOK
<1>2. Shape
  <2>1. nextPid + want - 1 <= MaxPid
    OBVIOUS
  <2>2. QED
    BY <2>1 DEF Shape
<1>3. Records
  <2>1. \A p \in Pid : p >= nextPid
    BY DEF Pid
  <2>2. QED
    BY <2>1 DEF Records
<1>4. Tracked
  BY DEF Tracked, Unreaped
<1>5. DoneMeansReaped
  BY DEF DoneMeansReaped
<1>6. QED
  BY <1>1, <1>2, <1>3, <1>4, <1>5 DEF IInv

\* The invariant is inductive, whatever the children, the terminal's user and
\* other processes do, and in every interleaving with the shell's calls.
THEOREM Invariance == Spec => []IInv
<1>1. IInv /\ [Next]_vars => IInv'
  BY KernelTypesStep, TableTypesStep, CallTypesStep, ShapeStep, RecordsStep,
     TrackedStep, DoneStep DEF IInv, TypeOK
<1>2. QED
  BY InitIInv, <1>1, PTL DEF Spec

\* Type correctness of the whole of the job-control state.
THEOREM TypeCorrect == Spec => []TypeOK
<1>1. IInv => TypeOK
  BY DEF IInv
<1>2. QED
  BY Invariance, <1>1, PTL

\* No child is lost: every child the kernel keeps is in the hands of the call in
\* progress or listed by a job that is Running or Stopped.
THEOREM NoChildIsLost == Spec => []Tracked
<1>1. IInv => Tracked
  BY DEF IInv
<1>2. QED
  BY Invariance, <1>1, PTL

\* A job is Done only when every process it was started with has been reaped.
THEOREM DoneIsNeverEarly == Spec => []DoneMeansReaped
<1>1. IInv => DoneMeansReaped
  BY DEF IInv
<1>2. QED
  BY Invariance, <1>1, PTL

----------------------------------------------------------------------------
(***************************************************************************)
(* Stops and process groups.  What StopsAreSeen and BackgroundSpared need  *)
(* of the groups: every process of a job is in the job's group, two jobs   *)
(* never share one, and neither does the call in progress with a job it    *)
(* does not wait for.                                                      *)
(***************************************************************************)
Groups ==
    /\ \A j \in table : pgid[j] \in Pid /\ pgid[j] < nextPid
    /\ \A j \in table : \A p \in stages[j] : grp[p] = pgid[j]
    /\ \A i, j \in table : i # j => pgid[i] # pgid[j]
    /\ pc \in {"forking", "spawned", "waitCmd"} => \A p \in todo : grp[p] = Min(todo)
    /\ fjob = None => \A p \in todo : \A j \in table : grp[p] # pgid[j]

\* The least element of a set is the only lower bound in it.
LEMMA LeastOf ==
    ASSUME NEW S \in SUBSET Pid, NEW x \in S, \A y \in S : x <= y
    PROVE  x = Min(S)
<1>1. Min(S) \in S /\ Min(S) <= x
  BY MinMaxPid
<1>2. x <= Min(S) /\ Min(S) \in Pid
  BY <1>1
<1>3. QED
  BY <1>1, <1>2, Bounds

\* A step that forks nothing and adds no job keeps the groups apart.
LEMMA GroupsKept ==
    ASSUME Groups,
           UNCHANGED <<grp, nextPid, pgid, stages>>, table' \subseteq table,
           fjob' = None => todo' \subseteq todo /\ (fjob = None \/ todo' = {}),
           \/ todo' = {}
           \/ pc' \in {"forking", "spawned", "waitCmd"} =>
                  pc \in {"forking", "spawned", "waitCmd"} /\ todo' = todo
    PROVE  Groups'
BY DEF Groups

\* A new job whose processes form a group no other job has.
LEMMA GroupsAdd ==
    ASSUME Groups, table \in SUBSET JobId, pgid \in [JobId -> Pid \union {ShellGroup}],
           stages \in [JobId -> SUBSET Pid], nextPid \in Nat, nextPid' \in Nat,
           \A p \in Pid : p \in Nat,
           NEW id \in JobId, id \notin table, NEW g \in Pid, NEW S \in SUBSET Pid,
           table' = table \union {id}, pgid' = [pgid EXCEPT ![id] = g],
           stages' = [stages EXCEPT ![id] = S],
           nextPid <= nextPid', g < nextPid',
           \A j \in table : pgid[j] # g /\ \A p \in stages[j] : grp'[p] = grp[p],
           \A p \in S : grp'[p] = g, todo' = {}
    PROVE  Groups'
<1>1. \A j \in table : /\ j \in JobId /\ j # id /\ pgid'[j] = pgid[j] /\ stages'[j] = stages[j]
                       /\ pgid[j] \in Pid /\ pgid[j] < nextPid /\ pgid[j] # g
                       /\ \A p \in stages[j] : grp'[p] = pgid[j]
  BY DEF Groups
<1>2. pgid'[id] = g /\ stages'[id] = S
  OBVIOUS
<1>3. \A j \in table' : pgid'[j] \in Pid /\ pgid'[j] < nextPid'
  BY <1>1, <1>2
<1>4. \A j \in table' : \A p \in stages'[j] : grp'[p] = pgid'[j]
  BY <1>1, <1>2
<1>5. \A i, j \in table' : i # j => pgid'[i] # pgid'[j]
  BY <1>1, <1>2 DEF Groups
<1>6. QED
  BY <1>3, <1>4, <1>5 DEF Groups

\* Every step keeps the process groups of the jobs and of the call apart.
LEMMA GroupsStep == IInv /\ Groups /\ [Next]_vars => Groups'
<1> SUFFICES ASSUME IInv, Groups, [Next]_vars PROVE Groups'
  OBVIOUS
<1>types. /\ table \in SUBSET JobId /\ todo \in SUBSET Pid
          /\ pgid \in [JobId -> Pid \union {ShellGroup}]
          /\ stages \in [JobId -> SUBSET Pid]
  BY DEF IInv, TypeOK, TableTypes, CallTypes
<1>grp. grp \in [Pid -> Pid \union {ShellGroup}] /\ nextPid \in Nat /\ \A p \in Pid : p \in Nat
  BY Bounds DEF IInv, TypeOK, KernelTypes
<1>known. (\A p \in todo : p < nextPid) /\ (\A j \in table : \A p \in stages[j] : p < nextPid)
  BY DEF IInv, Records
<1>older. \A j \in table : /\ pgid[j] \in Pid /\ pgid[j] < nextPid /\ pgid[j] < nextPid + 1
                           /\ \A p \in stages[j] : p \in Pid /\ p # nextPid
  <2>1. \A j \in table : pgid[j] \in Pid /\ pgid[j] < nextPid
    BY DEF Groups
  <2>2. \A j \in table : \A p \in stages[j] : p \in Pid /\ p # nextPid
    BY <1>types, <1>grp, <1>known
  <2>3. QED
    BY <2>1, <2>2, <1>grp
<1>shape. Shape /\ Records
  BY DEF IInv
<1>fork. CanLaunch(1) => pc = "idle" /\ nextPid \in Pid /\ nextId <= MaxJobs
  <2>1. nextPid \in 1..(MaxPid + 1)
    BY DEF IInv, TypeOK, KernelTypes
  <2>2. QED
    BY <2>1, BoundsAssumption DEF CanLaunch, Pid
<1>want. want > 0 => nextPid \in Pid
  <2>1. nextPid \in 1..(MaxPid + 1) /\ want \in 0..MaxPid
    BY DEF IInv, TypeOK, KernelTypes, CallTypes
  <2>2. QED
    BY <1>shape, <2>1, BoundsAssumption DEF Shape, Pid
<1>fresh. nextId \notin table /\ (nextId <= MaxJobs => nextId \in JobId)
  BY <1>shape, Bounds DEF Shape, IInv, TypeOK, TableTypes
<1>1. ASSUME NEW p \in Pid, NEW c \in Codes, Exit(p, c) PROVE Groups'
  BY <1>1, <1>shape, GroupsKept DEF Exit, Shape, tableVars, callVars, kernelVars
<1>2. ASSUME NEW p \in Pid, Kill(p) PROVE Groups'
  BY <1>2, <1>shape, GroupsKept DEF Kill, Shape, tableVars, callVars, kernelVars
<1>3. CASE CtrlC
  BY <1>3, <1>shape, GroupsKept DEF CtrlC, Shape, tableVars, callVars, kernelVars
<1>4. ASSUME NEW g \in Pid, StopGroup(g) PROVE Groups'
  BY <1>4, <1>shape, GroupsKept DEF StopGroup, Shape, tableVars, callVars, kernelVars
<1>5. ASSUME NEW g \in Pid, ContGroup(g) PROVE Groups'
  BY <1>5, <1>shape, GroupsKept DEF ContGroup, Continue, Shape, tableVars, callVars,
     kernelVars
<1>6. CASE RunBackground
  <2>1. /\ nextPid \in Pid /\ grp' = [grp EXCEPT ![nextPid] = nextPid]
        /\ todo' = {} /\ nextPid' = nextPid + 1
    BY <1>6, <1>fork, <1>shape DEF RunBackground, Spawn, Shape
  <2>2. /\ table' = table \union {nextId} /\ pgid' = [pgid EXCEPT ![nextId] = nextPid]
        /\ stages' = [stages EXCEPT ![nextId] = {nextPid}]
        /\ nextId \in JobId /\ nextId \notin table
    BY <1>6, <1>fork, <1>fresh DEF RunBackground, AddJob
  <2>3. /\ nextPid' \in Nat /\ nextPid <= nextPid' /\ nextPid < nextPid'
        /\ {nextPid} \in SUBSET Pid /\ \A p \in {nextPid} : grp'[p] = nextPid
    BY <2>1, <1>grp
  <2>4. \A j \in table : pgid[j] # nextPid /\ \A p \in stages[j] : grp'[p] = grp[p]
    BY <2>1, <1>grp, <1>types, <1>known DEF Groups
  <2>5. QED
    <3> DEFINE kid == nextPid
    <3>1. /\ kid \in Pid /\ {kid} \in SUBSET Pid /\ kid < nextPid'
          /\ pgid' = [pgid EXCEPT ![nextId] = kid]
          /\ stages' = [stages EXCEPT ![nextId] = {kid}]
          /\ \A p \in {kid} : grp'[p] = kid
          /\ \A j \in table : pgid[j] # kid /\ \A p \in stages[j] : grp'[p] = grp[p]
      BY <2>1, <2>2, <2>3, <2>4
    <3>2. /\ nextId \in JobId /\ nextId \notin table /\ table' = table \union {nextId}
          /\ nextPid' \in Nat /\ nextPid <= nextPid' /\ todo' = {}
      BY <2>1, <2>2, <2>3
    <3> HIDE DEF kid
    <3>3. QED
      BY <3>1, <3>2, <1>types, <1>grp, GroupsAdd
<1>7. CASE RunForeground
  <2>1. /\ nextPid \in Pid /\ grp' = [grp EXCEPT ![nextPid] = nextPid]
        /\ todo' = {nextPid} /\ nextPid' = nextPid + 1
        /\ table' = table /\ pgid' = pgid /\ stages' = stages
    BY <1>7, <1>fork DEF RunForeground, Spawn, tableVars
  <2>2. Min({nextPid}) = nextPid
    <3>1. {nextPid} \in SUBSET Pid /\ {nextPid} # {}
      BY <2>1
    <3>2. Min({nextPid}) \in {nextPid}
      BY <3>1, MinMaxPid
    <3>3. QED
      BY <3>2
  <2>3. \A j \in table : /\ pgid[j] \in Pid /\ pgid[j] < nextPid' /\ pgid[j] # nextPid
                         /\ \A p \in stages[j] : grp'[p] = grp[p]
    BY <2>1, <1>grp, <1>types, <1>older
  <2>4. \A p \in todo' : p = nextPid /\ grp'[p] = nextPid
    BY <2>1, <1>grp
  <2>5. QED
    BY <2>1, <2>2, <2>3, <2>4 DEF Groups
<1>8. CASE PopenElsewhere
  BY <1>8, <1>shape, GroupsKept DEF PopenElsewhere, Shape, tableVars, callVars, kernelVars
<1>9. ASSUME NEW n \in StageCounts, NEW bg \in BOOLEAN, StartPipeline(n, bg)
       PROVE  Groups'
  <2>1. todo = {} /\ fjob = None /\ fjob' = fjob /\ todo' = todo
    BY <1>9, <1>shape DEF StartPipeline, CanLaunch, Shape
  <2>2. UNCHANGED <<grp, nextPid, pgid, stages>> /\ table' \subseteq table
    BY <1>9 DEF StartPipeline, kernelVars, tableVars
  <2>3. QED
    BY <2>1, <2>2, GroupsKept
<1>10. ASSUME NEW j \in JobId, Fg(j) PROVE Groups'
  <2>1. j # None /\ fjob' = j /\ pc' = "waitJob"
    BY <1>10, Bounds DEF Fg, Resolves
  <2>2. UNCHANGED <<grp, nextPid, pgid, stages>> /\ table' = table
    BY <1>10 DEF Fg, Resolves
  <2>3. QED
    BY <2>1, <2>2, GroupsKept
<1>11. ASSUME NEW j \in JobId, Bg(j) PROVE Groups'
  BY <1>11, <1>shape, GroupsKept DEF Bg, Resolves, Continue, Shape, tableVars, callVars, kernelVars
<1>12. CASE Jobs
  BY <1>12, <1>shape, GroupsKept DEF Jobs, RemoveDone, Reap, Shape, tableVars, callVars, kernelVars
<1>13. CASE Prompt
  BY <1>13, <1>shape, GroupsKept DEF Prompt, Reap, Shape, tableVars, callVars, kernelVars
<1>14. CASE Leave
  BY <1>14, <1>shape, GroupsKept DEF Leave, Shape, tableVars, callVars, kernelVars
<1>15. CASE CommandHandOver
  BY <1>15, <1>shape, GroupsKept DEF CommandHandOver, Shape, tableVars, callVars, kernelVars
<1>16. CASE CommandExited
  BY <1>16, <1>shape, GroupsKept DEF CommandExited, Shape, tableVars, callVars, kernelVars
<1>17. CASE CommandStopped
  <2>1. /\ handle \in Pid /\ todo = {handle} /\ todo' = {} /\ fjob = None
        /\ grp' = grp /\ nextPid' = nextPid /\ nextId <= MaxJobs
        /\ \A p \in todo : grp[p] = Min(todo)
    BY <1>17, <1>shape DEF CommandStopped, Shape, Groups
  <2>2. grp[handle] = handle
    <3>1. Min(todo) \in todo
      BY <2>1, MinMaxPid
    <3>2. QED
      BY <2>1, <3>1
  <2>3. /\ table' = table \union {nextId} /\ pgid' = [pgid EXCEPT ![nextId] = handle]
        /\ stages' = [stages EXCEPT ![nextId] = {handle}]
        /\ nextId \in JobId /\ nextId \notin table
    BY <1>17, <2>1, <1>fresh DEF CommandStopped, AddJob
  <2>4. /\ nextPid' \in Nat /\ nextPid <= nextPid' /\ handle < nextPid'
        /\ {handle} \in SUBSET Pid /\ \A p \in {handle} : grp'[p] = handle
    BY <2>1, <2>2, <1>grp, <1>known
  <2>5. \A j \in table : pgid[j] # handle /\ \A p \in stages[j] : grp'[p] = grp[p]
    BY <2>1, <2>2 DEF Groups
  <2>6. QED
    BY <2>1, <2>3, <2>4, <2>5, <1>types, <1>grp, GroupsAdd
<1>18. CASE DropPopen
  BY <1>18, <1>shape, GroupsKept DEF DropPopen, Shape, tableVars, callVars, kernelVars
<1>19. CASE ForkStage
  <2> DEFINE leader == IF todo = {} THEN nextPid ELSE Min(todo)
  <2>1. /\ nextPid \in Pid /\ grp' = [grp EXCEPT ![nextPid] = leader]
        /\ todo' = todo \union {nextPid} /\ nextPid' = nextPid + 1
        /\ fjob = None /\ table' = table /\ pgid' = pgid /\ stages' = stages
    BY <1>19, <1>want, <1>shape DEF ForkStage, Shape, tableVars
  <2>2. /\ leader \in todo' /\ \A p \in todo' : leader <= p
    <3>1. CASE todo = {}
      BY <2>1, <3>1, <1>grp
    <3>2. CASE todo # {}
      <4>1. Min(todo) \in todo /\ \A p \in todo : Min(todo) <= p
        BY <3>2, MinMaxPid, <1>types
      <4>2. Min(todo) <= nextPid
        BY <4>1, <1>known, <1>types, <1>grp
      <4>3. QED
        BY <2>1, <3>2, <4>1, <4>2
    <3>3. QED
      BY <3>1, <3>2
  <2>3. todo' \in SUBSET Pid
    BY <2>1, <1>types
  <2>4. Min(todo') = leader
    BY <2>2, <2>3, LeastOf
  <2>5. \A p \in todo : grp[p] = leader
    BY <1>19 DEF ForkStage, Groups
  <2>6. \A p \in todo' : grp'[p] = leader
    BY <2>1, <2>5, <1>types, <1>grp, <1>known
  <2>7. \A j \in table : leader # pgid[j]
    <3>1. CASE todo = {}
      BY <2>1, <3>1, <1>grp DEF Groups
    <3>2. CASE todo # {}
      BY <2>1, <2>5, <3>2 DEF Groups
    <3>3. QED
      BY <3>1, <3>2
  <2>8. \A j \in table : /\ pgid[j] \in Pid /\ pgid[j] < nextPid'
                         /\ \A p \in stages[j] : grp'[p] = grp[p]
    BY <2>1, <1>grp, <1>types, <1>older
  <2> HIDE DEF leader
  <2>9. QED
    BY <2>1, <2>4, <2>6, <2>7, <2>8 DEF Groups
<1>20. CASE PipelineToBackground
  <2> DEFINE leader == Min(todo)
  <2>1. /\ todo # {} /\ todo' = {} /\ fjob = None
        /\ grp' = grp /\ nextPid' = nextPid /\ nextId <= MaxJobs
    BY <1>20, <1>shape DEF PipelineToBackground, Shape, kernelVars
  <2>2. /\ table' = table \union {nextId} /\ pgid' = [pgid EXCEPT ![nextId] = leader]
        /\ stages' = [stages EXCEPT ![nextId] = todo]
        /\ nextId \in JobId /\ nextId \notin table
    BY <1>20, <2>1, <1>fresh DEF PipelineToBackground, AddJob
  <2>3. leader \in todo
    BY <2>1, MinMaxPid, <1>types
  <2>4. \A p \in todo : grp[p] = leader
    BY <1>20 DEF PipelineToBackground, Groups
  <2>5. /\ leader \in Pid /\ nextPid' \in Nat /\ nextPid <= nextPid' /\ leader < nextPid'
        /\ \A p \in todo : grp'[p] = leader
    BY <2>1, <2>3, <2>4, <1>grp, <1>known, <1>types
  <2>6. \A j \in table : pgid[j] # leader /\ \A p \in stages[j] : grp'[p] = grp[p]
    BY <2>1, <2>3, <2>4 DEF Groups
  <2> HIDE DEF leader
  <2>7. QED
    BY <2>1, <2>2, <2>3, <2>5, <2>6, <1>types, <1>grp, GroupsAdd
<1>21. CASE PipelineHandOver
  BY <1>21, <1>shape, GroupsKept DEF PipelineHandOver, Shape, tableVars, callVars,
     kernelVars
<1>22. CASE PipelineStageExited
  BY <1>22, <1>shape, GroupsKept DEF PipelineStageExited, Shape, tableVars, callVars,
     kernelVars
<1>23. CASE WaitedExited
  BY <1>23, <1>shape, GroupsKept DEF WaitedExited, Shape, tableVars, callVars, kernelVars
<1>24. CASE WaitedStopped
  BY <1>24, <1>shape, GroupsKept DEF WaitedStopped, FgReturns, Shape, tableVars, callVars,
     kernelVars
<1>25. CASE WaitedDone
  BY <1>25, <1>shape, GroupsKept DEF WaitedDone, FgReturns, Shape, tableVars, callVars,
     kernelVars
<1>26. CASE InterruptedExited
  BY <1>26, <1>shape, GroupsKept DEF InterruptedExited, Shape, tableVars, callVars,
     kernelVars
<1>27. CASE InterruptedReturns
  BY <1>27, <1>shape, GroupsKept DEF InterruptedReturns, FgReturns, Shape, tableVars,
     callVars, kernelVars
<1>28. CASE ForkFails
  BY <1>28, <1>shape, GroupsKept DEF ForkFails, Shape, tableVars, callVars, kernelVars
<1>29. CASE Interrupt
  BY <1>29, <1>shape, GroupsKept DEF Interrupt, Shape, tableVars, callVars, kernelVars
<1>30. CASE Escape
  BY <1>30, <1>shape, GroupsKept DEF Escape, Shape, tableVars, callVars, kernelVars
<1>31. CASE Exited \/ UNCHANGED vars
  BY <1>31, GroupsKept DEF Exited, vars, kernelVars, tableVars, callVars
<1>32. QED
  BY <1>1, <1>2, <1>3, <1>4, <1>5, <1>6, <1>7, <1>8, <1>9, <1>10, <1>11, <1>12, <1>13,
     <1>14, <1>15, <1>16, <1>17, <1>18, <1>19, <1>20, <1>21, <1>22, <1>23, <1>24, <1>25,
     <1>26, <1>27, <1>28, <1>29, <1>30, <1>31 DEF Next, Child, Signals, User, Call, Fault

----------------------------------------------------------------------------
\* Once the group g has been continued, none of its processes is stopped.
LEMMA Continued ==
    ASSUME NEW g, Continue(g), note \in [Pid -> BOOLEAN], proc \in [Pid -> ProcState]
    PROVE  \A p \in Pid : proc'[p] = "stopped" =>
               grp[p] # g /\ proc[p] = "stopped" /\ note'[p] = note[p]
<1>1. \A p \in Pid : proc'[p] = "stopped" => grp[p] # g /\ proc[p] = "stopped"
  BY DEF Continue
<1>2. \A p \in Pid : grp[p] # g => note'[p] = note[p]
  BY Zenon DEF Continue
<1>3. QED
  BY <1>1, <1>2

\* A pipeline still being started has had no stop reported, so it can become a
\* Running job.
Forked == pc = "forking" => \A p \in todo : proc[p] = "stopped" => note[p]

\* Every step keeps it.
LEMMA ForkedStep == IInv /\ Forked /\ [Next]_vars => Forked'
<1> SUFFICES ASSUME IInv, Forked, [Next]_vars PROVE Forked'
  OBVIOUS
<1>kernel. proc \in [Pid -> ProcState] /\ note \in [Pid -> BOOLEAN] /\ todo \in SUBSET Pid
  BY DEF IInv, TypeOK, KernelTypes, CallTypes
<1>shape. Shape
  BY DEF IInv
<1>elsewhere. pc' # "forking" => Forked'
  BY DEF Forked
<1>want. want > 0 => nextPid \in Pid
  <2>1. nextPid \in 1..(MaxPid + 1) /\ want \in 0..MaxPid
    BY DEF IInv, TypeOK, KernelTypes, CallTypes
  <2>2. QED
    BY <1>shape, <2>1, BoundsAssumption DEF Shape, Pid
<1>1. ASSUME NEW p \in Pid, NEW c \in Codes, Exit(p, c) PROVE Forked'
  BY <1>1, <1>kernel DEF Exit, Forked, callVars
<1>2. ASSUME NEW p \in Pid, Kill(p) PROVE Forked'
  BY <1>2, <1>kernel DEF Kill, Forked, callVars
<1>3. CASE CtrlC
  BY <1>3, <1>kernel DEF CtrlC, SigInt, Forked, callVars
<1>4. ASSUME NEW g \in Pid, StopGroup(g) PROVE Forked'
  <2>1. \A q \in Pid : proc'[q] = "stopped" => note'[q] \/ (proc[q] = "stopped" /\ note'[q] = note[q])
    <3>1. \A q \in Pid : grp[q] = g /\ proc[q] = "running" => note'[q]
      BY <1>4 DEF StopGroup
    <3>2. \A q \in Pid : ~(grp[q] = g /\ proc[q] = "running") => note'[q] = note[q]
      BY <1>4, <1>kernel, Zenon DEF StopGroup
    <3>3. \A q \in Pid : ~(grp[q] = g /\ proc[q] = "running") => proc'[q] = proc[q]
      BY <1>4 DEF StopGroup
    <3>4. QED
      BY <3>1, <3>2, <3>3
  <2>2. pc' = pc /\ todo' = todo
    BY <1>4 DEF StopGroup, callVars
  <2>3. QED
    BY <2>1, <2>2, <1>kernel DEF Forked
<1>5. ASSUME NEW g \in Pid, ContGroup(g) PROVE Forked'
  <2>1. pc' = pc /\ todo' = todo /\ Continue(g)
    BY <1>5 DEF ContGroup, callVars
  <2>2. QED
    BY <2>1, <1>kernel, Continued DEF Forked
<1>6. CASE RunBackground
  BY <1>6, <1>elsewhere DEF RunBackground
<1>7. CASE RunForeground
  BY <1>7, <1>elsewhere DEF RunForeground
<1>8. CASE PopenElsewhere
  BY <1>8, <1>elsewhere DEF PopenElsewhere, callVars
<1>9. ASSUME NEW n \in StageCounts, NEW bg \in BOOLEAN, StartPipeline(n, bg)
       PROVE  Forked'
  BY <1>9, <1>shape DEF StartPipeline, CanLaunch, Shape, Forked
<1>10. ASSUME NEW j \in JobId, Fg(j) PROVE Forked'
  BY <1>10, <1>elsewhere DEF Fg, Resolves
<1>11. ASSUME NEW j \in JobId, Bg(j) PROVE Forked'
  BY <1>11, <1>elsewhere DEF Bg, Resolves, callVars
<1>12. CASE Jobs
  BY <1>12, <1>elsewhere DEF Jobs, RemoveDone, Reap, callVars
<1>13. CASE Prompt
  BY <1>13, <1>elsewhere DEF Prompt, Reap, callVars
<1>14. CASE Leave
  BY <1>14, <1>elsewhere DEF Leave
<1>15. CASE CommandHandOver
  BY <1>15, <1>elsewhere DEF CommandHandOver
<1>16. CASE CommandExited
  BY <1>16, <1>elsewhere DEF CommandExited
<1>17. CASE CommandStopped
  BY <1>17, <1>elsewhere DEF CommandStopped
<1>18. CASE DropPopen
  BY <1>18, <1>elsewhere DEF DropPopen
<1>19. CASE ForkStage
  <2>1. /\ nextPid \in Pid /\ pc = "forking" /\ note' = note
        /\ proc' = [proc EXCEPT ![nextPid] = "running"] /\ todo' = todo \union {nextPid}
    BY <1>19, <1>want DEF ForkStage
  <2>2. QED
    BY <2>1, <1>kernel DEF Forked
<1>20. CASE PipelineToBackground
  BY <1>20, <1>elsewhere DEF PipelineToBackground
<1>21. CASE PipelineHandOver
  BY <1>21, <1>elsewhere DEF PipelineHandOver
<1>22. CASE PipelineStageExited
  BY <1>22, <1>elsewhere DEF PipelineStageExited
<1>23. CASE WaitedExited
  BY <1>23, <1>elsewhere DEF WaitedExited
<1>24. CASE WaitedStopped
  BY <1>24, <1>elsewhere DEF WaitedStopped, FgReturns
<1>25. CASE WaitedDone
  BY <1>25, <1>elsewhere DEF WaitedDone, FgReturns
<1>26. CASE InterruptedExited
  BY <1>26, <1>elsewhere DEF InterruptedExited
<1>27. CASE InterruptedReturns
  <2>1. pc' \in {"idle", "unwind"}
    BY <1>27 DEF InterruptedReturns, FgReturns
  <2>2. QED
    BY <2>1, <1>elsewhere
<1>28. CASE ForkFails
  BY <1>28, <1>elsewhere DEF ForkFails
<1>29. CASE Interrupt
  BY <1>29, <1>elsewhere DEF Interrupt
<1>30. CASE Escape
  BY <1>30, <1>elsewhere DEF Escape
<1>31. CASE Exited \/ UNCHANGED vars
  BY <1>31 DEF Exited, vars, kernelVars, callVars, Forked
<1>32. QED
  BY <1>1, <1>2, <1>3, <1>4, <1>5, <1>6, <1>7, <1>8, <1>9, <1>10, <1>11, <1>12, <1>13,
     <1>14, <1>15, <1>16, <1>17, <1>18, <1>19, <1>20, <1>21, <1>22, <1>23, <1>24, <1>25,
     <1>26, <1>27, <1>28, <1>29, <1>30, <1>31 DEF Next, Child, Signals, User, Call, Fault

----------------------------------------------------------------------------
\* The two halves of StopsAreSeen.
Seen  == \A j \in table : status[j] = "Running" =>
             \A p \in pids[j] : proc[p] = "stopped" => note[p]
Owned == fgGroup \in Pid =>
             \/ pc \in {"waitCmd", "waitPipe"} /\ \A p \in todo : grp[p] = fgGroup
             \/ pc = "waitJob" /\ pgid[fjob] = fgGroup

\* Together they are it.
LEMMA Halves == StopsAreSeen <=> Seen /\ Owned
BY DEF StopsAreSeen, Seen, Owned

\* A step that resumes, stops and waits for nothing keeps Seen: it only ends or
\* reaps processes, and makes no job Running.
LEMMA SeenKept ==
    ASSUME Seen, note' = note, table' \subseteq table, pids' = pids,
           table \in SUBSET JobId, pids \in [JobId -> SUBSET Pid],
           \A j \in table' : status'[j] = "Running" => status[j] = "Running",
           \A p \in Pid : proc'[p] = "stopped" => proc[p] = "stopped"
    PROVE  Seen'
BY DEF Seen

\* A poll takes the notes of the jobs it then marks Stopped, and no others.
LEMMA SeenByReap ==
    ASSUME Seen, Reap, table' \subseteq table, table \in SUBSET JobId,
           pids \in [JobId -> SUBSET Pid], status \in [JobId -> JobStatus],
           proc \in [Pid -> ProcState], note \in [Pid -> BOOLEAN]
    PROVE  Seen'
<1> SUFFICES ASSUME NEW j \in table', status'[j] = "Running",
                    NEW p \in pids'[j], proc'[p] = "stopped"
             PROVE  note'[p]
  BY DEF Seen
<1>1. j \in JobId /\ j \in table
  OBVIOUS
<1>2. /\ status'[j] = IF j \notin Polled THEN status[j] ELSE IF Noted(j) # {} THEN "Stopped"
                      ELSE IF StillUp(j) = {} THEN "Done" ELSE "Running"
      /\ pids'[j] = IF j \in Polled THEN StillUp(j) ELSE pids[j]
  BY <1>1 DEF Reap
<1>3. j \in Polled /\ Noted(j) = {} /\ p \in pids[j]
  BY <1>1, <1>2 DEF Polled, StillUp
<1>4. p \in Pid /\ proc[p] = "stopped"
  BY <1>1, <1>3 DEF Reap
<1>5. note[p]
  BY <1>1, <1>3, <1>4 DEF Seen, Polled
<1>6. p \in Noted(j)
  BY <1>3, <1>4, <1>5 DEF Noted
<1>7. QED
  BY <1>3, <1>6

\* Every step keeps the stops of Running jobs to be reported.
LEMMA SeenStep == IInv /\ Groups /\ Forked /\ Seen /\ [Next]_vars => Seen'
<1> SUFFICES ASSUME IInv, Groups, Forked, Seen, [Next]_vars PROVE Seen'
  OBVIOUS
<1>types. /\ table \in SUBSET JobId /\ pids \in [JobId -> SUBSET Pid]
          /\ status \in [JobId -> JobStatus] /\ pgid \in [JobId -> Pid \union {ShellGroup}]
  BY DEF IInv, TypeOK, TableTypes
<1>kernel. /\ proc \in [Pid -> ProcState] /\ note \in [Pid -> BOOLEAN]
           /\ grp \in [Pid -> Pid \union {ShellGroup}]
  BY DEF IInv, TypeOK, KernelTypes
<1>call. todo \in SUBSET Pid /\ fjob \in JobId \union {None} /\ handle \in Pid \union {None}
  BY DEF IInv, TypeOK, CallTypes
<1>shape. Shape
  BY DEF IInv
<1>unborn. \A p \in Pid : proc[p] = "unborn" <=> p >= nextPid
  BY DEF IInv, Records
<1>listed. \A j \in table : \A p \in pids[j] : p \in Pid /\ p < nextPid /\ grp[p] = pgid[j]
  <2>1. \A j \in table : pids[j] \subseteq stages[j] /\ \A p \in stages[j] : p < nextPid
    BY DEF IInv, Records
  <2>2. QED
    BY <2>1, <1>types DEF Groups
<1>fork. CanLaunch(1) => nextPid \in Pid /\ nextId <= MaxJobs
  <2>1. nextPid \in 1..(MaxPid + 1)
    BY DEF IInv, TypeOK, KernelTypes
  <2>2. QED
    BY <2>1, BoundsAssumption DEF CanLaunch, Pid
<1>want. want > 0 => nextPid \in Pid
  <2>1. nextPid \in 1..(MaxPid + 1) /\ want \in 0..MaxPid
    BY DEF IInv, TypeOK, KernelTypes, CallTypes
  <2>2. QED
    BY <1>shape, <2>1, BoundsAssumption DEF Shape, Pid
<1>fresh. nextId \notin table /\ (nextId <= MaxJobs => nextId \in JobId)
  BY <1>shape, Bounds DEF Shape, IInv, TypeOK, TableTypes
<1>1. ASSUME NEW p \in Pid, NEW c \in Codes, Exit(p, c) PROVE Seen'
  BY <1>1, <1>types, <1>kernel, SeenKept DEF Exit, tableVars, kernelVars
<1>2. ASSUME NEW p \in Pid, Kill(p) PROVE Seen'
  BY <1>2, <1>types, <1>kernel, <1>listed DEF Kill, Seen, tableVars
<1>3. CASE CtrlC
  BY <1>3, <1>types, <1>kernel, SeenKept DEF CtrlC, SigInt, tableVars, kernelVars
<1>4. ASSUME NEW g \in Pid, StopGroup(g) PROVE Seen'
  <2>1. \A q \in Pid : proc'[q] = "stopped" => note'[q] \/ (proc[q] = "stopped" /\ note'[q] = note[q])
    <3>1. \A q \in Pid : grp[q] = g /\ proc[q] = "running" => note'[q]
      BY <1>4 DEF StopGroup
    <3>2. \A q \in Pid : ~(grp[q] = g /\ proc[q] = "running") => note'[q] = note[q]
      BY <1>4, <1>kernel, Zenon DEF StopGroup
    <3>3. \A q \in Pid : ~(grp[q] = g /\ proc[q] = "running") => proc'[q] = proc[q]
      BY <1>4 DEF StopGroup
    <3>4. QED
      BY <3>1, <3>2, <3>3
  <2>2. table' = table /\ status' = status /\ pids' = pids
    BY <1>4 DEF StopGroup, tableVars
  <2>3. QED
    BY <2>1, <2>2, <1>listed DEF Seen
<1>5. ASSUME NEW g \in Pid, ContGroup(g) PROVE Seen'
  <2>1. table' = table /\ status' = status /\ pids' = pids
    BY <1>5 DEF ContGroup, tableVars
  <2>2. QED
    BY <1>5, <2>1, <1>listed, <1>kernel, Continued DEF ContGroup, Seen
<1>6. CASE RunBackground
  <2>1. /\ nextPid \in Pid /\ nextId \in JobId /\ note' = note
        /\ proc' = [q \in Pid |-> IF q = nextPid THEN "running"
                                  ELSE IF q \in Stolen THEN "reaped" ELSE proc[q]]
    BY <1>6, <1>fork, <1>fresh DEF RunBackground, Spawn
  <2>2. /\ table' = table \union {nextId} /\ pids' = [pids EXCEPT ![nextId] = {nextPid}]
        /\ status' = [status EXCEPT ![nextId] = "Running"]
    BY <1>6 DEF RunBackground, AddJob
  <2>3. proc'[nextPid] = "running" /\ \A p \in Pid : proc'[p] = "stopped" => proc[p] = "stopped"
    BY <2>1
  <2>4. /\ pids'[nextId] = {nextPid}
        /\ \A j \in table : j # nextId /\ pids'[j] = pids[j] /\ status'[j] = status[j]
    BY <2>1, <2>2, <1>types, <1>fresh
  <2>5. QED
    BY <2>1, <2>2, <2>3, <2>4, <1>listed DEF Seen
<1>7. CASE RunForeground
  BY <1>7, <1>types, <1>kernel, SeenKept DEF RunForeground, Spawn, tableVars, kernelVars
<1>8. CASE PopenElsewhere
  BY <1>8, <1>types, <1>kernel, SeenKept DEF PopenElsewhere, tableVars, kernelVars
<1>9. ASSUME NEW n \in StageCounts, NEW bg \in BOOLEAN, StartPipeline(n, bg)
       PROVE  Seen'
  BY <1>9, <1>types, <1>kernel, SeenKept DEF StartPipeline, tableVars, kernelVars
<1>10. ASSUME NEW j \in JobId, Fg(j) PROVE Seen'
  <2>1. /\ table' = table /\ pids' = pids /\ j \in table
        /\ \A i \in table : i # j => status'[i] = status[i]
    BY <1>10, <1>types DEF Fg, Resolves
  <2>2. CASE status[j] = "Stopped"
    <3>1. Continue(pgid[j])
      BY <1>10, <2>2 DEF Fg, Resolves
    <3>2. QED
      BY <3>1, <2>1, <1>listed, <1>kernel, Continued DEF Seen
  <2>3. CASE status[j] # "Stopped"
    <3>1. proc' = proc /\ note' = note
      BY <1>10, <2>3 DEF Fg, Resolves
    <3>2. CASE status[j] = "Running"
      BY <2>1, <3>1, <3>2 DEF Seen
    <3>3. CASE status[j] = "Done"
      <4>1. \A p \in stages[j] : proc[p] = "reaped"
        BY <2>1, <3>3 DEF IInv, DoneMeansReaped
      <4>2. pids[j] \subseteq stages[j]
        BY <2>1 DEF IInv, Records
      <4>3. QED
        BY <2>1, <3>1, <4>1, <4>2 DEF Seen
    <3>4. QED
      BY <2>1, <2>3, <3>2, <3>3, <1>types DEF JobStatus
  <2>4. QED
    BY <2>2, <2>3
<1>11. ASSUME NEW j \in JobId, Bg(j) PROVE Seen'
  <2>1. /\ table' = table /\ pids' = pids /\ j \in table
        /\ \A i \in table : i # j => status'[i] = status[i]
    BY <1>11, <1>types DEF Bg, Resolves
  <2>2. CASE status[j] = "Stopped"
    <3>1. Continue(pgid[j])
      BY <1>11, <2>2 DEF Bg, Resolves
    <3>2. QED
      BY <3>1, <2>1, <1>listed, <1>kernel, Continued DEF Seen
  <2>3. CASE status[j] # "Stopped"
    BY <1>11, <2>3 DEF Bg, Resolves
  <2>4. QED
    BY <2>2, <2>3
<1>12. CASE Jobs
  <2>1. Reap /\ table' \subseteq table
    BY <1>12 DEF Jobs, RemoveDone
  <2>2. QED
    BY <2>1, <1>types, <1>kernel, SeenByReap
<1>13. CASE Prompt
  <2>1. Reap /\ table' \subseteq table
    BY <1>13 DEF Prompt
  <2>2. QED
    BY <2>1, <1>types, <1>kernel, SeenByReap
<1>14. CASE Leave
  BY <1>14, <1>types, <1>kernel, SeenKept DEF Leave, tableVars, kernelVars
<1>15. CASE CommandHandOver
  BY <1>15, <1>types, <1>kernel, SeenKept DEF CommandHandOver, tableVars, kernelVars
<1>16. CASE CommandExited
  BY <1>16, <1>types, <1>kernel, SeenKept DEF CommandExited, tableVars, kernelVars
<1>17. CASE CommandStopped
  <2>1. /\ handle \in Pid /\ todo = {handle} /\ fjob = None /\ proc' = proc
        /\ nextId \in JobId /\ note' = [note EXCEPT ![handle] = FALSE]
    BY <1>17, <1>shape, <1>fresh DEF CommandStopped, Shape
  <2>2. /\ table' = table \union {nextId} /\ pids' = [pids EXCEPT ![nextId] = {handle}]
        /\ status' = [status EXCEPT ![nextId] = "Stopped"]
    BY <1>17 DEF CommandStopped, AddJob
  <2>3. \A j \in table : handle \notin pids[j]
    BY <2>1, <1>listed DEF Groups
  <2>4. /\ status'[nextId] = "Stopped"
        /\ \A j \in table : j # nextId /\ pids'[j] = pids[j] /\ status'[j] = status[j]
    BY <2>1, <2>2, <1>types, <1>fresh
  <2>5. \A j \in table : \A p \in pids[j] : note'[p] = note[p]
    BY <2>1, <2>3, <1>listed, <1>kernel
  <2>6. proc' = proc /\ table' = table \union {nextId}
    BY <2>1, <2>2
  <2>7. QED
    BY <2>4, <2>5, <2>6 DEF Seen
<1>18. CASE DropPopen
  BY <1>18, <1>types, <1>kernel, SeenKept DEF DropPopen, tableVars, kernelVars
<1>19. CASE ForkStage
  BY <1>19, <1>want, <1>types, <1>kernel, SeenKept DEF ForkStage, tableVars
<1>20. CASE PipelineToBackground
  <2>1. /\ todo # {} /\ nextId \in JobId /\ fjob = None /\ proc' = proc /\ note' = note
    BY <1>20, <1>shape, <1>fresh DEF PipelineToBackground, Shape, kernelVars
  <2>2. /\ table' = table \union {nextId} /\ pids' = [pids EXCEPT ![nextId] = todo]
        /\ status' = [status EXCEPT ![nextId] = "Running"]
    BY <1>20 DEF PipelineToBackground, AddJob
  <2>3. /\ pids'[nextId] = todo
        /\ \A j \in table : j # nextId /\ pids'[j] = pids[j] /\ status'[j] = status[j]
    BY <2>1, <2>2, <1>types, <1>fresh
  <2>4. \A p \in todo : proc[p] = "stopped" => note[p]
    BY <1>20 DEF PipelineToBackground, Forked
  <2>5. QED
    BY <2>1, <2>2, <2>3, <2>4 DEF Seen
<1>21. CASE PipelineHandOver
  BY <1>21, <1>types, <1>kernel, SeenKept DEF PipelineHandOver, tableVars, kernelVars
<1>22. CASE PipelineStageExited
  BY <1>22, <1>types, <1>kernel, SeenKept DEF PipelineStageExited, tableVars, kernelVars
<1>23. CASE WaitedExited
  BY <1>23, <1>types, <1>kernel, SeenKept DEF WaitedExited, tableVars, kernelVars
<1>24. CASE WaitedStopped
  <2>1. /\ fjob \in table /\ table' = table /\ pids' = pids /\ proc' = proc
        /\ status' = [status EXCEPT ![fjob] = "Stopped"] /\ fjob \in JobId
        /\ todo # {} /\ note' = [note EXCEPT ![Min(todo)] = FALSE] /\ todo \subseteq pids[fjob]
    BY <1>24, <1>shape, <1>types DEF WaitedStopped, FgReturns, Shape, IInv, Records
  <2>2. Min(todo) \in pids[fjob]
    BY <2>1, <1>call, MinMaxPid
  <2>3. \A j \in table : j # fjob => Min(todo) \notin pids[j] /\ status'[j] = status[j]
    BY <2>1, <2>2, <1>listed, <1>types DEF Groups
  <2>4. status'[fjob] = "Stopped"
    BY <2>1, <1>types
  <2>5. \A j \in table : j # fjob => \A p \in pids[j] : note'[p] = note[p]
    BY <2>1, <2>3, <1>listed, <1>kernel
  <2>6. QED
    BY <2>1, <2>3, <2>4, <2>5 DEF Seen
<1>25. CASE WaitedDone
  <2>1. \A j \in table : status'[j] = "Running" => status[j] = "Running"
    BY <1>25, <1>types, <1>shape DEF WaitedDone, FgReturns, Shape, tableVars
  <2>2. QED
    BY <1>25, <2>1, <1>types, <1>kernel, SeenKept DEF WaitedDone, FgReturns, tableVars
<1>26. CASE InterruptedExited
  BY <1>26, <1>types, <1>kernel, SeenKept DEF InterruptedExited, tableVars, kernelVars
<1>27. CASE InterruptedReturns
  <2>1. \A j \in table : status'[j] = "Running" => status[j] = "Running"
    BY <1>27, <1>types, <1>shape DEF InterruptedReturns, FgReturns, Shape, tableVars
  <2>2. QED
    BY <1>27, <2>1, <1>types, <1>kernel, SeenKept DEF InterruptedReturns, FgReturns,
       tableVars
<1>28. CASE ForkFails
  <2>1. table' = table /\ status' = status /\ pids' = pids
    BY <1>28 DEF ForkFails, tableVars
  <2>2. \A p \in Pid : proc'[p] = "stopped" => proc[p] = "stopped" /\ note'[p] = note[p]
    <3>1. \A p \in Pid : p \in todo => proc'[p] = "reaped"
      BY <1>28 DEF ForkFails
    <3>2. \A p \in Pid : p \notin todo => proc'[p] = proc[p]
      BY <1>28 DEF ForkFails
    <3>3. \A p \in Pid : p \notin todo => note'[p] = note[p]
      BY <1>28, <1>kernel, Zenon DEF ForkFails
    <3>4. QED
      BY <3>1, <3>2, <3>3
  <2>3. QED
    BY <2>1, <2>2, <1>listed DEF Seen
<1>29. CASE Interrupt
  BY <1>29, <1>types, <1>kernel, SeenKept DEF Interrupt, SigInt, tableVars, kernelVars
<1>30. CASE Escape
  BY <1>30, <1>types, <1>kernel, SeenKept DEF Escape, tableVars, kernelVars
<1>31. CASE Exited \/ UNCHANGED vars
  BY <1>31, <1>types, SeenKept DEF Exited, vars, kernelVars, tableVars
<1>32. QED
  BY <1>1, <1>2, <1>3, <1>4, <1>5, <1>6, <1>7, <1>8, <1>9, <1>10, <1>11, <1>12, <1>13,
     <1>14, <1>15, <1>16, <1>17, <1>18, <1>19, <1>20, <1>21, <1>22, <1>23, <1>24, <1>25,
     <1>26, <1>27, <1>28, <1>29, <1>30, <1>31 DEF Next, Child, Signals, User, Call, Fault

\* Every step keeps the terminal with the group that is waited for.
LEMMA OwnedStep == IInv /\ Groups /\ Owned /\ [Next]_vars => Owned'
<1> SUFFICES ASSUME IInv, Groups, Owned, [Next]_vars PROVE Owned'
  OBVIOUS
<1>call. todo \in SUBSET Pid /\ grp \in [Pid -> Pid \union {ShellGroup}]
  BY DEF IInv, TypeOK, CallTypes, KernelTypes
<1>shape. Shape
  BY DEF IInv
<1>back. TakeTerminalBack => fgGroup' \notin Pid
  <2>1. NoTerminal \notin Pid /\ ShellGroup \notin Pid
    BY BoundsAssumption DEF NoTerminal, ShellGroup, Pid
  <2>2. QED
    BY <2>1 DEF TakeTerminalBack
<1>given. \A g : GiveTerminalTo(g) /\ fgGroup' \in Pid => fgGroup' = g
  <2>1. NoTerminal \notin Pid /\ ShellGroup \notin Pid
    BY BoundsAssumption DEF NoTerminal, ShellGroup, Pid
  <2>2. QED
    BY <2>1 DEF GiveTerminalTo
<1>away. fgGroup \notin Pid /\ fgGroup' = fgGroup => Owned'
  BY DEF Owned
<1>quiet. UNCHANGED <<fgGroup, grp, pgid, pc, todo, fjob>> => Owned'
  BY DEF Owned
<1>idle. pc \notin {"waitCmd", "waitPipe", "waitJob"} => fgGroup \notin Pid
  BY DEF Owned
<1>1. ASSUME NEW p \in Pid, NEW c \in Codes, Exit(p, c) PROVE Owned'
  BY <1>1, <1>quiet DEF Exit, callVars, tableVars
<1>2. ASSUME NEW p \in Pid, Kill(p) PROVE Owned'
  BY <1>2, <1>quiet DEF Kill, callVars, tableVars
<1>3. CASE CtrlC
  BY <1>3, <1>quiet DEF CtrlC, callVars, tableVars
<1>4. ASSUME NEW g \in Pid, StopGroup(g) PROVE Owned'
  BY <1>4, <1>quiet DEF StopGroup, callVars, tableVars
<1>5. ASSUME NEW g \in Pid, ContGroup(g) PROVE Owned'
  BY <1>5, <1>quiet DEF ContGroup, callVars, tableVars
<1>6. CASE RunBackground
  <2>1. fgGroup \notin Pid /\ fgGroup' = fgGroup
    BY <1>6, <1>idle DEF RunBackground, CanLaunch, kernelVars
  <2>2. QED
    BY <2>1, <1>away
<1>7. CASE RunForeground
  <2>1. fgGroup \notin Pid /\ fgGroup' = fgGroup
    BY <1>7, <1>idle DEF RunForeground, CanLaunch, kernelVars
  <2>2. QED
    BY <2>1, <1>away
<1>8. CASE PopenElsewhere
  <2>1. fgGroup \notin Pid /\ fgGroup' = fgGroup
    BY <1>8, <1>idle DEF PopenElsewhere, kernelVars
  <2>2. QED
    BY <2>1, <1>away
<1>9. ASSUME NEW n \in StageCounts, NEW bg \in BOOLEAN, StartPipeline(n, bg)
       PROVE  Owned'
  <2>1. fgGroup \notin Pid /\ fgGroup' = fgGroup
    BY <1>9, <1>idle DEF StartPipeline, CanLaunch, kernelVars
  <2>2. QED
    BY <2>1, <1>away
<1>10. ASSUME NEW j \in JobId, Fg(j) PROVE Owned'
  <2>1. GiveTerminalTo(pgid[j]) /\ pc' = "waitJob" /\ pgid' = pgid /\ fjob' = j
    BY <1>10 DEF Fg, Resolves
  <2>2. QED
    BY <2>1, <1>given DEF Owned
<1>11. ASSUME NEW j \in JobId, Bg(j) PROVE Owned'
  <2>1. fgGroup \notin Pid /\ fgGroup' = fgGroup
    BY <1>11, <1>idle DEF Bg, Resolves, kernelVars
  <2>2. QED
    BY <2>1, <1>away
<1>12. CASE Jobs
  <2>1. fgGroup \notin Pid /\ fgGroup' = fgGroup
    BY <1>12, <1>idle DEF Jobs, RemoveDone, kernelVars, Reap
  <2>2. QED
    BY <2>1, <1>away
<1>13. CASE Prompt
  <2>1. fgGroup \notin Pid /\ fgGroup' = fgGroup
    BY <1>13, <1>idle DEF Prompt, kernelVars, Reap
  <2>2. QED
    BY <2>1, <1>away
<1>14. CASE Leave
  <2>1. fgGroup \notin Pid /\ fgGroup' = fgGroup
    BY <1>14, <1>idle DEF Leave, kernelVars
  <2>2. QED
    BY <2>1, <1>away
<1>15. CASE CommandHandOver
  <2>1. /\ todo = {handle} /\ todo' = todo /\ grp' = grp /\ handle \in Pid
        /\ GiveTerminalTo(handle) /\ pc' = "waitCmd"
    BY <1>15, <1>shape DEF CommandHandOver, Shape
  <2>2. grp[handle] = Min(todo)
    BY <1>15, <2>1 DEF CommandHandOver, Groups
  <2>3. Min(todo) = handle
    BY <2>1, MinMaxPid
  <2>4. QED
    BY <2>1, <2>2, <2>3, <1>given DEF Owned
<1>16. CASE CommandExited
  BY <1>16, <1>back DEF CommandExited, Owned
<1>17. CASE CommandStopped
  BY <1>17, <1>back DEF CommandStopped, Owned
<1>18. CASE DropPopen
  <2>1. fgGroup \notin Pid /\ fgGroup' = fgGroup
    BY <1>18, <1>idle DEF DropPopen, kernelVars
  <2>2. QED
    BY <2>1, <1>away
<1>19. CASE ForkStage
  <2>1. fgGroup \notin Pid /\ fgGroup' = fgGroup
    BY <1>19, <1>idle DEF ForkStage, kernelVars
  <2>2. QED
    BY <2>1, <1>away
<1>20. CASE PipelineToBackground
  <2>1. fgGroup \notin Pid /\ fgGroup' = fgGroup
    BY <1>20, <1>idle DEF PipelineToBackground, kernelVars
  <2>2. QED
    BY <2>1, <1>away
<1>21. CASE PipelineHandOver
  <2>1. todo' = todo /\ grp' = grp /\ GiveTerminalTo(Min(todo)) /\ pc' = "waitPipe"
    BY <1>21 DEF PipelineHandOver
  <2>2. \A p \in todo : grp[p] = Min(todo)
    BY <1>21 DEF PipelineHandOver, Groups
  <2>3. QED
    BY <2>1, <2>2, <1>given DEF Owned
<1>22. CASE PipelineStageExited
  <2>1. todo' \subseteq todo /\ grp' = grp /\ pc = "waitPipe"
    BY <1>22 DEF PipelineStageExited
  <2>2. CASE todo = {Min(todo)}
    <3>1. TakeTerminalBack
      BY <1>22, <2>2 DEF PipelineStageExited
    <3>2. QED
      BY <3>1, <1>back DEF Owned
  <2>3. CASE todo # {Min(todo)}
    <3>1. fgGroup' = fgGroup /\ pc' = pc
      BY <1>22, <2>3 DEF PipelineStageExited
    <3>2. QED
      BY <2>1, <3>1 DEF Owned
  <2>4. QED
    BY <2>2, <2>3
<1>23. CASE WaitedExited
  BY <1>23 DEF WaitedExited, tableVars, Owned
<1>24. CASE WaitedStopped
  BY <1>24, <1>back DEF WaitedStopped, FgReturns, Owned
<1>25. CASE WaitedDone
  BY <1>25, <1>back DEF WaitedDone, FgReturns, Owned
<1>26. CASE InterruptedExited
  <2>1. fgGroup \notin Pid /\ fgGroup' = fgGroup
    BY <1>26, <1>idle DEF InterruptedExited, kernelVars
  <2>2. QED
    BY <2>1, <1>away
<1>27. CASE InterruptedReturns
  <2>1. TakeTerminalBack
    BY <1>27 DEF InterruptedReturns, FgReturns
  <2>2. QED
    BY <2>1, <1>back DEF Owned
<1>28. CASE ForkFails
  <2>1. fgGroup \notin Pid /\ fgGroup' = fgGroup
    BY <1>28, <1>idle DEF ForkFails, kernelVars
  <2>2. QED
    BY <2>1, <1>away
<1>29. CASE Interrupt
  <2>1. fgGroup \notin Pid /\ fgGroup' = fgGroup
    BY <1>29, <1>idle DEF Interrupt, kernelVars
  <2>2. QED
    BY <2>1, <1>away
<1>30. CASE Escape
  <2>1. fgGroup \notin Pid /\ fgGroup' = fgGroup
    BY <1>30, <1>idle DEF Escape, kernelVars
  <2>2. QED
    BY <2>1, <1>away
<1>31. CASE Exited \/ UNCHANGED vars
  BY <1>31, <1>quiet DEF Exited, vars, kernelVars, callVars, tableVars
<1>32. QED
  BY <1>1, <1>2, <1>3, <1>4, <1>5, <1>6, <1>7, <1>8, <1>9, <1>10, <1>11, <1>12, <1>13,
     <1>14, <1>15, <1>16, <1>17, <1>18, <1>19, <1>20, <1>21, <1>22, <1>23, <1>24, <1>25,
     <1>26, <1>27, <1>28, <1>29, <1>30, <1>31 DEF Next, Child, Signals, User, Call, Fault

\* Nobody starts with the terminal, a job or a child.
LEMMA InitHeld == Init => Groups /\ Forked /\ Seen /\ Owned
<1> SUFFICES ASSUME Init PROVE Groups /\ Forked /\ Seen /\ Owned
  OBVIOUS
<1>1. table = {} /\ todo = {} /\ pc = "idle"
  BY DEF Init
<1>2. fgGroup \notin Pid
  <2>1. NoTerminal \notin Pid /\ ShellGroup \notin Pid
    BY BoundsAssumption DEF NoTerminal, ShellGroup, Pid
  <2>2. QED
    BY <2>1 DEF Init
<1>3. QED
  BY <1>1, <1>2 DEF Groups, Forked, Seen, Owned

\* Two jobs never share a process group, nor does the call in progress with a job it
\* does not wait for: killpg and tcsetpgrp reach the processes of one job only.
THEOREM GroupsAreApart == Spec => []Groups
<1>1. Init => Groups
  BY InitHeld
<1>2. IInv /\ Groups /\ [Next]_vars => Groups'
  BY GroupsStep
<1>3. QED
  BY <1>1, <1>2, Invariance, PTL DEF Spec

\* A Running job never waits on a stop that was already consumed, and a group owns the
\* terminal only while the shell waits for it.
THEOREM StopsAreAlwaysSeen == Spec => []StopsAreSeen
<1>1. Init => Forked /\ Seen /\ Owned
  BY InitHeld
<1>2. IInv /\ Groups /\ (Forked /\ Seen /\ Owned) /\ [Next]_vars => (Forked /\ Seen /\ Owned)'
  BY ForkedStep, SeenStep, OwnedStep
<1>3. Forked /\ Seen /\ Owned => StopsAreSeen
  BY Halves
<1>4. QED
  BY <1>1, <1>2, <1>3, Invariance, GroupsAreApart, PTL DEF Spec

\* SIGINT to group g changes the state of processes of g only.
LEMMA InterruptsGroup ==
    ASSUME NEW g, SigInt(g)
    PROVE  \A p \in Pid : grp[p] # g => proc'[p] = proc[p]
BY DEF SigInt

\* Ctrl+C, from the terminal or forwarded by the shell, spares the jobs nobody waits for.
THEOREM BackgroundIsSpared == Spec => BackgroundSpared
<1> DEFINE Spares == (CtrlC \/ Interrupt) =>
                         \A j \in table : j # fjob => \A p \in pids[j] : proc'[p] = proc[p]
<1>1. IInv /\ Groups /\ StopsAreSeen /\ [Next]_vars => [Spares]_vars
  <2> SUFFICES ASSUME IInv, Groups, StopsAreSeen, CtrlC \/ Interrupt,
                      NEW j \in table, j # fjob, NEW p \in pids[j]
               PROVE  proc'[p] = proc[p]
    OBVIOUS
  <2>1. j \in JobId /\ p \in Pid /\ p \in stages[j] /\ grp[p] = pgid[j]
    BY DEF IInv, TypeOK, TableTypes, Records, Groups
  <2>2. Shape /\ todo \in SUBSET Pid
    BY DEF IInv, TypeOK, CallTypes
  <2>3. todo # {} => Min(todo) \in todo
    BY <2>2, MinMaxPid
  <2>4. CASE CtrlC
    <3>1. fgGroup \in Pid /\ SigInt(fgGroup)
      BY <2>4 DEF CtrlC
    <3>2. CASE pc \in {"waitCmd", "waitPipe"} /\ \A q \in todo : grp[q] = fgGroup
      <4>1. fjob = None /\ todo # {}
        BY <2>2, <3>2 DEF Shape
      <4>2. grp[Min(todo)] = fgGroup /\ grp[Min(todo)] # pgid[j]
        BY <2>3, <3>2, <4>1 DEF Groups
      <4>3. QED
        BY <2>1, <3>1, <4>2, InterruptsGroup
    <3>3. CASE pc = "waitJob" /\ pgid[fjob] = fgGroup
      <4>1. fjob \in table
        BY <2>2, <3>3 DEF Shape
      <4>2. pgid[j] # fgGroup
        BY <3>3, <4>1 DEF Groups
      <4>3. QED
        BY <2>1, <3>1, <4>2, InterruptsGroup
    <3>4. QED
      BY <3>1, <3>2, <3>3 DEF StopsAreSeen
  <2>5. CASE Interrupt
    <3>1. SigInt(WaitedGroup) /\ todo # {} /\ pc \in {"waitCmd", "waitPipe", "waitJob"}
      BY <2>5 DEF Interrupt
    <3>2. CASE pc = "waitJob"
      <4>1. fjob \in table /\ WaitedGroup = pgid[fjob]
        BY <2>2, <3>2 DEF Shape, WaitedGroup
      <4>2. pgid[j] # WaitedGroup
        BY <4>1 DEF Groups
      <4>3. QED
        BY <2>1, <3>1, <4>2, InterruptsGroup
    <3>3. CASE pc # "waitJob"
      <4>1. fjob = None /\ WaitedGroup = grp[Min(todo)]
        BY <2>2, <3>1, <3>3 DEF Shape, WaitedGroup
      <4>2. pgid[j] # WaitedGroup
        BY <2>3, <3>1, <4>1 DEF Groups
      <4>3. QED
        BY <2>1, <3>1, <4>2, InterruptsGroup
    <3>4. QED
      BY <3>2, <3>3
  <2>6. QED
    BY <2>4, <2>5
<1>2. QED
  BY <1>1, Invariance, GroupsAreApart, StopsAreAlwaysSeen, PTL DEF Spec, BackgroundSpared


----------------------------------------------------------------------------
(***************************************************************************)
(* The inductive invariant.  Courses ties the place of the helper to the   *)
(* state of the shell, of the terminal and of the command; Knows says what *)
(* the helper knows of the indicator between the writing of it and the     *)
(* assignment of visible; Hushed, that the bridge stops only with nothing  *)
(* left to read and nobody left to write; Accounts, whose status is held   *)
(* where, as long as Ctrl+C struck inside the bridge before the reaping.   *)
(***************************************************************************)
Before  == {"none", "start", "fork", "setraw", "arm"}
Early   == Bridge \ {"drain", "drained"}     \* the command is not reaped yet
Silent  == {"silent", "zombie", "reaped"}    \* the slave is closed, for good

Courses ==
    /\ shell = "open" => at = "none"
    /\ at = "none" => signal = "none" /\ broken = {}
    /\ keys + typed <= MaxTyped
    /\ armed => at \notin Before
    /\ (armed /\ at # "ended") \/ at = "arm" => mode = "raw"
    /\ armed /\ at = "ended" /\ "restore" \notin broken => mode = "cooked"
    /\ at \in {"none", "start", "fork"} => child = "none" /\ broken = {}
    /\ at \in {"setraw", "arm"} \cup Bridge => child # "none" /\ broken = {}

Knows ==
    /\ at \in Before \cup {"sync", "select", "read", "resync", "stdin", "poll"}
         => visible = shown
    /\ at \in {"synced", "resynced"} => result = shown

Hushed ==
    /\ at = "read" => pty > 0 \/ child \in Silent
    /\ at \in {"drain", "drained"} => child \in Silent
    /\ at = "drained" => pty = 0
    /\ at \in {"finally", "reap", "restore", "ended"} /\ broken = {}
         => pty = 0 /\ child \in Silent

Accounts ==
    /\ child # "reaped" => fate.returned = "none"
    /\ child \in {"zombie", "reaped"} => fate.child # "none"
    /\ at \in Before \cup Early => child # "reaped"
    /\ at \in {"drain", "drained"} => child = "reaped" /\ fate.returned = fate.child
    /\ broken \subseteq Early =>
         /\ at \in {"int_kill", "int_wait"} => child # "reaped" /\ broken # {}
         /\ at = "finally" => \/ child = "reaped" /\ fate.returned = fate.child
                              \/ child # "reaped" /\ broken = {}
         /\ at = "reap" => child # "reaped"
         /\ at \in {"restore", "ended"} => child = "reaped" /\ fate.returned = fate.child

BridgeIInv == BridgeTypeOK /\ Courses /\ Knows /\ Hushed /\ Accounts

----------------------------------------------------------------------------
\* Where KeyboardInterrupt leads.
LEMMA InterruptedTo ==
    ASSUME BridgeTypeOK, Interrupted
    PROVE  /\ at \in Bridge => at' = "int_kill"
           /\ at \in {"int_kill", "int_wait"} => at' = "finally"
           /\ at \in {"setraw", "arm", "finally", "reap"} => at' = "restore"
           /\ at \in {"start", "fork", "restore"} => at' = "ended"
BY Zenon DEF Interrupted, Bridge

\* Every step keeps the types; a key typed is one less to type.
LEMMA TypeStep == BridgeIInv /\ [BridgeNext]_bridgeVars => BridgeTypeOK'
<1> SUFFICES ASSUME BridgeIInv, [BridgeNext]_bridgeVars PROVE BridgeTypeOK'
  OBVIOUS
<1> USE BridgeAssumption DEF BridgeIInv, BridgeTypeOK, Courses, Place, Bridge
<1>1. CASE StartHelper
  BY <1>1 DEF StartHelper, outside, screen, helpers
<1>2. CASE Start
  BY <1>2 DEF Step, Start, outside, screen, helpers
<1>3. CASE Fork
  BY <1>3 DEF Step, Fork, outside, screen, helpers
<1>4. CASE SetRaw
  BY <1>4 DEF Step, SetRaw, outside, screen, helpers
<1>5. CASE Arm
  BY <1>5 DEF Step, Arm, outside, screen, helpers
<1>6. CASE Sync
  <2>1. result' \in BOOLEAN /\ shown' \in BOOLEAN /\ visible' \in BOOLEAN /\ (shown' => enabled')
    BY <1>6, Zenon DEF Sync, SyncWith, Indicates, EchoDisabled, outside, screen
  <2>2. QED
    BY <1>6, <2>1 DEF Step, Sync, outside
<1>7. CASE Assign("synced", "select")
  BY <1>7 DEF Step, Assign, Assigned, outside, screen, helpers
<1>8. CASE Select
  BY <1>8 DEF Step, Select, MasterReady, InReady, Hangup, Holds, outside, screen, helpers
<1>9. CASE Read
  <2>1. result' \in BOOLEAN /\ shown' \in BOOLEAN /\ visible' \in BOOLEAN /\ (shown' => enabled')
    BY <1>9, Zenon DEF Read, Erased, outside, screen
  <2>2. at' \in Place /\ broken' \in SUBSET (Place \cup {"output"})
    BY <1>9 DEF Read, outside
  <2>3. pty' \in 0..Capacity /\ typed' \in 0..MaxTyped
    BY <1>9 DEF Read
  <2>4. /\ signal' \in {"none", "flight", "now"}
        /\ UNCHANGED <<enabled, shell, isatty, mode, armed, echo, ready, keys, eof, child,
                        fate, presses>>
    BY <1>9 DEF Step, Read, outside
  <2>5. stdin' \in BOOLEAN
    BY <1>9, Zenon DEF Read, Hangup
  <2>6. QED
    BY <2>1, <2>2, <2>3, <2>4, <2>5
<1>10. CASE Resync
  BY <1>10 DEF Step, Resync, SyncWith, Indicates, EchoDisabled, outside, screen, helpers
<1>11. CASE Assign("resynced", "stdin")
  BY <1>11 DEF Step, Assign, Assigned, outside, screen, helpers
<1>12. CASE Stdin
  <2>1. result' \in BOOLEAN /\ shown' \in BOOLEAN /\ visible' \in BOOLEAN /\ (shown' => enabled')
    BY <1>12, Zenon DEF Stdin, Blinks, EchoDisabled, Hangup, Holds, outside, screen
  <2>2. at' \in Place /\ broken' \in SUBSET (Place \cup {"output"})
    BY <1>12 DEF Stdin, outside
  <2>3. pty' \in 0..Capacity /\ typed' \in 0..MaxTyped
    BY <1>12 DEF Stdin
  <2>4. /\ signal' \in {"none", "flight", "now"}
        /\ UNCHANGED <<enabled, shell, isatty, mode, armed, echo, ready, keys, eof, child,
                        fate, presses>>
    BY <1>12 DEF Step, Stdin, outside
  <2>5. stdin' \in BOOLEAN
    BY <1>12, Zenon DEF Stdin, Hangup
  <2>6. QED
    BY <2>1, <2>2, <2>3, <2>4, <2>5
<1>13. CASE Poll
  BY <1>13 DEF Step, Poll, Waited, Returned, outside, screen, helpers
<1>14. CASE DrainMaster
  <2>1. result' \in BOOLEAN /\ shown' \in BOOLEAN /\ visible' \in BOOLEAN /\ (shown' => enabled')
    BY <1>14, Zenon DEF DrainMaster, outside, screen
  <2>2. at' \in Place /\ broken' \in SUBSET (Place \cup {"output"})
    BY <1>14 DEF DrainMaster, outside
  <2>3. pty' \in 0..Capacity /\ typed' \in 0..MaxTyped
    <3>1. pty' = 0 /\ typed' = typed
      BY <1>14 DEF DrainMaster
    <3>2. QED
      BY <3>1
  <2>4. /\ signal' \in {"none", "flight", "now"}
        /\ UNCHANGED <<enabled, shell, isatty, mode, armed, echo, ready, keys, eof, child,
                        fate, presses>>
    BY <1>14 DEF Step, DrainMaster, outside
  <2>5. stdin' \in BOOLEAN
    BY <1>14, Zenon DEF DrainMaster, Hangup
  <2>6. QED
    BY <2>1, <2>2, <2>3, <2>4, <2>5
<1>15. CASE Drained
  <2>1. result' \in BOOLEAN /\ shown' \in BOOLEAN /\ visible' \in BOOLEAN /\ (shown' => enabled')
    BY <1>15, Zenon DEF Drained, outside, screen
  <2>2. QED
    BY <1>15, <2>1 DEF Step, Drained, outside
<1>16. CASE IntKill
  BY <1>16 DEF Step, IntKill, EndsBySignal, Holds, outside, screen, helpers
<1>17. CASE Reaps("int_wait", "finally")
  BY <1>17 DEF Step, Reaps, Returned, outside, screen, helpers
<1>18. CASE Finally
  <2>1. result' \in BOOLEAN /\ shown' \in BOOLEAN /\ visible' \in BOOLEAN /\ (shown' => enabled')
    BY <1>18, Zenon DEF Finally, outside, screen
  <2>2. at' \in Place /\ broken' \in SUBSET (Place \cup {"output"})
    BY <1>18 DEF Finally, outside
  <2>3. pty' \in 0..Capacity /\ typed' \in 0..MaxTyped
    BY <1>18 DEF Finally
  <2>4. /\ signal' \in {"none", "flight", "now"}
        /\ UNCHANGED <<enabled, shell, isatty, mode, armed, echo, ready, keys, eof, child,
                        fate, presses>>
    BY <1>18 DEF Step, Finally, outside
  <2>5. stdin' \in BOOLEAN
    BY <1>18, Zenon DEF Finally, Hangup
  <2>6. QED
    BY <2>1, <2>2, <2>3, <2>4, <2>5
<1>19. CASE Reaps("reap", "restore")
  BY <1>19 DEF Step, Reaps, Returned, outside, screen, helpers
<1>20. CASE Restore
  BY <1>20 DEF Step, Restore, Restores, outside, screen, helpers
<1>21. CASE Interrupted
  <2>1. /\ at \in Bridge => at' = "int_kill"
        /\ at \in {"int_kill", "int_wait"} => at' = "finally"
        /\ at \in {"setraw", "arm", "finally", "reap"} => at' = "restore"
        /\ at \in {"start", "fork", "restore"} => at' = "ended"
    BY <1>21, InterruptedTo
  <2>2. /\ broken' = broken \cup {at} /\ signal' = "none" /\ at # "ended" /\ at # "none"
        /\ UNCHANGED <<enabled, shell, isatty, echo, keys, eof, presses, helpers>>
    BY <1>21 DEF Interrupted, Courses
  <2>3. QED
    BY <2>1, <2>2 DEF helpers, Place, Bridge
<1>22. CASE HelperEnded
  BY <1>22 DEF HelperEnded, outside, screen, helpers
<1>23. CASE BridgeCtrlC
  BY <1>23 DEF BridgeCtrlC, Signalled, Waits, EndsBySignal, Holds, outside, screen, helpers
<1>24. CASE Forward
  BY <1>24 DEF Forward, Signalled, outside, screen, helpers
<1>25. CASE Type
  BY <1>25 DEF Type, outside, screen, helpers
<1>26. CASE ChildExec
  BY <1>26 DEF ChildExec, Ends, outside, screen, helpers
<1>27. CASE ChildWrites
  BY <1>27 DEF ChildWrites, outside, screen, helpers
<1>28. CASE ChildSetsEcho
  BY <1>28 DEF ChildSetsEcho, outside, screen, helpers
<1>29. CASE ChildDetaches
  BY <1>29 DEF ChildDetaches, outside, screen, helpers
<1>30. CASE ChildEnds
  BY <1>30 DEF ChildEnds, Ends, outside, screen, helpers
<1>31. CASE UNCHANGED bridgeVars
  BY <1>31 DEF bridgeVars
<1>32. QED
  BY <1>1, <1>2, <1>3, <1>4, <1>5, <1>6, <1>7, <1>8, <1>9, <1>10, <1>11, <1>12, <1>13,
     <1>14, <1>15, <1>16, <1>17, <1>18, <1>19, <1>20, <1>21, <1>22, <1>23, <1>24,
     <1>25, <1>26, <1>27, <1>28, <1>29, <1>30, <1>31
     DEF BridgeNext, Helper

\* Every step keeps the places of helper, shell and command together.
LEMMA CoursesStep == BridgeIInv /\ [BridgeNext]_bridgeVars => Courses'
<1> SUFFICES ASSUME BridgeIInv, [BridgeNext]_bridgeVars PROVE Courses'
  OBVIOUS
<1> USE DEF BridgeIInv, BridgeTypeOK, Courses, Before, Bridge, Place
<1>1. CASE StartHelper
  BY <1>1 DEF StartHelper, outside, screen, helpers
<1>2. CASE Start
  BY <1>2 DEF Step, Start, outside, screen, helpers
<1>3. CASE Fork
  BY <1>3 DEF Step, Fork, outside, screen, helpers
<1>4. CASE SetRaw
  BY <1>4 DEF Step, SetRaw, outside, screen, helpers
<1>5. CASE Arm
  BY <1>5 DEF Step, Arm, outside, screen, helpers
<1>6. CASE Sync
  BY <1>6 DEF Step, Sync, SyncWith, Indicates, EchoDisabled, outside, screen, helpers
<1>7. CASE Assign("synced", "select")
  BY <1>7 DEF Step, Assign, Assigned, outside, screen, helpers
<1>8. CASE Select
  BY <1>8 DEF Step, Select, MasterReady, InReady, Hangup, Holds, outside, screen, helpers
<1>9. CASE Read
  BY <1>9 DEF Step, Read, Erased, outside, screen, helpers
<1>10. CASE Resync
  BY <1>10 DEF Step, Resync, SyncWith, Indicates, EchoDisabled, outside, screen, helpers
<1>11. CASE Assign("resynced", "stdin")
  BY <1>11 DEF Step, Assign, Assigned, outside, screen, helpers
<1>12. CASE Stdin
  BY <1>12 DEF Step, Stdin, Blinks, EchoDisabled, Hangup, Holds, outside, screen, helpers
<1>13. CASE Poll
  BY <1>13 DEF Step, Poll, Waited, Returned, outside, screen, helpers
<1>14. CASE DrainMaster
  BY <1>14 DEF Step, DrainMaster, outside, screen, helpers
<1>15. CASE Drained
  BY <1>15 DEF Step, Drained, outside, screen, helpers
<1>16. CASE IntKill
  BY <1>16 DEF Step, IntKill, EndsBySignal, Holds, outside, screen, helpers
<1>17. CASE Reaps("int_wait", "finally")
  BY <1>17 DEF Step, Reaps, Returned, outside, screen, helpers
<1>18. CASE Finally
  BY <1>18 DEF Step, Finally, outside, screen, helpers
<1>19. CASE Reaps("reap", "restore")
  BY <1>19 DEF Step, Reaps, Returned, outside, screen, helpers
<1>20. CASE Restore
  BY <1>20 DEF Step, Restore, Restores, outside, screen, helpers
<1>21. CASE Interrupted
  <2>1. /\ at \in Bridge => at' = "int_kill"
        /\ at \in {"int_kill", "int_wait"} => at' = "finally"
        /\ at \in {"setraw", "arm", "finally", "reap"} => at' = "restore"
        /\ at \in {"start", "fork", "restore"} => at' = "ended"
    BY <1>21, InterruptedTo
  <2>2. /\ broken' = broken \cup {at} /\ signal' = "none" /\ at # "ended" /\ at # "none"
        /\ UNCHANGED <<enabled, shell, isatty, echo, keys, eof, presses, helpers>>
    BY <1>21 DEF Interrupted, Courses
  <2>3. QED
    BY <2>1, <2>2 DEF helpers, Place, Bridge
<1>22. CASE HelperEnded
  BY <1>22 DEF HelperEnded, outside, screen, helpers
<1>23. CASE BridgeCtrlC
  BY <1>23 DEF BridgeCtrlC, Signalled, Waits, EndsBySignal, Holds, outside, screen, helpers
<1>24. CASE Forward
  BY <1>24 DEF Forward, Signalled, outside, screen, helpers
<1>25. CASE Type
  BY <1>25 DEF Type, outside, screen, helpers
<1>26. CASE ChildExec
  BY <1>26 DEF ChildExec, Ends, outside, screen, helpers
<1>27. CASE ChildWrites
  BY <1>27 DEF ChildWrites, outside, screen, helpers
<1>28. CASE ChildSetsEcho
  BY <1>28 DEF ChildSetsEcho, outside, screen, helpers
<1>29. CASE ChildDetaches
  BY <1>29 DEF ChildDetaches, outside, screen, helpers
<1>30. CASE ChildEnds
  BY <1>30 DEF ChildEnds, Ends, outside, screen, helpers
<1>31. CASE UNCHANGED bridgeVars
  BY <1>31 DEF bridgeVars
<1>32. QED
  BY <1>1, <1>2, <1>3, <1>4, <1>5, <1>6, <1>7, <1>8, <1>9, <1>10, <1>11, <1>12, <1>13,
     <1>14, <1>15, <1>16, <1>17, <1>18, <1>19, <1>20, <1>21, <1>22, <1>23, <1>24,
     <1>25, <1>26, <1>27, <1>28, <1>29, <1>30, <1>31
     DEF BridgeNext, Helper

\* Every step keeps the helper's knowledge of the indicator.
LEMMA KnowsStep == BridgeIInv /\ [BridgeNext]_bridgeVars => Knows'
<1> SUFFICES ASSUME BridgeIInv, [BridgeNext]_bridgeVars PROVE Knows'
  OBVIOUS
<1> USE DEF BridgeIInv, BridgeTypeOK, Courses, Knows, Before
<1>1. CASE StartHelper
  BY <1>1 DEF StartHelper, outside, screen, helpers
<1>2. CASE Start
  BY <1>2 DEF Step, Start, outside, screen, helpers
<1>3. CASE Fork
  BY <1>3 DEF Step, Fork, outside, screen, helpers
<1>4. CASE SetRaw
  BY <1>4 DEF Step, SetRaw, outside, screen, helpers
<1>5. CASE Arm
  BY <1>5 DEF Step, Arm, outside, screen, helpers
<1>6. CASE Sync
  BY <1>6 DEF Step, Sync, SyncWith, Indicates, EchoDisabled, outside, screen, helpers
<1>7. CASE Assign("synced", "select")
  BY <1>7 DEF Step, Assign, Assigned, outside, screen, helpers
<1>8. CASE Select
  BY <1>8 DEF Step, Select, MasterReady, InReady, Hangup, Holds, outside, screen, helpers
<1>9. CASE Read
  BY <1>9 DEF Step, Read, Erased, outside, screen, helpers
<1>10. CASE Resync
  BY <1>10 DEF Step, Resync, SyncWith, Indicates, EchoDisabled, outside, screen, helpers
<1>11. CASE Assign("resynced", "stdin")
  BY <1>11 DEF Step, Assign, Assigned, outside, screen, helpers
<1>12. CASE Stdin
  BY <1>12 DEF Step, Stdin, Blinks, EchoDisabled, Hangup, Holds, outside, screen, helpers
<1>13. CASE Poll
  BY <1>13 DEF Step, Poll, Waited, Returned, outside, screen, helpers
<1>14. CASE DrainMaster
  BY <1>14 DEF Step, DrainMaster, outside, screen, helpers
<1>15. CASE Drained
  BY <1>15 DEF Step, Drained, outside, screen, helpers
<1>16. CASE IntKill
  BY <1>16 DEF Step, IntKill, EndsBySignal, Holds, outside, screen, helpers
<1>17. CASE Reaps("int_wait", "finally")
  BY <1>17 DEF Step, Reaps, Returned, outside, screen, helpers
<1>18. CASE Finally
  BY <1>18 DEF Step, Finally, outside, screen, helpers
<1>19. CASE Reaps("reap", "restore")
  BY <1>19 DEF Step, Reaps, Returned, outside, screen, helpers
<1>20. CASE Restore
  BY <1>20 DEF Step, Restore, Restores, outside, screen, helpers
<1>21. CASE Interrupted
  <2>1. /\ at \in Bridge => at' = "int_kill"
        /\ at \in {"int_kill", "int_wait"} => at' = "finally"
        /\ at \in {"setraw", "arm", "finally", "reap"} => at' = "restore"
        /\ at \in {"start", "fork", "restore"} => at' = "ended"
    BY <1>21, InterruptedTo
  <2>2. /\ broken' = broken \cup {at} /\ signal' = "none" /\ at # "ended" /\ at # "none"
        /\ UNCHANGED <<enabled, shell, isatty, echo, keys, eof, presses, helpers>>
    BY <1>21 DEF Interrupted, Courses
  <2>3. QED
    BY <2>1, <2>2 DEF helpers, Place, Bridge
<1>22. CASE HelperEnded
  BY <1>22 DEF HelperEnded, outside, screen, helpers
<1>23. CASE BridgeCtrlC
  BY <1>23 DEF BridgeCtrlC, Signalled, Waits, EndsBySignal, Holds, outside, screen, helpers
<1>24. CASE Forward
  BY <1>24 DEF Forward, Signalled, outside, screen, helpers
<1>25. CASE Type
  BY <1>25 DEF Type, outside, screen, helpers
<1>26. CASE ChildExec
  BY <1>26 DEF ChildExec, Ends, outside, screen, helpers
<1>27. CASE ChildWrites
  BY <1>27 DEF ChildWrites, outside, screen, helpers
<1>28. CASE ChildSetsEcho
  BY <1>28 DEF ChildSetsEcho, outside, screen, helpers
<1>29. CASE ChildDetaches
  BY <1>29 DEF ChildDetaches, outside, screen, helpers
<1>30. CASE ChildEnds
  BY <1>30 DEF ChildEnds, Ends, outside, screen, helpers
<1>31. CASE UNCHANGED bridgeVars
  BY <1>31 DEF bridgeVars
<1>32. QED
  BY <1>1, <1>2, <1>3, <1>4, <1>5, <1>6, <1>7, <1>8, <1>9, <1>10, <1>11, <1>12, <1>13,
     <1>14, <1>15, <1>16, <1>17, <1>18, <1>19, <1>20, <1>21, <1>22, <1>23, <1>24,
     <1>25, <1>26, <1>27, <1>28, <1>29, <1>30, <1>31
     DEF BridgeNext, Helper

\* No step leaves the bridge while there is output to come.
LEMMA HushedStep == BridgeIInv /\ [BridgeNext]_bridgeVars => Hushed'
<1> SUFFICES ASSUME BridgeIInv, [BridgeNext]_bridgeVars PROVE Hushed'
  OBVIOUS
<1> USE DEF BridgeIInv, BridgeTypeOK, Hushed, Silent, Courses, Accounts, Early, Bridge
<1>1. CASE StartHelper
  BY <1>1 DEF StartHelper, outside, screen, helpers
<1>2. CASE Start
  BY <1>2 DEF Step, Start, outside, screen, helpers
<1>3. CASE Fork
  BY <1>3 DEF Step, Fork, outside, screen, helpers
<1>4. CASE SetRaw
  BY <1>4 DEF Step, SetRaw, outside, screen, helpers
<1>5. CASE Arm
  BY <1>5 DEF Step, Arm, outside, screen, helpers
<1>6. CASE Sync
  BY <1>6 DEF Step, Sync, SyncWith, Indicates, EchoDisabled, outside, screen, helpers
<1>7. CASE Assign("synced", "select")
  BY <1>7 DEF Step, Assign, Assigned, outside, screen, helpers
<1>8. CASE Select
  BY <1>8 DEF Step, Select, MasterReady, InReady, Hangup, Holds, outside, screen, helpers
<1>9. CASE Read
  <2>1. CASE pty = 0
    BY <1>9, <2>1 DEF Step, Read
  <2>2. CASE pty # 0
    BY <1>9, <2>2 DEF Step, Read
  <2>3. QED
    BY <2>1, <2>2
<1>10. CASE Resync
  BY <1>10 DEF Step, Resync, SyncWith, Indicates, EchoDisabled, outside, screen, helpers
<1>11. CASE Assign("resynced", "stdin")
  BY <1>11 DEF Step, Assign, Assigned, outside, screen, helpers
<1>12. CASE Stdin
  BY <1>12 DEF Step, Stdin, Blinks, EchoDisabled, Hangup, Holds, outside, screen, helpers
<1>13. CASE Poll
  BY <1>13 DEF Step, Poll, Waited, Returned, outside, screen, helpers
<1>14. CASE DrainMaster
  BY <1>14 DEF Step, DrainMaster, outside, screen, helpers
<1>15. CASE Drained
  BY <1>15 DEF Step, Drained, outside, screen, helpers
<1>16. CASE IntKill
  BY <1>16 DEF Step, IntKill, EndsBySignal, Holds, outside, screen, helpers
<1>17. CASE Reaps("int_wait", "finally")
  BY <1>17 DEF Step, Reaps, Returned, outside, screen, helpers
<1>18. CASE Finally
  BY <1>18 DEF Step, Finally, outside, screen, helpers
<1>19. CASE Reaps("reap", "restore")
  BY <1>19 DEF Step, Reaps, Returned, outside, screen, helpers
<1>20. CASE Restore
  BY <1>20 DEF Step, Restore, Restores, outside, screen, helpers
<1>21. CASE Interrupted
  <2>1. /\ at \in Bridge => at' = "int_kill"
        /\ at \in {"int_kill", "int_wait"} => at' = "finally"
        /\ at \in {"setraw", "arm", "finally", "reap"} => at' = "restore"
        /\ at \in {"start", "fork", "restore"} => at' = "ended"
    BY <1>21, InterruptedTo
  <2>2. /\ broken' = broken \cup {at} /\ signal' = "none" /\ at # "ended" /\ at # "none"
        /\ UNCHANGED <<enabled, shell, isatty, echo, keys, eof, presses, helpers>>
    BY <1>21 DEF Interrupted, Courses
  <2>3. QED
    BY <2>1, <2>2 DEF helpers, Place, Bridge
<1>22. CASE HelperEnded
  BY <1>22 DEF HelperEnded, outside, screen, helpers
<1>23. CASE BridgeCtrlC
  BY <1>23 DEF BridgeCtrlC, Signalled, Waits, EndsBySignal, Holds, outside, screen, helpers
<1>24. CASE Forward
  BY <1>24 DEF Forward, Signalled, outside, screen, helpers
<1>25. CASE Type
  BY <1>25 DEF Type, outside, screen, helpers
<1>26. CASE ChildExec
  BY <1>26 DEF ChildExec, Ends, outside, screen, helpers
<1>27. CASE ChildWrites
  BY <1>27 DEF ChildWrites, outside, screen, helpers
<1>28. CASE ChildSetsEcho
  BY <1>28 DEF ChildSetsEcho, outside, screen, helpers
<1>29. CASE ChildDetaches
  BY <1>29 DEF ChildDetaches, outside, screen, helpers
<1>30. CASE ChildEnds
  BY <1>30 DEF ChildEnds, Ends, outside, screen, helpers
<1>31. CASE UNCHANGED bridgeVars
  BY <1>31 DEF bridgeVars
<1>32. QED
  BY <1>1, <1>2, <1>3, <1>4, <1>5, <1>6, <1>7, <1>8, <1>9, <1>10, <1>11, <1>12, <1>13,
     <1>14, <1>15, <1>16, <1>17, <1>18, <1>19, <1>20, <1>21, <1>22, <1>23, <1>24,
     <1>25, <1>26, <1>27, <1>28, <1>29, <1>30, <1>31
     DEF BridgeNext, Helper

\* No step loses or forges the status of the command.
LEMMA AccountsStep == BridgeIInv /\ [BridgeNext]_bridgeVars => Accounts'
<1> SUFFICES ASSUME BridgeIInv, [BridgeNext]_bridgeVars PROVE Accounts'
  OBVIOUS
<1> USE DEF BridgeIInv, BridgeTypeOK, Accounts, Early, Before, Courses, Bridge
<1>1. CASE StartHelper
  BY <1>1 DEF StartHelper, outside, screen, helpers
<1>2. CASE Start
  BY <1>2 DEF Step, Start, outside, screen, helpers
<1>3. CASE Fork
  BY <1>3 DEF Step, Fork, outside, screen, helpers
<1>4. CASE SetRaw
  BY <1>4 DEF Step, SetRaw, outside, screen, helpers
<1>5. CASE Arm
  BY <1>5 DEF Step, Arm, outside, screen, helpers
<1>6. CASE Sync
  BY <1>6 DEF Step, Sync, SyncWith, Indicates, EchoDisabled, outside, screen, helpers
<1>7. CASE Assign("synced", "select")
  BY <1>7 DEF Step, Assign, Assigned, outside, screen, helpers
<1>8. CASE Select
  BY <1>8 DEF Step, Select, MasterReady, InReady, Hangup, Holds, outside, screen, helpers
<1>9. CASE Read
  BY <1>9 DEF Step, Read, Erased, outside, screen, helpers
<1>10. CASE Resync
  BY <1>10 DEF Step, Resync, SyncWith, Indicates, EchoDisabled, outside, screen, helpers
<1>11. CASE Assign("resynced", "stdin")
  BY <1>11 DEF Step, Assign, Assigned, outside, screen, helpers
<1>12. CASE Stdin
  BY <1>12 DEF Step, Stdin, Blinks, EchoDisabled, Hangup, Holds, outside, screen, helpers
<1>13. CASE Poll
  BY <1>13 DEF Step, Poll, Waited, Returned, outside, screen, helpers
<1>14. CASE DrainMaster
  BY <1>14 DEF Step, DrainMaster, outside, screen, helpers
<1>15. CASE Drained
  BY <1>15 DEF Step, Drained, outside, screen, helpers
<1>16. CASE IntKill
  BY <1>16 DEF Step, IntKill, EndsBySignal, Holds, outside, screen, helpers
<1>17. CASE Reaps("int_wait", "finally")
  BY <1>17 DEF Step, Reaps, Returned, outside, screen, helpers
<1>18. CASE Finally
  BY <1>18 DEF Step, Finally, outside, screen, helpers
<1>19. CASE Reaps("reap", "restore")
  BY <1>19 DEF Step, Reaps, Returned, outside, screen, helpers
<1>20. CASE Restore
  BY <1>20 DEF Step, Restore, Restores, outside, screen, helpers
<1>21. CASE Interrupted
  <2>1. /\ at \in Bridge => at' = "int_kill"
        /\ at \in {"int_kill", "int_wait"} => at' = "finally"
        /\ at \in {"setraw", "arm", "finally", "reap"} => at' = "restore"
        /\ at \in {"start", "fork", "restore"} => at' = "ended"
    BY <1>21, InterruptedTo
  <2>2. /\ broken' = broken \cup {at} /\ signal' = "none" /\ at # "ended" /\ at # "none"
        /\ UNCHANGED <<enabled, shell, isatty, echo, keys, eof, presses, helpers>>
    BY <1>21 DEF Interrupted, Courses
  <2>3. QED
    BY <2>1, <2>2 DEF helpers, Place, Bridge
<1>22. CASE HelperEnded
  BY <1>22 DEF HelperEnded, outside, screen, helpers
<1>23. CASE BridgeCtrlC
  BY <1>23 DEF BridgeCtrlC, Signalled, Waits, EndsBySignal, Holds, outside, screen, helpers
<1>24. CASE Forward
  BY <1>24 DEF Forward, Signalled, outside, screen, helpers
<1>25. CASE Type
  BY <1>25 DEF Type, outside, screen, helpers
<1>26. CASE ChildExec
  BY <1>26 DEF ChildExec, Ends, outside, screen, helpers
<1>27. CASE ChildWrites
  BY <1>27 DEF ChildWrites, outside, screen, helpers
<1>28. CASE ChildSetsEcho
  BY <1>28 DEF ChildSetsEcho, outside, screen, helpers
<1>29. CASE ChildDetaches
  BY <1>29 DEF ChildDetaches, outside, screen, helpers
<1>30. CASE ChildEnds
  BY <1>30 DEF ChildEnds, Ends, outside, screen, helpers
<1>31. CASE UNCHANGED bridgeVars
  BY <1>31 DEF bridgeVars
<1>32. QED
  BY <1>1, <1>2, <1>3, <1>4, <1>5, <1>6, <1>7, <1>8, <1>9, <1>10, <1>11, <1>12, <1>13,
     <1>14, <1>15, <1>16, <1>17, <1>18, <1>19, <1>20, <1>21, <1>22, <1>23, <1>24,
     <1>25, <1>26, <1>27, <1>28, <1>29, <1>30, <1>31
     DEF BridgeNext, Helper

----------------------------------------------------------------------------
\* Before the shell has started the helper there is nothing to account for.
LEMMA BridgeStarts == BridgeInit => BridgeIInv
<1> SUFFICES ASSUME BridgeInit PROVE BridgeIInv
  OBVIOUS
<1>1. BridgeTypeOK
  <2>1. presses \in 0..MaxCtrlC /\ pty \in 0..Capacity /\ keys \in 0..MaxTyped
        /\ typed \in 0..MaxTyped
    BY BridgeAssumption DEF BridgeInit
  <2>2. fate \in [child : {"none", "exit", "signal"},
                 returned : {"none", "exit", "signal", "zero"}]
    BY DEF BridgeInit
  <2>3. QED
    BY <2>1, <2>2 DEF BridgeInit, BridgeTypeOK, Place
<1>2. Courses /\ Hushed /\ Accounts
  BY BridgeAssumption DEF BridgeInit, Courses, Hushed, Accounts, Bridge, Before, Early
<1>3. Knows
  BY DEF BridgeInit, Knows
<1>4. QED
  BY <1>1, <1>2, <1>3 DEF BridgeIInv

\* The invariant is inductive, however the helper, the shell, the command and the
\* user interleave.
THEOREM BridgeInvariance == BridgeSpec => []BridgeIInv
<1>1. BridgeIInv /\ [BridgeNext]_bridgeVars => BridgeIInv'
  BY TypeStep, CoursesStep, KnowsStep, HushedStep, AccountsStep DEF BridgeIInv
<1>2. QED
  BY BridgeStarts, <1>1, PTL DEF BridgeSpec

\* secure gives the terminal back in the mode in which it found it, unless Ctrl+C
\* strikes in the restoring itself.
THEOREM TerminalIsRestored == BridgeSpec => []ModeRestored
<1>1. BridgeIInv => ModeRestored
  BY DEF BridgeIInv, Courses, ModeRestored
<1>2. QED
  BY BridgeInvariance, <1>1, PTL

\* Whatever the command wrote is copied before the bridge stops, and the bridge
\* knows at every step whether its indicator is in the way.
THEOREM OutputIsComplete == BridgeSpec => []OutputForwarded
<1>1. BridgeIInv => OutputForwarded
  BY DEF BridgeIInv, Knows, Hushed, OutputForwarded, IndicatorTracked
<1>2. QED
  BY BridgeInvariance, <1>1, PTL

\* The status returned is the command's, and the command is reaped, after any number
\* of Ctrl+C that strike inside the bridge before the reaping.
THEOREM StatusIsGenuine == BridgeSpec => []StatusIsTheCommands
<1>1. BridgeIInv => StatusIsTheCommands
  BY DEF BridgeIInv, Accounts, Early, StatusIsTheCommands
<1>2. QED
  BY BridgeInvariance, <1>1, PTL

=============================================================================
