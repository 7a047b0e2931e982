-------------------------- MODULE IsolatedContract --------------------------
(***************************************************************************)
(* What the runtimes of isolated plugins promise to the shell (docs/       *)
(* security/resource-governor.md, "Lifecycle", "Precedence", "Concurrency"): *)
(* a runtime is used once, holds one permit while it is active and gives   *)
(* it back exactly once; the first of shutdown and resource violation to   *)
(* claim a runtime decides how it ends.                                    *)
(***************************************************************************)
EXTENDS Naturals

CONSTANTS
    Runtime,    \* runtime objects of one plugin
    Limit       \* permits the governor gives out for the plugin

VARIABLES
    phase,      \* of each runtime
    claim,      \* who decided how the runtime ends
    permits     \* permits given out

vars == <<phase, claim, permits>>

Init ==
    /\ phase = [r \in Runtime |-> "new"]
    /\ claim = [r \in Runtime |-> "nobody"]
    /\ permits = 0

Begin(r) ==                     \* a start that was not refused
    /\ phase[r] = "new"
    /\ permits < Limit
    /\ phase' = [phase EXCEPT ![r] = "active"]
    /\ permits' = permits + 1
    /\ UNCHANGED claim

Abandon(r) ==                   \* shutdown of a runtime that never started
    /\ phase[r] = "new"
    /\ phase' = [phase EXCEPT ![r] = "stopped"]
    /\ UNCHANGED <<claim, permits>>

Claim(r, who) ==
    /\ phase[r] = "active" /\ claim[r] = "nobody"
    /\ claim' = [claim EXCEPT ![r] = who]
    /\ UNCHANGED <<phase, permits>>

End(r) ==                       \* an unclaimed runtime ends by failing
    /\ phase[r] = "active"
    /\ phase' = [phase EXCEPT ![r] = IF claim[r] = "shutdown" THEN "stopped"
                                     ELSE "failed"]
    /\ permits' = permits - 1
    /\ UNCHANGED claim

Next ==
    \E r \in Runtime :
        \/ Begin(r) \/ Abandon(r) \/ End(r)
        \/ \E who \in {"shutdown", "resource"} : Claim(r, who)

Spec == Init /\ [][Next]_vars

=============================================================================
