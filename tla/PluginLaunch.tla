---------------------------- MODULE PluginLaunch ----------------------------
(***************************************************************************)
(* How an isolated plugin gets its limits: the parent resolves a budget    *)
(* and plans its enforcement (plugins/isolated/resources.py), the launcher *)
(* checks the numbers again, lowers the limits of its own process one by   *)
(* one, proves that it cannot raise them and becomes the plugin            *)
(* (plugins/isolated/launcher.py).  The kernel's rule for setrlimit is the *)
(* action of both the launcher and the plugin.                             *)
(***************************************************************************)
EXTENDS Integers

CONSTANTS
    Field,       \* the fields of a ResourceBudget
    OsField,     \* OS_ENFORCED_FIELDS
    Processes,   \* the field "processes", limited per user or not at all
    NoField,     \* of no field
    Ceiling,     \* _CEILINGS
    Floor,       \* _MINIMUMS, 1 where there is none
    Class,       \* names of resource classes
    Default,     \* DEFAULT_RESOURCE_CLASS
    Catalog,     \* the budget of each profile
    Request,     \* overrides: partial budgets
    Supported,   \* fields with an RLIMIT of this platform
    Inherited    \* hard limits the launcher may be started with

None == -1       \* a field that is not specified
Unlimited == -2  \* RLIM_INFINITY

Budget == [Field -> Nat \ {0}]

ASSUME FieldAssumption ==
    /\ OsField \subseteq Field /\ Processes \in Field \ OsField /\ NoField \notin Field
    /\ Supported \subseteq OsField \union {Processes}
ASSUME BoundAssumption ==
    /\ Ceiling \in Budget /\ Floor \in Budget
    /\ Inherited \subseteq Nat \union {Unlimited}
ASSUME CatalogAssumption ==               \* ResourceProfile.__post_init__
    \E Known \in SUBSET Class : Catalog \in [Known -> Budget]
ASSUME ProfileAssumption ==               \* ResourceBudget.__post_init__
    \A k \in DOMAIN Catalog : \A f \in Field : Catalog[k][f] <= Ceiling[f]
ASSUME RequestAssumption ==
    /\ Request \subseteq [Field -> Nat \union {None}]
    /\ \A q \in Request : \A f \in Field : q[f] # None => q[f] \in 1..Ceiling[f]

VARIABLES
    stage,       \* of the start of this plugin
    class,       \* resource_class of the manifest, or "missing"
    request,     \* resource_limits
    perUser,     \* process_limit_mode is OS_PER_UID
    argv,        \* the limits in the launcher's argument vector
    todo,        \* limits the launcher has not applied yet
    probing,     \* the limit whose raise is being tried
    soft, hard,  \* resource limits of the launcher's, later the plugin's process
    first,       \* its hard limits when it was started
    privileged   \* may this process raise hard limits?

launchVars == <<stage, class, request, perUser, argv, todo, probing, soft, hard, first,
          privileged>>

Limited == OsField \union {Processes}

Leq(a, b) == b = Unlimited \/ (a # Unlimited /\ a <= b)

Narrowed(a, b) == IF Leq(a, b) THEN a ELSE b

----------------------------------------------------------------------------
LaunchInit ==
    /\ stage = "new"
    /\ class \in Class \union {"missing"}
    /\ request \in Request
    /\ perUser \in BOOLEAN
    /\ argv = [f \in {} |-> 0]
    /\ todo = {} /\ probing = NoField
    /\ first \in [Limited -> Inherited]
    /\ hard = first /\ soft = first
    /\ privileged \in BOOLEAN

\* resolve_resource_budget.
Profile(c) == IF c = "missing" THEN Default ELSE c

ResolvedByClamping(q, k) ==             \* variant: too much is not rejected
    Profile(k) \in DOMAIN Catalog

Resolved(q, k) ==
    /\ Profile(k) \in DOMAIN Catalog
    /\ \A f \in Field : q[f] # None => q[f] <= Catalog[Profile(k)][f]

Effective(q, k) ==
    [f \in Field |-> IF q[f] = None THEN Catalog[Profile(k)][f] ELSE q[f]]

\* plan_enforcement.
Planned(e, q, user) ==
    /\ \A f \in Field : e[f] >= Floor[f]
    /\ ~user => q[Processes] = None

OsLimits(e, user) ==
    [f \in (IF user THEN Limited ELSE OsField) |-> e[f]]

\* build_launcher_argv: the limits it is given, on a platform that has them.
Refuse ==
    /\ stage = "new"
    /\ ~ \/ /\ Resolved(request, class)
            /\ Planned(Effective(request, class), request, perUser)
            /\ DOMAIN OsLimits(Effective(request, class), perUser) \subseteq Supported
    /\ stage' = "refused"
    /\ UNCHANGED <<class, request, perUser, argv, todo, probing, soft, hard, first,
                   privileged>>

Launch ==
    /\ stage = "new"
    /\ Resolved(request, class)
    /\ LET e == Effective(request, class)
       IN  /\ Planned(e, request, perUser)
           /\ DOMAIN OsLimits(e, perUser) \subseteq Supported
           /\ argv' = OsLimits(e, perUser)
    /\ stage' = "launcher"
    /\ UNCHANGED <<class, request, perUser, todo, probing, soft, hard, first,
                   privileged>>

----------------------------------------------------------------------------
(* The launcher's process.                                                 *)

\* setrlimit of one field: what the kernel allows.
MayBecome(f, s, h) ==
    /\ Leq(s, h)
    /\ Leq(h, hard[f]) \/ privileged

Become(f, s, h) ==
    /\ soft' = [soft EXCEPT ![f] = s]
    /\ hard' = [hard EXCEPT ![f] = h]

\* parse_launcher_argv: all that is left to reject in a vector that
\* build_launcher_argv has put together.
Accepted ==
    /\ OsField \subseteq DOMAIN argv
    /\ \A f \in DOMAIN argv : argv[f] \in Floor[f]..Ceiling[f]

Parse ==
    /\ stage = "launcher"
    /\ IF Accepted
       THEN stage' = "applying" /\ todo' = DOMAIN argv
       ELSE stage' = "exit78" /\ UNCHANGED todo
    /\ UNCHANGED <<class, request, perUser, argv, probing, soft, hard, first,
                   privileged>>

ApplyAsAsked(f) ==                      \* variant: the inherited limit is not looked at
    /\ stage = "applying" /\ probing = NoField /\ f \in todo
    /\ MayBecome(f, argv[f], argv[f])
    /\ Become(f, argv[f], argv[f])
    /\ probing' = f
    /\ UNCHANGED <<stage, class, request, perUser, argv, todo, first, privileged>>

\* One turn of the loop of apply_limits; nothing depends on the order.
Apply(f) ==
    /\ stage = "applying" /\ probing = NoField /\ f \in todo
    /\ LET limit == Narrowed(argv[f], hard[f])
       IN  MayBecome(f, limit, limit) /\ Become(f, limit, limit)
    /\ probing' = f
    /\ UNCHANGED <<stage, class, request, perUser, argv, todo, first, privileged>>

ProbeNothing ==                         \* variant: the limit is trusted
    /\ stage = "applying" /\ probing # NoField
    /\ todo' = todo \ {probing} /\ probing' = NoField
    /\ UNCHANGED <<stage, class, request, perUser, argv, soft, hard, first,
                   privileged>>

\* _ensure_irrevocable.  A raise that succeeds is taken back, or not, and the
\* launcher exits.
Probe ==
    /\ stage = "applying" /\ probing # NoField
    /\ IF MayBecome(probing, hard[probing], hard[probing] + 1)
       THEN /\ stage' = "exit71"
            /\ \E h \in {hard[probing], hard[probing] + 1} :
                    Become(probing, hard[probing], h)
            /\ UNCHANGED <<todo, probing>>
       ELSE /\ todo' = todo \ {probing} /\ probing' = NoField
            /\ UNCHANGED <<stage, soft, hard>>
    /\ UNCHANGED <<class, request, perUser, argv, first, privileged>>

CannotApply ==                          \* setrlimit or execve fails
    /\ stage = "applying" /\ probing = NoField
    /\ stage' = "exit71"
    /\ UNCHANGED <<class, request, perUser, argv, todo, probing, soft, hard, first,
                   privileged>>

Exec ==
    /\ stage = "applying" /\ probing = NoField /\ todo = {}
    /\ stage' = "plugin"
    /\ UNCHANGED <<class, request, perUser, argv, todo, probing, soft, hard, first,
                   privileged>>

\* The plugin tries what it can to have more.
PluginSets(f, s, h) ==
    /\ stage = "plugin"
    /\ MayBecome(f, s, h)
    /\ Become(f, s, h)
    /\ UNCHANGED <<stage, class, request, perUser, argv, todo, probing, first,
                   privileged>>

LaunchNext ==
    \/ Refuse \/ Launch \/ Parse \/ Probe \/ CannotApply \/ Exec
    \/ \E f \in Limited : Apply(f)
    \/ \E f \in Limited : \E s, h \in 0..Ceiling[f] \union {Unlimited} : PluginSets(f, s, h)

LaunchSpec == LaunchInit /\ [][LaunchNext]_launchVars

----------------------------------------------------------------------------
LaunchTypeOK ==
    /\ stage \in {"new", "refused", "launcher", "exit78", "applying", "exit71", "plugin"}
    /\ class \in Class \union {"missing"} /\ request \in Request
    /\ perUser \in BOOLEAN /\ privileged \in BOOLEAN
    /\ DOMAIN argv \subseteq Limited /\ \A f \in DOMAIN argv : argv[f] \in Nat
    /\ todo \subseteq DOMAIN argv
    /\ probing \in todo \union {NoField}
    /\ soft \in [Limited -> Nat \union {Unlimited}]
    /\ hard \in [Limited -> Nat \union {Unlimited}]
    /\ first \in [Limited -> Nat \union {Unlimited}]

\* Whatever a plugin does, it stays under the limits it was planned to have and
\* under those its launcher inherited.
PluginConfined ==
    stage = "plugin" =>
        \A f \in DOMAIN argv :
            /\ Leq(soft[f], hard[f])
            /\ Leq(hard[f], argv[f]) /\ Leq(hard[f], first[f])

\* What is enforced is the narrowest of request, profile and ceiling, and every
\* field the operating system limits is enforced.
NarrowestEnforced ==
    stage \notin {"new", "refused"} =>
        /\ OsField \subseteq DOMAIN argv
        /\ perUser \/ request[Processes] # None => Processes \in DOMAIN argv
        /\ \A f \in DOMAIN argv :
              LET bounds == {Ceiling[f], Catalog[Profile(class)][f]}
                            \union ({request[f]} \ {None})
              IN  argv[f] \in bounds /\ \A b \in bounds : argv[f] <= b

\* The parent's plan and the launcher's check agree: the launcher rejects no
\* policy that the parent has accepted.
LauncherAgrees == stage # "exit78"

=============================================================================
