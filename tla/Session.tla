------------------------------ MODULE Session ------------------------------
(***************************************************************************)
(* An interactive session (core/shell.py run): the layers of the user's    *)
(* configuration in their order, the trusted plugins, the lines typed, and *)
(* the end.  It composes the configuration, the trusted plugins and the    *)
(* environment.                                                            *)
(*                                                                         *)
(* What remains to be done is a sequence, work, of calls and of ends: a    *)
(* call that makes others puts them before the rest.  An end closes a      *)
(* frame, code with a try around it that keeps some exceptions from the    *)
(* rest: "error" is an Exception, "quit" any other, as Ctrl+C.             *)
(***************************************************************************)
EXTENDS Configuration, TrustedPlugins, Environment

CONSTANTS
    Users,          \* what users have written: records, see Init
    Code,           \* the calls that their programs and their plugins consist of
    Enabling,       \* what ~/.pyshrc.py alone asks of the plugin manager
    Staging,        \* what register asks of PluginAPI
    MaxLines,       \* bound: lines typed
    WhileLimit,     \* WHILE_ITER_LIMIT
    MaxInterrupts,  \* bound: Ctrl+C while something runs
    WhilePublishing \* whether one may fall into the publication of a bundle

Program      == Seq(Code)
Request      == Seq(Code \cup Enabling)
Registration == Seq(Code \cup Staging)

\* A call of a program, and the programs in it.
Written(c) ==
    /\ c.do \in {"option", "profile", "theme", "pack", "alias", "unalias", "reset", "hook", "raise",
                 "unclosed", "put", "assign", "export", "source", "activate", "deactivate",
                 "import", "invoke", "if", "for", "while"}
    /\ c.do = "raise" => c.value \in {"error", "quit"}
    /\ c.do = "alias" => c.key \in AliasName
    /\ c.do \in {"if", "for", "while", "hook"} => c.body \in Program
    /\ c.do = "if" => c.else \in Program
    /\ c.do = "for" => c.items \in Seq(Range(c.items))
    /\ c.do = "while" => DOMAIN c = {"do", "test", "body", "count"}
    /\ c.do = "source" => c.name \in {"commands", "activate", "zsh"} /\ c.program \in Program
    /\ c.do = "import" => c.calls \in Program

ASSUME CodeAssumption ==
    /\ \A c \in Code : Written(c)
    /\ \A c \in Enabling : c.do \in {"enable", "disable", "allow"}
    /\ \A c \in Staging : /\ c.do = "stage" /\ c.key \in Range(SlotKinds) \cup Range(HookKinds)
                           /\ c.body \in Program

ASSUME UsersAssumption ==
    /\ UNION {u.lines : u \in Users} \subseteq Code
    /\ \A u \in Users :
        /\ u.rc \in Program /\ u.dropins \in Seq(Program) /\ u.configure \in Request
        /\ u.docs \in Seq(Range(u.docs))
        /\ \A i \in DOMAIN u.docs : u.docs[i] # None =>
              /\ u.docs[i].packs \in {None} \cup Seq(STRING)
              /\ DOMAIN u.docs[i].profiles \subseteq Range(ProfileNames)
              /\ DOMAIN u.docs[i].themes \subseteq Range(ThemeNames)
        /\ u.files \in Seq(Range(u.files))
        /\ \A i \in DOMAIN u.files : /\ u.files[i].fault \in {"none", "error", "quit"}
                                     /\ u.files[i].register \in Registration

VARIABLES
    user,
    stage,          \* "starting", "prompt", "closing", "ended"; "failed", "cut"
    work,
    loopvars,       \* the loop variables of the rc file that is run
    startupHooks,   \* _startup_hooks
    dispatching,    \* _dispatching_env_hook
    lines, interrupts,
    told,           \* ghost: the environment as each environment hook was told,
                    \* Aside where a loop has written past it since
    found,          \* ghost: what the first activation found
    said,           \* ghost: the plugins' hooks that were run, by kind
    behind          \* ghost: the options of which the engine was not told, at a Ctrl+C

ghosts  == <<told, found, said, behind>>
session == <<user, stage, work, loopvars, startupHooks, dispatching, lines, interrupts, ghosts>>
vars    == <<config, plugins, environment, session>>

(***************************************************************************)
(* Frames and exceptions.                                                  *)
(***************************************************************************)
EndOf(frame) == [do |-> "end", frame |-> frame, raised |-> FALSE, of |-> 0]

\* variant: sys.exit in a hook is let through
CaughtErrors(frame) ==
    CASE frame \in {"safely", "rc line", "drop-in", "user hook", "plugin hook"} -> {"error"}
      [] frame \in {"configure", "register", "typed"} -> {"error", "quit"}
      [] frame = "prompt" -> {"quit"}
      [] OTHER -> {}

\* The exceptions that go no further than a frame: a line of an rc file
\* (_interpret), a setting of the TOML files (_safe_apply), a file of ~/.pyshrc.d (load_plugins), configure
\* (load_python_config), a startup hook of the user (_run_user_startup_hooks),
\* plugin code (load_plugin_record, PluginManager), the prompt, whose line is given
\* up at Ctrl+C.  A typed line has the finally clause of run around it; ~/.pyshrc has
\* nothing.
Caught(frame) ==
    CASE frame \in {"safely", "rc line", "drop-in", "user hook"} -> {"error"}
      [] frame \in {"configure", "register", "plugin hook", "typed"} -> {"error", "quit"}
      [] frame = "prompt" -> {"quit"}
      [] OTHER -> {}

IsEnd(item, frame) == item.do = "end" /\ item.frame = frame

Unwound(kind) ==
    LET ends == {i \in DOMAIN work : work[i].do = "end" /\ kind \in Caught(work[i].frame)}
        i    == CHOOSE j \in ends : \A m \in ends : j <= m
    IN IF ends = {} THEN <<>>
       ELSE <<[work[i] EXCEPT !.raised = TRUE]>> \o SubSeq(work, i + 1, Len(work))

\* An exception: notify_env_change has a finally clause of its own.
Raise(kind) ==
    /\ work' = Unwound(kind)
    /\ stage' = IF work' # <<>> THEN stage ELSE IF stage = "closing" THEN "cut" ELSE "failed"
    /\ dispatching' = (dispatching /\ \E i \in DOMAIN work' : IsEnd(work'[i], "dispatch"))

Then(calls) ==
    /\ work' = calls \o Tail(work)
    /\ UNCHANGED <<stage, dispatching>>

Doing(what) == work # <<>> /\ Head(work).do = what
This == Head(work)

\* The frame that the head is in.
Frame == work[CHOOSE i \in DOMAIN work : /\ work[i].do = "end"
                                         /\ \A j \in 1..(i - 1) : work[j].do # "end"].frame

ByUser == UNCHANGED <<user, loopvars, startupHooks, lines, interrupts>>

(***************************************************************************)
(* The rc files: config/rc.py.                                             *)
(***************************************************************************)
\* A line, and a block of lines, in _interpret; a block without its end is found
\* before, by _collect_block.
Lines(program) ==
    FlattenSeq([i \in DOMAIN program |->
                   IF program[i].do = "unclosed" THEN <<[do |-> "raise", value |-> "error"]>>
                   ELSE <<program[i], EndOf("rc line")>>])

File(program, frame) == <<[do |-> "file"]>> \o Lines(program) \o <<EndOf(frame)>>

BeginFile ==
    /\ Doing("file")
    /\ loopvars' = [n \in Name |-> Unset]
    /\ Then(<<>>)
    /\ UNCHANGED <<config, plugins, environment, user, startupHooks, lines, interrupts, ghosts>>

\* evaluate_condition sees the loop variables and the exported ones.
Holds(test) ==
    LET seen == IF loopvars[test.key] # Unset THEN loopvars[test.key] ELSE environ[test.key]
    IN (seen = test.value) # test.negate

RunIf ==
    /\ Doing("if")
    /\ Then(Lines(IF Holds(This.test) THEN This.body ELSE This.else))
    /\ UNCHANGED <<config, plugins, environment, ghosts>> /\ ByUser

RunFor ==
    /\ Doing("for")
    /\ Then(FlattenSeq([i \in DOMAIN This.items |->
                           <<[do |-> "loopvar", key |-> This.key, value |-> This.items[i]]>>
                               \o Lines(This.body)]))
    /\ UNCHANGED <<config, plugins, environment, ghosts>> /\ ByUser

\* No value: a variable that is empty has <<Empty>>.
Aside == <<>>

\* A loop variable is exported past the shell's own table and its plugins.
SetLoopvar ==
    /\ Doing("loopvar")
    /\ loopvars' = [loopvars EXCEPT ![This.key] = This.value]
    /\ environ' = [environ EXCEPT ![This.key] = This.value]
    /\ told' = [h \in DOMAIN told |-> [told[h] EXCEPT ![This.key] = Aside]]
    /\ Then(<<>>)
    /\ UNCHANGED <<config, plugins, locals, snapshot, user, startupHooks, lines, interrupts,
                   found, said, behind>>

\* variant: without a limit
GoesOnForever(loop) == Holds(loop.test)

GoesOn(loop) == Holds(loop.test) /\ loop.count < WhileLimit

RunWhile ==
    /\ Doing("while")
    /\ Then(IF GoesOn(This)
            THEN Lines(This.body) \o <<[This EXCEPT !.count = IF @ < WhileLimit THEN @ + 1 ELSE @]>>
            ELSE <<>>)
    /\ UNCHANGED <<config, plugins, environment, ghosts>> /\ ByUser

(***************************************************************************)
(* Calls on the configuration: a config_ builtin, or ~/.pyshrc.py.         *)
(***************************************************************************)
IsCommand == Frame \in {"typed", "rc line"}

Calls(do) ==
    /\ Doing(do)
    /\ ~Raises(This)
    /\ UNCHANGED <<plugins, environment, ghosts>> /\ ByUser

Configure ==
    \/ Calls("option")  /\ SetOption(This.key, This.value)
                        /\ Then(Telling({This.key} \cap HistoryOption))
    \/ Calls("profile") /\ SetProfile(This.value) /\ Then(ProfileCalls(This.value))
    \/ Calls("theme")   /\ SetTheme(This.value) /\ Then(ThemeCalls(This.value))
    \/ Calls("pack")    /\ SetAliases(Pack[This.value]) /\ Then(<<>>)
    \/ Calls("alias")   /\ SetAliases(Aliasing(This)) /\ Then(<<>>)
    \/ Calls("unalias") /\ RemoveAlias(This.key) /\ Then(<<>>)
    \/ Calls("reset")   /\ UNCHANGED config /\ Then(ResetCalls(This.value))
    \/ Calls("restore") /\ Restore(This.value)
                        /\ Then(Telling(IF This.value = "history" THEN HistoryOption ELSE {}))

\* HistoryEngine.set_option; reset_config tells one option after the other.
TellEngine ==
    /\ Doing("tell")
    /\ \E k \in This.keys :
          /\ engine' = EngineTold(k)
          /\ behind' = behind \ {k}
          /\ Then(Telling(This.keys \ {k}))
    /\ UNCHANGED <<options, active, known, aliases, plugins, environment, told, found, said>> /\ ByUser

RefuseSetting ==
    /\ work # <<>> /\ This.do \in {"option", "profile", "theme", "pack"} /\ Raises(This)
    /\ IF IsCommand /\ Refused(This) THEN Then(<<>>) ELSE Raise("error")
    /\ UNCHANGED <<config, plugins, environment, ghosts>> /\ ByUser

\* register_startup_hook
RegisterHook ==
    /\ Doing("hook")
    /\ startupHooks' = Append(startupHooks, This.body)
    /\ Then(<<>>)
    /\ UNCHANGED <<config, plugins, environment, user, loopvars, lines, interrupts, ghosts>>

\* enable_plugin, disable_plugin and enable_project_plugins of ~/.pyshrc.py
EnablePlugin ==
    /\ \/ /\ Doing("enable") /\ This.value # BadName
          /\ Enable(This.value) /\ Then(<<>>)
       \/ /\ Doing("disable") /\ This.value # BadName
          /\ Disable(This.value) /\ Then(<<>>)
       \/ /\ Doing("allow")
          /\ Allow /\ Then(<<>>)
       \/ /\ work # <<>> /\ This.do \in {"enable", "disable"} /\ This.value = BadName
          /\ Raise("error") /\ UNCHANGED plugins
    /\ UNCHANGED <<config, environment, ghosts>> /\ ByUser

\* Code of the user or of a plugin that raises; exit.
Throw ==
    /\ Doing("raise")
    /\ Raise(This.value)
    /\ UNCHANGED <<config, plugins, environment, ghosts>> /\ ByUser

(***************************************************************************)
(* Calls on the environment.                                               *)
(***************************************************************************)
\* notify_env_change: each hook in turn, none if they are being run already.
Notices(n, old, new) ==
    FlattenSeq([i \in DOMAIN hooks.env |->
                   <<[do |-> "notice", hook |-> i, key |-> n, old |-> old, new |-> new]>>
                       \o hooks.env[i].body \o <<EndOf("plugin hook")>>])
        \o <<EndOf("dispatch")>>

Notifies(n, v) == Changes(n, v) /\ ~dispatching

Assigning == IF This.do = "prepend" THEN Prepended(This.value[1]) ELSE This.value

PutVariable ==
    /\ Doing("put") \/ Doing("prepend")
    /\ LET n == This.key v == Assigning
       IN /\ Put(n, v)
          /\ work' = (IF Notifies(n, v) THEN Notices(n, environ[n], v) ELSE <<>>) \o Tail(work)
          /\ dispatching' = (dispatching \/ Notifies(n, v))
    /\ UNCHANGED <<config, plugins, stage, ghosts>> /\ ByUser

Notice ==
    /\ Doing("notice")
    /\ told' = [told EXCEPT ![This.hook][This.key] = This.new]
    /\ Then(<<>>)
    /\ UNCHANGED <<config, plugins, environment, found, said, behind>> /\ ByUser

AssignVariable ==
    /\ Doing("assign")
    /\ Assign(This.key, This.value) /\ Then(<<>>)
    /\ UNCHANGED <<config, plugins, ghosts>> /\ ByUser

ExportVariable ==
    /\ Doing("export")
    /\ Then(ExportName(This.key))
    /\ UNCHANGED <<config, plugins, environment, ghosts>> /\ ByUser

\* _builtin_source: the activation script of an environment that is whole, and files
\* of commands, but no other activation script and none of zsh's configuration.
IsVenv(target) == target.name = "activate" /\ target.whole

SourceFile ==
    /\ Doing("source")
    /\ Then(CASE IsVenv(This) -> <<[do |-> "activate", value |-> This.root]>>
              [] This.name = "commands" -> File(This.program, "rc file")
              [] This.name = "activate" \/ This.name = "zsh" -> <<>>)
    /\ UNCHANGED <<config, plugins, environment, ghosts>> /\ ByUser

Activate ==
    /\ Doing("activate")
    /\ TakeSnapshot
    /\ found' = IF snapshot = Unset THEN Found ELSE found
    /\ Then(Activating(This.value))
    /\ UNCHANGED <<config, plugins, environ, locals, told, said, behind>> /\ ByUser

Deactivate ==
    /\ Doing("deactivate")
    /\ Then(Deactivating)
    /\ UNCHANGED <<config, plugins, environment, ghosts>> /\ ByUser

PutLocalsBack ==
    /\ Doing("locals")
    /\ RestoreLocals(This.value = <<"clear">>) /\ Then(<<>>)
    /\ UNCHANGED <<config, plugins, ghosts>> /\ ByUser

\* _import_static_profile: aliases, variables and exports of a foreign profile.
Imported(names) == [a \in AliasName |-> IF a \in names THEN "imported" ELSE aliases[a]]

ImportProfile ==
    /\ Doing("import")
    /\ aliases' = Imported(This.alias)
    /\ Then(This.calls)
    /\ UNCHANGED <<options, engine, active, known, plugins, environment, ghosts>> /\ ByUser

(***************************************************************************)
(* Plugins.                                                                *)
(***************************************************************************)
Load(i) == <<[do |-> "load", of |-> i], [EndOf("register") EXCEPT !.of = i]>>

\* The files of enabled_records, in their order.
Loading(files) ==
    FlattenSeq([i \in DOMAIN files |-> IF Verdict(files, i) = "discovered" THEN Load(i) ELSE <<>>])

Publications == [i \in DOMAIN SlotKinds |-> [do |-> "publish", key |-> SlotKinds[i]]]
                    \o [i \in DOMAIN HookKinds |-> [do |-> "publish", key |-> HookKinds[i]]]

\* load_plugin_record: the import, the class and its metadata, then register.
LoadPlugin ==
    /\ Doing("load")
    /\ LET file == user.files[This.of]
       IN IF file.fault # "none" THEN Raise(file.fault) /\ UNCHANGED plugins
          ELSE /\ Begin(file.name)
               /\ Then(file.register \o <<[do |-> "validate"]>> \o Publications)
    /\ UNCHANGED <<config, environment, ghosts>> /\ ByUser

\* A plugin may catch what register_command raises and go on.
StageCall ==
    /\ Doing("stage")
    /\ IF ~Refuses(This) THEN Stage(This) /\ Then(<<>>)
       ELSE /\ UNCHANGED plugins
            /\ IF This.catches THEN Then(<<>>) ELSE Raise("error")
    /\ UNCHANGED <<config, environment, ghosts>> /\ ByUser

Validate ==
    /\ Doing("validate")
    /\ IF Conflicts THEN Raise("error") ELSE Then(<<>>)
    /\ UNCHANGED <<config, plugins, environment, ghosts>> /\ ByUser

PublishTable ==
    /\ Doing("publish")
    /\ Publish(This.key)
    /\ told' = IF This.key = "env" THEN told \o [i \in DOMAIN bundle.hooks.env |-> environ] ELSE told
    /\ Then(<<>>)
    /\ UNCHANGED <<config, environment, found, said, behind>> /\ ByUser

\* run_startup_hooks, run_shutdown_hooks
Run(kind) ==
    FlattenSeq([i \in DOMAIN hooks[kind] |->
                   <<[do |-> "run", key |-> kind, of |-> i]>> \o hooks[kind][i].body
                       \o <<EndOf("plugin hook")>>])

RunHook ==
    /\ Doing("run")
    /\ said' = [said EXCEPT ![This.key] = Append(@, This.of)]
    /\ Then(<<>>)
    /\ UNCHANGED <<config, plugins, environment, told, found, behind>> /\ ByUser

\* The code behind a name in the tables: what its owner's register gave first.
Handler(slot) ==
    LET file  == CHOOSE i \in DOMAIN records : records[i] = "loaded" /\ user.files[i].name = slot[3]
        calls == user.files[file].register
        given == {c \in DOMAIN calls : /\ calls[c].do = "stage"
                                       /\ calls[c].key = slot[1] /\ calls[c].value = slot[2]}
    IN calls[CHOOSE c \in given : \A d \in given : c <= d].body

Contained(body) == body \o <<EndOf("plugin hook")>>

\* run_command: a failure is the command's status; a name no plugin has is no command of theirs.
InvokeCommand ==
    /\ Doing("invoke")
    /\ LET own == {s \in slots : s[1] = "command" /\ s[2] = This.value}
       IN Then(IF own = {} THEN <<>> ELSE Contained(Handler(CHOOSE s \in own : TRUE)))
    /\ UNCHANGED <<config, plugins, environment, ghosts>> /\ ByUser

\* prompt_segments, before a line is read: those that fail are left out.
Rendering ==
    LET segments == SetToSeq({s \in slots : s[1] = "segment"})
    IN IF segments = <<>> THEN <<>>
       ELSE FlattenSeq([i \in DOMAIN segments |-> Contained(Handler(segments[i]))])
                \o <<EndOf("prompt")>>

(***************************************************************************)
(* The session.                                                            *)
(***************************************************************************)
Phase(name) == [do |-> "phase", key |-> name]

\* Nothing changes the files meanwhile, so what they come to is known at once.
Declaring(docs) == <<[do |-> "declare", config |-> MergeDocuments(Files(docs))]>>

\* _load_user_startup_configuration; with --no-rc none of it.
Startup(u) ==
    (IF u.norc THEN <<>>
     ELSE File(u.rc, "rc file")
          \o FlattenSeq([i \in DOMAIN u.dropins |-> File(u.dropins[i], "drop-in")])
          \o Declaring(u.docs) \o <<Phase("configure")>> \o <<Phase("discover")>>
          \o <<Phase("user hooks")>> \o <<Phase("plugin hooks")>>)
        \o <<Phase("prompt")>>

Init ==
    /\ user \in Users
    /\ InitConfig /\ InitPlugins /\ InitEnvironment(user.environ)
    /\ stage = "starting" /\ work = Startup(user)
    /\ loopvars = [n \in Name |-> Unset] /\ startupHooks = <<>> /\ dispatching = FALSE
    /\ lines = 0 /\ interrupts = 0
    /\ told = <<>> /\ found = Unset /\ said = [startup |-> <<>>, shutdown |-> <<>>]
    /\ behind = {}

InPhase(name) == Doing("phase") /\ This.key = name

\* _safe_apply: what a setter raises is one more diagnostic.
Safely(calls) == FlattenSeq([i \in DOMAIN calls |-> <<calls[i], EndOf("safely")>>])

LoadDeclarative ==
    /\ Doing("declare")
    /\ LET c == This.config names == SetToSeq(Name \cap DOMAIN c.env)
       IN /\ Know(c)
          /\ Then(Safely(Applying(c) \o [i \in DOMAIN names |-> put(names[i], c.env[names[i]])]))
    /\ UNCHANGED <<plugins, environment, ghosts>> /\ ByUser

LoadPython ==
    /\ InPhase("configure")
    /\ Then(user.configure \o <<EndOf("configure")>>)
    /\ UNCHANGED <<config, plugins, environment, ghosts>> /\ ByUser

DiscoverPlugins ==
    /\ InPhase("discover")
    /\ Discover(user.files)
    /\ Then(Loading(user.files))
    /\ UNCHANGED <<config, environment, ghosts>> /\ ByUser

RunStartupHooks ==
    /\ \/ /\ InPhase("user hooks")
          /\ Then(FlattenSeq([i \in DOMAIN startupHooks |-> startupHooks[i] \o <<EndOf("user hook")>>]))
       \/ /\ InPhase("plugin hooks")
          /\ Then(Run("startup"))
    /\ UNCHANGED <<config, plugins, environment, ghosts>> /\ ByUser

StartPrompt ==
    /\ InPhase("prompt")
    /\ stage' = "prompt"
    /\ work' = Tail(work)
    /\ UNCHANGED <<config, plugins, environment, dispatching, ghosts>> /\ ByUser

\* The prompt is written and a line is typed; the finally clause of run is at its end.
TypeLine ==
    /\ stage = "prompt" /\ work = <<>> /\ lines < MaxLines
    /\ lines' = lines + 1
    /\ \E call \in user.lines : work' = Rendering \o <<call, EndOf("typed")>>
    /\ UNCHANGED <<config, plugins, environment, user, stage, loopvars, startupHooks, dispatching,
                   interrupts, ghosts>>

Closing == Run("shutdown") \o <<[do |-> "save"]>>

\* Ctrl+D
EndOfInput ==
    /\ stage = "prompt" /\ work = <<>>
    /\ stage' = "closing" /\ work' = Closing
    /\ UNCHANGED <<config, plugins, environment, dispatching, ghosts>> /\ ByUser

\* The end of a frame, after an exception or without one.
EndFrame ==
    /\ Doing("end")
    /\ IF This.frame = "register" THEN Recorded(This.of, This.raised) ELSE UNCHANGED plugins
    /\ dispatching' = (dispatching /\ This.frame # "dispatch")
    /\ IF This.frame = "typed" /\ This.raised
       THEN stage' = "closing" /\ work' = Closing
       ELSE IF This.frame = "prompt" /\ This.raised THEN stage' = stage /\ work' = <<>>
       ELSE stage' = stage /\ work' = Tail(work)
    /\ UNCHANGED <<config, environment, ghosts>> /\ ByUser

\* _save_history and the end of run
Save ==
    /\ Doing("save")
    /\ stage' = "ended" /\ work' = <<>>
    /\ UNCHANGED <<config, plugins, environment, dispatching, ghosts>> /\ ByUser

\* Ctrl+C while something runs; the parts of one publication are tables of their
\* own, and it may come between them.
Publishing == Doing("publish") \/ (Doing("end") /\ This.frame = "register" /\ ~This.raised)

\* The options that the shell has and the engine is about to be told of
Untold == IF Doing("tell") THEN This.keys ELSE {}

CtrlC ==
    /\ work # <<>> /\ interrupts < MaxInterrupts
    /\ ~WhilePublishing => ~Publishing
    /\ interrupts' = interrupts + 1
    /\ Raise("quit")
    /\ behind' = behind \cup Untold
    /\ UNCHANGED <<config, plugins, environment, user, loopvars, startupHooks, lines,
                   told, found, said>>

Step ==
    \/ BeginFile \/ RunIf \/ RunFor \/ SetLoopvar \/ RunWhile
    \/ Configure \/ TellEngine \/ RefuseSetting \/ RegisterHook \/ EnablePlugin \/ Throw
    \/ PutVariable \/ Notice \/ AssignVariable \/ ExportVariable
    \/ SourceFile \/ Activate \/ Deactivate \/ PutLocalsBack \/ ImportProfile
    \/ LoadPlugin \/ StageCall \/ Validate \/ PublishTable \/ RunHook \/ InvokeCommand
    \/ LoadDeclarative \/ LoadPython \/ DiscoverPlugins \/ RunStartupHooks \/ StartPrompt
    \/ EndFrame \/ Save

Next == Step \/ TypeLine \/ EndOfInput \/ CtrlC

Spec     == Init /\ [][Next]_vars
FairSpec == Spec /\ WF_vars(Step)

(***************************************************************************)
(* Properties.                                                             *)
(***************************************************************************)
\* The history engine works with the options that the shell shows: but for those of
\* which a Ctrl+C kept the shell from telling it, until they are set again.
EngineFollows ==
    \A k \in HistoryOption : engine[k] # options[k] => k \in behind \cup Untold

\* Whoever asks, files, ~/.pyshrc.py or commands, and wherever a request fails or is
\* interrupted half way: what is in force is valid and known, the history engine
\* follows it, and after the files are applied they are in force in their order,
\* inheritance included.
Configured ==
    /\ InForce /\ EngineFollows
    /\ InPhase("configure") => LastFileWins(Files(user.docs))

\* A plugin is published whole or not at all, and only with permission; none is
\* while the configuration that decides about it is still read.
PluginsPublishedWhole ==
    /\ PluginsWhole(user.files)
    /\ (\E i \in DOMAIN work : work[i].do = "phase" /\ work[i].key = "discover")
          => slots = {} /\ hooks = NoHooks

\* The variables that some environment hook writes itself.
WrittenAside ==
    {n \in Name : \E i \in DOMAIN user.files : \E c \in Range(user.files[i].register) :
        c.do = "stage" /\ c.key = "env" /\ \E d \in Range(c.body) : d.do = "put" /\ d.key = n}

\* What an environment hook was told last of a variable is its value, for all
\* variables that no hook writes itself, and the old value it is told is the one it
\* knew (notify_env_change); hooks are not run within hooks.  A variable that the
\* `for` of an rc file or a sourced file has written since is excepted:
\* _run_for_block assigns to os.environ itself, which no hook is told of.
HooksInformed ==
    /\ \A i, j \in DOMAIN work :
          IsEnd(work[i], "dispatch") /\ IsEnd(work[j], "dispatch") => i = j
    /\ interrupts = 0 /\ ~dispatching =>
          \A h \in DOMAIN told, n \in Name \ WrittenAside : told[h][n] \in {environ[n], Aside}
    /\ interrupts = 0 /\ Doing("notice") /\ This.key \notin WrittenAside =>
          told[This.hook][This.key] \in {This.old, Aside}

\* Deactivation puts back exactly what the first activation found.
VenvRestored == [][snapshot # Unset /\ snapshot' = Unset => Restored(found)']_vars

\* A line that runs plugin code, hooks included, ends the session by Ctrl+C only.
PluginsContained ==
    \A i \in DOMAIN work : IsEnd(work[i], "typed") /\ work[i].raised =>
        interrupts > 0 \/ \E c \in user.lines : c.do \notin {"invoke", "put"}

\* A hook's failure is its own, and a command's, but for Ctrl+C: no hook of a plugin
\* ends a session, or cuts its end short.  No hook is run twice; without Ctrl+C each
\* hook of startup was run before the first prompt, and each hook of shutdown at
\* the end, whatever ended the session.
HooksInTurn ==
    /\ PluginsContained
    /\ stage = "cut" => interrupts > 0
    /\ stage = "failed" /\ interrupts = 0 => said.startup = <<>>
    /\ stage \in {"starting", "prompt", "failed"} => said.shutdown = <<>>
    /\ \A kind \in {"startup", "shutdown"} : \A i, j \in DOMAIN said[kind] : i < j => said[kind][i] < said[kind][j]
    /\ interrupts = 0 =>
          /\ stage \in {"prompt", "closing", "ended"} => said.startup = [i \in DOMAIN hooks.startup |-> i]
          /\ stage = "ended" => said.shutdown = [i \in DOMAIN hooks.shutdown |-> i]

\* Of the user's own code, only a block of ~/.pyshrc that is not closed, or a startup
\* hook that exits, ends a session without its prompt.
HooksRunOnce ==
    /\ HooksInTurn
    /\ stage = "failed" =>
          \/ interrupts > 0
          \/ \E c \in Range(user.rc) : c.do = "unclosed"
          \/ \E h \in Range(startupHooks) : \E c \in Range(h) : c = Call("raise", "quit")

\* Startup, every line and the end come to their end, rc loops and hooks that
\* change what they are told of included.
EveryCallReturns == work # <<>> ~> work = <<>>
=============================================================================
