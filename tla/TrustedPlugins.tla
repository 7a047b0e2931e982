--------------------------- MODULE TrustedPlugins ---------------------------
(***************************************************************************)
(* The trusted plugins (plugins/manager.py, registry.py, loader.py): which *)
(* of the files found may run, and what a plugin's register call leaves in *)
(* the tables of the shell.  A plugin registers into a bundle of its own;  *)
(* the bundle is published, table by table, when register has returned.    *)
(*                                                                         *)
(* A file is a record: its name, whether it belongs to the project, whether*)
(* it is a well-formed plugin, and the calls its register makes.           *)
(***************************************************************************)
EXTENDS Naturals, SequencesExt

CONSTANTS
    Builtin,    \* names of the shell's own commands
    BadName     \* a name that is no identifier

VARIABLES
    enabled,    \* names enabled in ~/.pyshrc.py
    allowed,    \* whether files of the project may run
    records,    \* [file -> "discovered", "disabled", "failed" or "loaded"]
    slots,      \* commands, completers and prompt segments: <<kind, name, plugin>>
    hooks,      \* [kind of hook -> sequence of [plugin, body]]
    bundle      \* what the plugin that registers has staged, <<>> if none does

plugins == <<enabled, allowed, records, slots, hooks, bundle>>

SlotKinds == <<"command", "completer", "segment">>
HookKinds == <<"startup", "shutdown", "env">>

NoHooks == [k \in Range(HookKinds) |-> <<>>]

InitPlugins ==
    /\ enabled = {} /\ allowed = FALSE /\ records = <<>>
    /\ slots = {} /\ hooks = NoHooks /\ bundle = <<>>

(***************************************************************************)
(* Enablement.                                                             *)
(***************************************************************************)
Enable(name) ==
    /\ enabled' = enabled \cup {name}
    /\ UNCHANGED <<allowed, records, slots, hooks, bundle>>

Disable(name) ==
    /\ enabled' = enabled \ {name}
    /\ UNCHANGED <<allowed, records, slots, hooks, bundle>>

Allow ==
    /\ allowed' = TRUE
    /\ UNCHANGED <<enabled, records, slots, hooks, bundle>>

(***************************************************************************)
(* Discovery.  The files of the user come before those of the project.     *)
(***************************************************************************)
\* variant: a name that is enabled is enough
PermittedByName(file) == file.name \in enabled

Permitted(file) == file.name \in enabled /\ (file.project => allowed)

\* enabled_records
Verdict(files, i) ==
    IF files[i].name = BadName THEN "failed"
    ELSE IF ~Permitted(files[i]) THEN "disabled"
    ELSE IF \E j \in 1..(i - 1) : files[j].name = files[i].name /\ Permitted(files[j])
         THEN "failed"
    ELSE "discovered"

Discover(files) ==
    /\ records' = [i \in DOMAIN files |-> Verdict(files, i)]
    /\ UNCHANGED <<enabled, allowed, slots, hooks, bundle>>

(***************************************************************************)
(* Registration of one plugin.                                             *)
(***************************************************************************)
\* begin_registration
Begin(name) ==
    /\ bundle' = [plugin |-> name, slots |-> {}, hooks |-> NoHooks]
    /\ UNCHANGED <<enabled, allowed, records, slots, hooks>>

\* PluginAPI: what is registered under a name needs a valid one.
Registrable(call) == call.key \in Range(SlotKinds) => call.value # BadName

\* stage_command, stage_completer, stage_prompt_segment raise for a name of the
\* shell's, and for one that is staged already.
Refuses(call) ==
    /\ call.key \in Range(SlotKinds)
    /\ \/ ~Registrable(call)
       \/ call.key = "command" /\ call.value \in Builtin
       \/ <<call.key, call.value>> \in bundle.slots

Stage(call) ==
    /\ bundle' = IF call.key \in Range(HookKinds)
                 THEN [bundle EXCEPT !.hooks[call.key] =
                          Append(@, [plugin |-> bundle.plugin, body |-> call.body])]
                 ELSE [bundle EXCEPT !.slots = @ \cup {<<call.key, call.value>>}]
    /\ UNCHANGED <<enabled, allowed, records, slots, hooks>>

\* _validate_bundle_commit
Conflicts ==
    \E s \in bundle.slots :
        \/ s[1] = "command" /\ s[2] \in Builtin
        \/ \E t \in slots : <<t[1], t[2]>> = s

\* commit_registration_bundle, one table after the other.
Publish(kind) ==
    /\ IF kind \in Range(HookKinds)
       THEN /\ hooks' = [hooks EXCEPT ![kind] = @ \o bundle.hooks[kind]]
            /\ UNCHANGED slots
       ELSE /\ slots' = slots \cup {<<s[1], s[2], bundle.plugin>> :
                                       s \in {b \in bundle.slots : b[1] = kind}}
            /\ UNCHANGED hooks
    /\ UNCHANGED <<enabled, allowed, records, bundle>>

\* The end of load_plugin_record, after an exception or without one.
Recorded(i, raised) ==
    /\ records' = [records EXCEPT ![i] = IF raised THEN "failed" ELSE "loaded"]
    /\ bundle' = <<>>
    /\ UNCHANGED <<enabled, allowed, slots, hooks>>

(***************************************************************************)
(* Properties.                                                             *)
(***************************************************************************)
\* What a plugin's register stages if it runs to its end.
Offers(file) == {<<c.key, c.value, file.name>> : c \in
                    {d \in Range(file.register) : /\ d.do = "stage" /\ d.key \in Range(SlotKinds)
                                                  /\ Registrable(d)
                                                  /\ ~(d.key = "command" /\ d.value \in Builtin)}}
HooksOffered(file, kind) ==
    FlattenSeq([c \in DOMAIN file.register |->
                   IF file.register[c].do = "stage" /\ file.register[c].key = kind
                   THEN <<[plugin |-> file.name, body |-> file.register[c].body]>> ELSE <<>>])

\* Between two plugins: a plugin has published everything it registered, its hooks
\* in their order and behind those of the plugins before it, or nothing.  What is
\* in the tables belongs to loaded plugins, one owner for each name and none of
\* the shell's; a plugin of the project runs only if the user allowed it, and no
\* two files of a name do.
PluginsWhole(files) ==
    bundle = <<>> =>
        /\ slots = UNION {Offers(files[i]) : i \in {j \in DOMAIN records : records[j] = "loaded"}}
        /\ \A kind \in Range(HookKinds) :
              hooks[kind] = FlattenSeq([i \in DOMAIN records |->
                                IF records[i] = "loaded" THEN HooksOffered(files[i], kind) ELSE <<>>])
        /\ \A i, j \in DOMAIN records :
              records[i] = "loaded" /\ records[j] = "loaded" /\ files[i].name = files[j].name => i = j
        /\ \A s, t \in slots : <<s[1], s[2]>> = <<t[1], t[2]>> => s = t
        /\ \A s \in slots : s[1] = "command" => s[2] \notin Builtin
        /\ \A i \in DOMAIN records : records[i] = "loaded" =>
              files[i].name \in enabled /\ (files[i].project => allowed)
=============================================================================
