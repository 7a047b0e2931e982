--------------------------- MODULE Configuration ---------------------------
(***************************************************************************)
(* The configuration of a shell: config/schema.py merges the TOML files,   *)
(* config/profiles.py and themes.py resolve inheritance, config/api.py     *)
(* validates, and the configuration surface of core/shell.py applies.      *)
(*                                                                         *)
(* A setting is an option of the sections prompt, editor, completion and   *)
(* history, or a colour; its values are the ones its validator accepts and *)
(* Wrong, one that it rejects.  A table is a profile or a theme of a file. *)
(***************************************************************************)
EXTENDS Naturals, FiniteSets, SequencesExt

CONSTANTS
    Choice, Limit, Palette,      \* accepted values: options, history, colours
    Wrong, None,
    Option, HistoryOption, Color,
    Default,                     \* [Setting -> accepted values]
    BuiltinProfile, BuiltinTheme,   \* [name -> table]
    ProfileNames, ThemeNames,    \* all names, in the order of the tables
    Pack,                        \* [known pack -> the aliases it defines]
    AliasName,
    OptionOrder, ColorOrder,     \* all options and all colours, in order
    InTemplate                   \* the settings that the generated file mentions

Setting == Option \cup Color

ASSUME SettingAssumption ==
    /\ HistoryOption \subseteq Option /\ Option \cap Color = {}
    /\ Wrong \notin Choice \cup Limit \cup Palette \cup {None}
    /\ OptionOrder \in Seq(Option) /\ Range(OptionOrder) = Option
    /\ ColorOrder \in Seq(Color) /\ Range(ColorOrder) = Color
    /\ IsFiniteSet(AliasName)

VARIABLES
    options,    \* prompt_options, editor_options, ..., highlight_colors
    engine,     \* what the history engine was told
    active,     \* active_profile and active_theme
    known,      \* config_profiles and config_themes
    aliases

config == <<options, engine, active, known, aliases>>

(***************************************************************************)
(* Validation (api.py).                                                    *)
(***************************************************************************)
AcceptsOption(v)  == v \in Choice
AcceptsHistory(v) == v \in Limit
AcceptsColor(v)   == v \in Palette

Accepts(k, v) ==
    IF k \in Color THEN AcceptsColor(v)
    ELSE IF k \in HistoryOption THEN AcceptsHistory(v) ELSE AcceptsOption(v)

ASSUME DefaultAssumption == DOMAIN Default = Setting /\ \A k \in Setting : Accepts(k, Default[k])

ASSUME TableAssumption ==
    /\ "default" \in DOMAIN BuiltinProfile /\ "default" \in DOMAIN BuiltinTheme
    /\ ProfileNames \in Seq(Range(ProfileNames)) /\ DOMAIN BuiltinProfile \subseteq Range(ProfileNames)
    /\ ThemeNames \in Seq(Range(ThemeNames)) /\ DOMAIN BuiltinTheme \subseteq Range(ThemeNames)
    /\ \A p \in DOMAIN Pack : DOMAIN Pack[p] \subseteq AliasName

(***************************************************************************)
(* Merging the files.  A file is a record of what it sets: None for what it *)
(* does not mention, Wrong for what its validator rejects.                  *)
(***************************************************************************)
NoTable == [n \in {} |-> None]

Nothing ==
    [profile |-> None, theme |-> None, set |-> [k \in Setting |-> None],
     packs |-> <<>>, alias |-> [a \in AliasName |-> None],
     env |-> NoTable, profiles |-> NoTable, themes |-> NoTable,
     errors |-> {}]

\* A table, and what another one says where it says nothing.
Over(new, old) == [n \in DOMAIN new \cup DOMAIN old |-> IF n \in DOMAIN new THEN new[n] ELSE old[n]]

\* _merge_active, _merge_options, _merge_colors, _merge_aliases: an accepted
\* value replaces the earlier one, a rejected one is a diagnostic.
Later(old, new) == IF new \in {None, Wrong} THEN old ELSE new

MergeSettings(old, new) == [k \in DOMAIN new |-> Later(old[k], new[k])]

Rejected(section, values) ==
    {<<section, k>> : k \in {j \in DOMAIN values : values[j] = Wrong}}

Errors(doc) ==
    Rejected("active", [profile |-> doc.profile, theme |-> doc.theme])
        \cup Rejected("set", doc.set) \cup Rejected("alias", doc.alias)

\* _merge_user_profiles, _merge_user_themes: a table is kept whatever its
\* options are; its diagnostics name the table.
MergeTables(old, new) == Over(new, old)

\* _merge_env, for values that are strings.
MergeEnv(old, new) == Over(new, old)

MergeDocument(c, doc) ==
    [profile  |-> Later(c.profile, doc.profile),
     theme    |-> Later(c.theme, doc.theme),
     set      |-> MergeSettings(c.set, doc.set),
     packs    |-> IF doc.packs = None THEN c.packs ELSE doc.packs,
     alias    |-> MergeSettings(c.alias, doc.alias),
     env      |-> MergeEnv(c.env, doc.env),
     profiles |-> MergeTables(c.profiles, doc.profiles),
     themes   |-> MergeTables(c.themes, doc.themes),
     errors   |-> c.errors \cup Errors(doc)]

(***************************************************************************)
(* Inheritance.  The tables are resolved in their order, and with a table   *)
(* all that it inherits from and that is not resolved yet.                  *)
(***************************************************************************)
\* _merge_profile, _merge_theme: the table's own values over those of its base.
MergeTable(base, own) ==
    [theme |-> IF own.theme = None THEN base.theme ELSE own.theme,
     set   |-> [k \in Setting |-> IF own.set[k] = None THEN base.set[k] ELSE own.set[k]]]

Bare == [theme |-> None, set |-> [k \in Setting |-> None]]

\* The names resolve() descends through from name: down to a table without a
\* base, a name that is done or unknown, or one that is being visited.
Line(name, tables, done) ==
    LET Base(n) == tables[n].base
        GoesOn(s) == /\ Base(Last(s)) \in DOMAIN tables
                     /\ Base(Last(s)) \notin DOMAIN done \cup Range(s)
        step[i \in 0..Cardinality(DOMAIN tables)] ==
            IF i = 0 THEN <<name>>
            ELSE LET s == step[i - 1] IN IF GoesOn(s) THEN Append(s, Base(Last(s))) ELSE s
    IN step[Cardinality(DOMAIN tables)]

Resolve(name, tables, done) ==
    LET line == Line(name, tables, done)
        last == tables[Last(line)].base
        top  == IF last \in DOMAIN done THEN done[last] ELSE Bare
        Below(i) == FoldRight(LAMBDA n, b : MergeTable(b, tables[n]),
                              SubSeq(line, i, Len(line)), top)
    IN Over([n \in Range(line) |-> Below(CHOOSE i \in DOMAIN line : line[i] = n)], done)

ResolveAll(tables, order) ==
    FoldLeft(LAMBDA done, n : IF n \in DOMAIN tables \ DOMAIN done
                              THEN Resolve(n, tables, done) ELSE done,
             [n \in {} |-> Bare], order)

\* resolve_profiles: a profile of a file replaces the built-in one of its name.
Profiles(user) == ResolveAll(Over(user, BuiltinProfile), ProfileNames)

\* resolve_themes: a theme of a file only if it says override = true.
Themes(user) ==
    LET ours == {t \in DOMAIN user : t \notin DOMAIN BuiltinTheme \/ user[t].override}
    IN ResolveAll(Over([t \in ours |-> user[t]], BuiltinTheme), ThemeNames)

\* load_declarative_config: a file that is missing, too large, unreadable or not
\* TOML (load_toml_file) has no part in the configuration.
WithDocument(c, doc) == IF doc = None THEN c ELSE MergeDocument(c, doc)

\* merge_toml_documents: the names that are used must be known.
MergeDocuments(docs) ==
    LET c  == FoldLeft(WithDocument, Nothing, docs)
        ps == Profiles(c.profiles)
        ts == Themes(c.themes)
    IN [c EXCEPT !.profiles = ps, !.themes = ts,
                 !.errors = @ \cup
                     {e \in {<<"active", "profile">>} : c.profile \notin {None} \cup DOMAIN ps} \cup
                     {e \in {<<"active", "theme">>} : c.theme \notin {None} \cup DOMAIN ts} \cup
                     {e \in {<<"packs", "enabled">>} : ~Range(c.packs) \subseteq DOMAIN Pack}]

(***************************************************************************)
(* The setters.  A setter that calls others answers with the calls.         *)
(***************************************************************************)
InitConfig ==
    /\ options = Default /\ engine = [k \in HistoryOption |-> Default[k]]
    /\ active = [profile |-> "default", theme |-> "default"]
    /\ known = [profiles |-> Profiles(NoTable), themes |-> Themes(NoTable)]
    /\ aliases = [a \in AliasName |-> None]

Call(what, value)  == [do |-> what, value |-> value]
SettingCall(k, v)     == [do |-> "option", key |-> k, value |-> v]
AliasCall(a, v)    == [do |-> "alias", key |-> a, value |-> v]

\* What a setter refuses, with an exception, before it does anything.
Raises(call) ==
    CASE call.do = "option"  -> ~Accepts(call.key, call.value)
      [] call.do = "profile" -> call.value \notin DOMAIN known.profiles
      [] call.do = "theme"   -> call.value \notin DOMAIN known.themes
      [] call.do = "pack"    -> call.value \notin DOMAIN Pack
      [] OTHER -> FALSE

\* variant: the engine goes on with what it was started with
EngineKeeps(k) == engine

\* The history engine is told of an option of its own, once the shell has it.
EngineTold(k) == [engine EXCEPT ![k] = options[k]]

Telling(keys) == IF keys = {} THEN <<>> ELSE <<[do |-> "tell", keys |-> keys]>>

\* set_prompt_option, ..., set_highlight_color
SetOption(k, v) ==
    /\ options' = [options EXCEPT ![k] = v]
    /\ UNCHANGED <<engine, active, known, aliases>>

\* What is given of some settings, one call each.
SettingCalls(set, keys) ==
    FlattenSeq([i \in DOMAIN keys |-> IF set[keys[i]] = None THEN <<>>
                                      ELSE <<SettingCall(keys[i], set[keys[i]])>>])

SetTheme(name) ==
    /\ active' = [active EXCEPT !.theme = name]
    /\ UNCHANGED <<options, engine, known, aliases>>

ThemeCalls(name) == SettingCalls(known.themes[name].set, ColorOrder)

SetProfile(name) ==
    /\ active' = [active EXCEPT !.profile = name]
    /\ UNCHANGED <<options, engine, known, aliases>>

ProfileCalls(name) ==
    LET p == known.profiles[name]
    IN (IF p.theme \in DOMAIN known.themes THEN <<Call("theme", p.theme)>> ELSE <<>>)
           \o SettingCalls(p.set, OptionOrder)

\* The alias builtin, and the call of ~/.pyshrc.py.
Aliasing(call) == [a \in {call.key} |-> call.value]

\* unalias
RemoveAlias(name) ==
    /\ aliases' = [aliases EXCEPT ![name] = None]
    /\ UNCHANGED <<options, engine, active, known>>

\* load_alias_pack, register_alias
SetAliases(new) ==
    /\ aliases' = Over(new, aliases)
    /\ UNCHANGED <<options, engine, active, known>>

\* reset_config, part by part
Section(k) == IF k \in HistoryOption THEN "history" ELSE IF k \in Color THEN "colors" ELSE "prompt"

ResetCalls(target) ==
    LET parts == IF target = "all" THEN <<"profile", "theme", "prompt", "history", "colors", "aliases">>
                                   ELSE <<target>>
    IN [i \in DOMAIN parts |-> Call("restore", parts[i])]

Restore(part) ==
    /\ options' = [k \in Setting |-> IF Section(k) = part THEN Default[k] ELSE options[k]]
    /\ active' = [profile |-> IF part = "profile" THEN "default" ELSE active.profile,
                  theme   |-> IF part = "theme" THEN "default" ELSE active.theme]
    /\ aliases' = IF part = "aliases" THEN [a \in AliasName |-> None] ELSE aliases
    /\ UNCHANGED <<engine, known>>

\* A config_ builtin refuses an unknown name with a status; only what a setter
\* raises after that leaves the command.
Refused(call) == call.do \in {"profile", "theme", "pack"} /\ Raises(call)

(***************************************************************************)
(* The TOML files, from loading to applying: config/runtime.py.            *)
(***************************************************************************)
\* ensure_default_toml_config: a user without a file is given one, which says
\* what is the default anyway.
Template ==
    [Nothing EXCEPT !.profile = "default", !.theme = "default",
                    !.set = [k \in Setting |-> IF k \in InTemplate THEN Default[k] ELSE None]]

Files(docs) == IF docs = <<>> THEN <<Template>> ELSE docs

\* apply_declarative_config, the tables; the rest are calls.
Know(c) ==
    /\ known' = [profiles |-> c.profiles, themes |-> c.themes]
    /\ UNCHANGED <<options, engine, active, aliases>>

\* apply_config: profile, theme, options, colours, packs, aliases, each unless
\* there is an error under its name, whichever file it is in.
Applying(c) ==
    LET Free(section, key) == <<section, key>> \notin c.errors
        set   == [k \in Setting |-> IF Free("set", k) THEN c.set[k] ELSE None]
        names == SetToSeq({a \in AliasName : c.alias[a] # None /\ Free("alias", a)})
    IN (IF c.profile # None /\ Free("active", "profile") THEN <<Call("profile", c.profile)>> ELSE <<>>)
       \o (IF c.theme # None /\ Free("active", "theme") THEN <<Call("theme", c.theme)>> ELSE <<>>)
       \o SettingCalls(set, OptionOrder \o ColorOrder)
       \o (IF Free("packs", "enabled")
           THEN [i \in DOMAIN c.packs |-> Call("pack", c.packs[i])] ELSE <<>>)
       \o [i \in DOMAIN names |-> AliasCall(names[i], c.alias[names[i]])]

(***************************************************************************)
(* Properties.                                                             *)
(***************************************************************************)
\* Whatever the files, ~/.pyshrc.py and the commands have asked for, also by a
\* profile that fails half way: what is in force has passed its validator, and the
\* active profile and theme are known.
InForce ==
    /\ DOMAIN options = Setting /\ DOMAIN engine = HistoryOption /\ DOMAIN aliases = AliasName
    /\ active.profile \in DOMAIN known.profiles /\ active.theme \in DOMAIN known.themes
    /\ \A k \in Setting : Accepts(k, options[k])

Said(docs, f(_)) == {i \in DOMAIN docs : docs[i] # None /\ f(docs[i]) # None}

\* What the last file to mention it says.
LastWord(docs, f(_)) ==
    LET said == Said(docs, f)
    IN IF said = {} THEN None ELSE f(docs[CHOOSE i \in said : \A j \in said : j <= i])

NeverWrong(docs, f(_)) == \A i \in Said(docs, f) : f(docs[i]) # Wrong

\* A table and its ancestors up to one that has no known base.
Ancestors(tables, name) ==
    LET up[i \in 0..Cardinality(DOMAIN tables)] ==
            IF i = 0 THEN <<name>>
            ELSE LET s == up[i - 1] b == tables[Last(s)].base
                 IN IF b \in DOMAIN tables THEN Append(s, b) ELSE s
    IN up[Cardinality(DOMAIN tables)]

\* The nearest ancestor's word, None if none speaks.
Inherited(tables, name, k) ==
    LET line == Ancestors(tables, name)
        said == {i \in DOMAIN line : tables[line[i]].set[k] # None}
    IN IF said = {} THEN None ELSE tables[line[CHOOSE i \in said : \A j \in said : i <= j]].set[k]

\* After the files were applied: a setting that no file gets wrong is what the
\* last file to mention it says; and an option that no file mentions is what the
\* profile that the files activate, or the nearest of its ancestors, says.
LastFileWins(docs) ==
    LET Word(k) == LastWord(docs, LAMBDA d : d.set[k])
        profile == LastWord(docs, LAMBDA d : d.profile)
        tables  == FoldLeft(LAMBDA t, d : IF d = None THEN t ELSE Over(d.profiles, t), BuiltinProfile, docs)
        Straight(n) == IsInjective(Ancestors(tables, n))
        Clean(n) == \A m \in Range(Ancestors(tables, n)) :
                        /\ \A k \in Option : tables[m].set[k] # Wrong
                        /\ tables[m].theme = None
    IN /\ \A k \in Setting :
            NeverWrong(docs, LAMBDA d : d.set[k]) /\ Word(k) # None => options[k] = Word(k)
       /\ (/\ profile \in DOMAIN tables /\ NeverWrong(docs, LAMBDA d : d.profile)
           /\ Straight(profile) /\ Clean(profile)) =>
              \A k \in Option :
                  (\A i \in DOMAIN docs : docs[i] # None => docs[i].set[k] = None)
                      /\ Inherited(tables, profile, k) # None
                  => options[k] = Inherited(tables, profile, k)
=============================================================================
