----------------------------- MODULE SessionMC -----------------------------
(***************************************************************************)
(* Sessions of small size.  Each user is rich in one respect: the TOML     *)
(* files, the rc files, the plugins, or the environment.                   *)
(***************************************************************************)
EXTENDS Session

MCChoice  == {"on", "off"}
MCLimit   == {"few", "many"}
MCPalette == {"red", "blue"}

MCOption        == {"layout", "max_length"}
MCHistoryOption == {"max_length"}
MCColor         == {"cwd"}
MCOptionOrder   == <<"layout", "max_length">>
MCColorOrder    == <<"cwd">>
MCInTemplate    == {"layout", "cwd"}
MCDefault == [layout |-> "off", max_length |-> "many", cwd |-> "red"]

NoValues == [k \in {"layout", "max_length", "cwd"} |-> None]
Values(l, m, c) == [layout |-> l, max_length |-> m, cwd |-> c]

ProfileOf(base, theme, l, m) ==
    [base |-> base, theme |-> theme, set |-> Values(l, m, None)]
ThemeOf(base, override, c) ==
    [base |-> base, theme |-> None, override |-> override, set |-> Values(None, None, c)]

MCBuiltinProfile ==
    [n \in {"default", "developer"} |->
        IF n = "default" THEN ProfileOf(None, None, None, None)
        ELSE ProfileOf("default", "dark", "on", None)]
MCBuiltinTheme ==
    [n \in {"default", "dark"} |->
        IF n = "default" THEN ThemeOf(None, FALSE, "red") ELSE ThemeOf("default", FALSE, "blue")]
MCProfileNames == <<"default", "developer", "mine", "ours">>
MCThemeNames   == <<"default", "dark", "night">>
MCPack      == [p \in {"git"} |-> [a \in {"g"} |-> "packed"]]
MCAliasName == {"g", "l"}

MCName == {"PATH", "PYTHONHOME", "VIRTUAL_ENV", "X"}
MCBuiltin == {"cd"}

Doc(profile, theme, set, profiles, themes) ==
    [profile |-> profile, theme |-> theme, set |-> set, packs |-> None, errors |-> {},
     alias |-> [a \in MCAliasName |-> None], env |-> NoTable,
     profiles |-> profiles, themes |-> themes]

Tables(mine, ours) == [n \in {"mine", "ours"} |-> IF n = "mine" THEN mine ELSE ours]

\* mine inherits from ours and ours from developer; a cycle; a profile that has a
\* value its validator rejects, after one that it accepts.
Chain == Tables(ProfileOf("ours", None, None, "few"), ProfileOf("developer", None, "off", "many"))
Cycle == Tables(ProfileOf("ours", None, "on", None), ProfileOf("mine", None, None, "few"))
Broken == Tables(ProfileOf("ours", None, "on", Wrong), ProfileOf(None, "night", None, "few"))

Nights == {NoTable, [n \in {"night"} |-> ThemeOf("dark", FALSE, None)],
           [n \in {"dark"} |-> ThemeOf("default", FALSE, Wrong)],
           [n \in {"dark"} |-> ThemeOf("default", TRUE, Wrong)]}

FirstDocs ==
    {Doc(p, None, Values(l, m, None), t, n) :
        p \in {None, "mine"}, l \in {None, "on"}, m \in {"few", Wrong},
        t \in {NoTable, Chain, Cycle, Broken}, n \in Nights}

SecondDocs ==
    {Doc(p, t, Values(l, None, None), NoTable, NoTable) :
        p \in {None, "developer", "lost"}, t \in {None, "dark"}, l \in {None, "off", Wrong}}
    \cup {[Doc(None, None, NoValues, NoTable, NoTable)
             EXCEPT !.packs = k, !.alias["g"] = "mine", !.env = [n \in {"X"} |-> <<"toml">>]] :
             k \in {<<"git">>, <<"git", "lost">>}}
    \cup {None}

Plain == [X |-> Unset, PATH |-> <<"bin">>, PYTHONHOME |-> Unset, VIRTUAL_ENV |-> Unset]

Nobody ==
    [norc |-> FALSE, rc |-> <<>>, dropins |-> <<>>, docs |-> <<>>, configure |-> <<>>,
     files |-> <<>>, lines |-> {}, environ |-> Plain]

OnStartup(body) == [do |-> "hook", body |-> body]
Error == Call("raise", "error")
Quit  == Call("raise", "quit")

ConfigLines ==
    {Call("profile", "mine"), Call("profile", "developer"), Call("profile", "lost"),
     Call("theme", "dark"), Call("theme", "night"), Call("reset", "all"), Call("reset", "history")}

\* Users with two files, and those whose ~/.pyshrc.py has its word.
WithDocs ==
    {[Nobody EXCEPT !.docs = <<a, b>>, !.lines = {Call("profile", "mine"), Call("reset", "all")}] :
        a \in FirstDocs, b \in SecondDocs}
    \cup {[Nobody EXCEPT !.docs = <<Doc(None, None, NoValues, t, n)>>, !.configure = c,
                         !.lines = ConfigLines] :
            t \in {NoTable, Cycle, Broken}, n \in Nights,
            c \in {<<>>, <<SettingCall("max_length", "few"), SettingCall("layout", Wrong), SettingCall("cwd", "blue")>>,
                   <<Call("profile", "lost"), Call("profile", "mine")>>,
                   <<OnStartup(<<Call("profile", "mine"), SettingCall("cwd", "blue")>>),
                     OnStartup(<<Call("pack", "git")>>)>>}}

Export(n, v) == put(n, v)
If(n, v, negate, body, else) ==
    [do |-> "if", test |-> [key |-> n, value |-> v, negate |-> negate], body |-> body, else |-> else]
While(n, v, negate, body) ==
    [do |-> "while", test |-> [key |-> n, value |-> v, negate |-> negate], body |-> body, count |-> 0]
For(n, items, body) == [do |-> "for", key |-> n, items |-> items, body |-> body]
AliasLine(a) == AliasCall(a, "typed")

Programs ==
    {<<>>, <<Error, Export("X", <<"a">>)>>, <<[do |-> "unclosed"], AliasLine("g")>>,
     <<For("X", <<<<"a">>, <<"b">>>>, <<If("X", <<"a">>, FALSE, <<AliasLine("g")>>, <<Error>>)>>),
       While("X", <<"a">>, TRUE, <<Export("X", <<"a">>)>>)>>,
     <<While("X", <<"a">>, TRUE, <<Export("X", <<"a">>), Call("profile", "developer")>>)>>,
     <<While("PATH", <<"bin">>, FALSE, <<Error>>), Call("profile", "lost")>>,
     <<[do |-> "export", key |-> "X"], [do |-> "activate", value |-> "v1"]>>}

WithRc ==
    {[Nobody EXCEPT !.rc = r, !.dropins = d, !.norc = n,
                    !.lines = {[do |-> "deactivate"], Error}] :
        r \in Programs, d \in {<<p, q>> : p, q \in Programs}, n \in {FALSE}}
    \cup {[Nobody EXCEPT !.rc = r, !.norc = TRUE] : r \in Programs}

Runs(kind, name, body) == [do |-> "stage", key |-> kind, value |-> name, catches |-> TRUE, body |-> body]
Stages(kind, name, catches) == [Runs(kind, name, <<>>) EXCEPT !.catches = catches]
Hook(kind, body) == [do |-> "stage", key |-> kind, body |-> body]

Registers ==
    {<<Stages("command", "hi", FALSE), Stages("completer", "hi", FALSE), Hook("shutdown", <<Quit>>)>>,
     <<Stages("command", "hi", TRUE), Stages("command", "cd", TRUE), Hook("env", <<>>)>>,
     <<Hook("startup", <<Error>>), Stages("segment", "s", FALSE), Stages("segment", "s", FALSE)>>,
     <<Stages("segment", "s", FALSE), Hook("shutdown", <<>>), Hook("startup", <<Export("X", <<"a">>)>>)>>,
     <<Hook("env", <<Error>>), Hook("startup", <<Quit>>), Error>>,
     <<Hook("env", <<Quit>>), Hook("shutdown", <<Error>>)>>}

PluginFile(name, project, fault, register) ==
    [name |-> name, project |-> project, fault |-> fault, register |-> register]

Enables == {<<Call("enable", "p"), Call("enable", "q")>>,
            <<Call("enable", "p"), Call("allow", "all"), Call("enable", "q")>>,
            <<Call("allow", "all"), Call("enable", "p"), Call("enable", "bad"), Call("enable", "q")>>,
            <<Call("enable", "p"), Call("enable", "q"), Call("disable", "p"), Quit>>,
            <<OnStartup(<<Quit>>), Call("enable", "p")>>,
            <<OnStartup(<<Error>>), Call("enable", "p"),
              OnStartup(<<Export("X", <<"h">>)>>)>>}

\* Two files of a name, or two plugins of which one may belong to the project.
WithPlugins ==
    {[Nobody EXCEPT !.files = <<PluginFile("p", FALSE, "none", a), PluginFile(o[1], o[2], "none", b)>>,
                    !.configure = c, !.lines = {Export("X", <<"b">>), Error}] :
        a, b \in Registers, o \in {<<"p", TRUE>>, <<"q", FALSE>>, <<"q", TRUE>>}, c \in Enables}
    \cup {[Nobody EXCEPT !.files = <<PluginFile("bad", FALSE, "none", b), PluginFile("p", FALSE, f, b)>>,
                         !.configure = c] :
            b \in Registers, f \in {"error", "quit"}, c \in Enables}

\* An environment hook that only listens, and one that changes another variable.
Listener == <<Hook("env", <<>>)>>
Flips    == <<Hook("env", <<Export("X", <<"a">>), Export("X", <<"b">>)>>), Hook("env", <<>>)>>

Source(name, whole, root, program) ==
    [do |-> "source", name |-> name, whole |-> whole, root |-> root, program |-> program]

WithVenvs ==
    {[Nobody EXCEPT !.files = <<PluginFile("p", FALSE, "none", r)>>, !.configure = <<Call("enable", "p")>>,
                    !.environ = e,
                    !.lines = {Source("activate", TRUE, "v1", <<>>), Source("activate", TRUE, "v2", <<>>),
                               Source("activate", FALSE, "v1", <<>>), Source("zsh", FALSE, "v1", <<>>),
                               Source("commands", FALSE, "v1",
                                      <<AliasLine("g"), Export("PATH", <<"v1", "bin">>)>>),
                               [do |-> "unalias", key |-> "g"],
                               [do |-> "deactivate"],
                               [do |-> "assign", key |-> "PATH", value |-> <<"own">>],
                               [do |-> "export", key |-> "PATH"],
                               [do |-> "import", alias |-> {"l"},
                                calls |-> <<[do |-> "assign", key |-> "X", value |-> <<"i">>],
                                            Export("PYTHONHOME", <<"py">>)>>]}] :
        r \in {Listener, Flips},
        e \in {Plain, [Plain EXCEPT !["PATH"] = Unset, !["PYTHONHOME"] = <<"py">>]}}

\* Loops in a sourced file, over a variable that is exported too, with a hook that
\* listens, and one that exports another.
Exports == <<Hook("env", <<Export("PYTHONHOME", <<"py">>)>>), Hook("env", <<>>)>>

Sourced(program) == Source("commands", FALSE, "v1", program)

WithLoops ==
    {[Nobody EXCEPT !.files = <<PluginFile("p", FALSE, "none", r)>>, !.configure = <<Call("enable", "p")>>,
                    !.lines = {Sourced(<<For("X", <<<<"a">>, <<"b">>>>, <<AliasLine("g")>>)>>),
                               Sourced(<<For("X", <<<<"a">>>>, <<Export("X", <<"b">>)>>)>>),
                               Export("X", <<"a">>), Export("X", <<"b">>),
                               Export("X", Unset)}] :
        r \in {Listener, Exports}}

\* A command and a segment of the prompt that fail, after a name that is refused.
WithCommands ==
    {[Nobody EXCEPT !.files = <<PluginFile("p", FALSE, "none",
                                  <<Runs("command", "bad", <<Error>>), Hook("env", <<Quit>>),
                                    Runs("command", "hi", b), Runs("segment", "s", s)>>)>>,
                    !.configure = <<Call("enable", "p")>>,
                    !.lines = {[do |-> "invoke", value |-> "hi"], [do |-> "invoke", value |-> "bad"],
                               Export("X", <<"b">>)}] :
        b \in {<<Quit>>, <<Export("X", <<"a">>), Error>>}, s \in {<<>>, <<Quit>>, <<Error>>}}

MCUsers == WithDocs \cup WithRc \cup WithPlugins \cup WithVenvs \cup WithLoops \cup WithCommands

\* All the calls of their programs, those in other calls included.
Registered == UNION {UNION {Range(u.files[i].register) : i \in DOMAIN u.files} : u \in MCUsers}
Configuring == UNION {Range(u.configure) : u \in MCUsers}

MCStaging  == {c \in Registered : c.do = "stage"}
MCEnabling == {c \in Configuring : c.do \in {"enable", "disable", "allow"}}

Deeper(calls) ==
    calls \cup UNION {Range(c.body) : c \in {d \in calls : d.do \in {"if", "for", "while", "hook"}}}
          \cup UNION {Range(c.else) : c \in {d \in calls : d.do = "if"}}
          \cup UNION {Range(c.program) : c \in {d \in calls : d.do = "source"}}
          \cup UNION {Range(c.calls) : c \in {d \in calls : d.do = "import"}}

MCCode == Deeper(Deeper(Deeper(
    UNION {u.lines \cup Range(u.rc) \cup UNION {Range(u.dropins[i]) : i \in DOMAIN u.dropins} : u \in MCUsers}
        \cup (Configuring \ MCEnabling) \cup (Registered \ MCStaging)
        \cup UNION {Range(c.body) : c \in MCStaging})))
=============================================================================
