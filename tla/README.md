# PySH in TLA+

PySH is an interactive POSIX shell written in Python: it starts and watches child processes,
keeps jobs, reads and edits lines, runs plugins in its own process or in children under
resource limits, and shares a history file with other shells. This directory holds TLA+
models of the parts of it where order, failure and concurrency decide whether it is correct,
TLC configurations that check them on small instances, and proofs for TLAPS.

All paths below are relative to `src/` of the repository copy the models were written from
(`src/pysh/...` is the program, `docs/...` its documents; in section 1 and in brackets
`core/shell.py` is short for `src/pysh/core/shell.py`). `PROJECT.json` maps every definition
to the lines it stands for; the models were written from the code, and its documents are
used only to name what the code promises.

    tlc -workers 2 -config JobControl.cfg JobControl              # any run
    tlapm PluginProofs.tla                                        # any proofs

## 1. Inventory

| Component | State it keeps | Operations | What is hard | Correct when |
|---|---|---|---|---|
| Job table and waiting (`core/jobs.py`, part of `core/shell.py`) | job records (pids, group, status, last status), current job, foreground group of the terminal | run a command or pipeline, `&`, `fg`, `bg`, `jobs`, reap at the prompt, Ctrl+C, `exit` | children end, stop and continue at any moment; `subprocess` reaps behind the table's back; the terminal changes hands | no child is lost, Done is never early, stops are seen, the terminal comes back, Ctrl+C hits the foreground only |
| Isolated plugin runtime (`plugins/isolated/runtime.py`, `supervisor.py`, `events.py`) | lifecycle state, violation, closing, permit, child, pipes, directory | `start`, `serve_once`, `shutdown`, deadline of the watchdog, terminate, finalize | two threads finalize one runtime; the child forks, ignores signals, dies early; numbers of groups are reused | one outcome, one permit, nothing alive or open at the end |
| Resource policy and launcher (`resources.py`, `launcher.py`) | budget, plan, argument vector, limits of a process | resolve, plan, build and parse the vector, `setrlimit`, probe, `execve` | two validations of the same numbers; a partly limited process; a privileged one | the narrowest bound is enforced and cannot be escaped |
| Protocol and broker (`protocol.py`, `broker.py`, `capabilities.py`, `manifest.py`) | descriptors, deadline, granted capabilities | load, handshake, framed read and write, brokered requests, goodbye | frames in pieces around a deadline, a peer that stops reading or closes | the place in the stream is never lost, a reply belongs to its request, no capability is widened |
| Command history (`editor/history.py`) | list in memory, data file, sidecar lock, temporary file | load, add, append, compact at exit, options | several shells on one file, torn lines, kills, failing writes | no command is lost by a compaction, the modes' folds are right |
| Shell: lines and calls (`core/shell.py`, `config/rc.py`, `script_runner.py`) | last status, redirected descriptors, staged paste, name and context of a script | `execute`, chains, redirection of builtins, `source`, `run_script`, pastes, batch | failures half way through a change of descriptors; files that execute each other | what was changed for a command is restored, chains follow statuses, every line returns |
| Parsing and expansion (`parsing/*.py`, parts of `core/shell.py`) | none | quotes, comments, continuations, here-documents, chains, pipelines, redirections, variables, globs | a dozen scanners rewrite the text one after the other, and each reads the quotes again | the line is run as it was put together |
| Command substitution (`parsing/expansion.py`) | child, capability, output, deadline, group | start, pump, sweep the group, drain, reap | exit against deadline against output limit; nesting; reuse of a group number | bounded output and time, no descendant left, no foreign group signalled |
| Secure runner (`security/secure_runner.py`) | PTY, terminal mode, child, indicator | bridge, drain, wait, restore | last bytes at exit, interrupt anywhere, echo off and on | terminal restored, output complete, the command's status returned |
| Configuration (`config/*.py`) | options, colours, profiles, themes, aliases, history options | merge files, resolve inheritance, validate, apply, `config_*`, reset | layers and chains of inheritance, a failure after a part was applied | what is in force is valid and of the last layer that says it |
| Trusted plugins (`plugins/manager.py`, `registry.py`, `loader.py`) | enabled names, records, commands, completers, segments, hooks | enable, discover, register, publish, run hooks | a failure in the middle of a registration; hooks that change what they are told of | all of a plugin or nothing of it, hooks told and run as promised |
| Environment (`core/shell.py`) | exported and local variables, what a virtual environment found | `export`, assignment, activate, deactivate, import | the snapshot is restored over later changes, a second activation | deactivation puts back what was found |
| Line editor (`editor/lineedit/*.py`) | buffer, cursor, history position, search, paste, queue, mode | keys, Enter, Ctrl+C, Ctrl+D, pastes | long sequences of keys; reads that hold parts of a paste | no paste runs by itself, mode and collector agree |
| Completion (`editor/lineedit/completion.py`) | none | context of the cursor, candidates, quoting, common prefix | its scanner and the shell's know nothing of each other | what was completed is read back as the name offered |
| Python mode (`python_layer/*.py`) | lines of a statement (twice), source buffer, active file, pending edit | statements, directives, Ctrl+C, Ctrl+D | two lists of the same input | they stay one |
| Services, scripts of other shells, diagnostics, prompt layout, command line | PID files of another program, an audit stream | see section 6 | little | — |

How they interact: the run loop asks the line editor for a line, decides whether it is a
command, the first line of a block or here-document, a decision about a staged paste or a
line for Python mode, and executes it. Execution calls the parser and expansion, which may
start a nested shell for a substitution, and then a builtin or process creation; process
creation writes the job table, and the prompt reads it (`_reap_and_notify_jobs`). The kernel
is the shared state of shell, children and terminal. Configuration and trusted plugins act
at startup and from builtins; a change of an exported variable calls the plugins' hooks,
except when the `for` of an rc file or sourced file makes it (section 7).
An isolated runtime runs the launcher, the launcher becomes the plugin, the broker answers
it. History is added to after each command and compacted in the `finally` of `run`; it is
shared with other shells through the file system only.

## 2. Plan

The order is by how much goes wrong when a part fails. Done:

1. `JobControl`, with its theorems in `ChildrenProofs`.
2. `IsolatedContract` (abstract), `IsolatedRuntime`, with its theorems in `PluginProofs`.
3. `PluginLaunch`: resource policy, launcher, `setrlimit`.
4. `HistoryEntries` (operators), `HistoryFile` (abstract), `HistoryEngine`, `HistoryProofs`.
5. `ShellLines` with `ShellLinesProofs`: chains, redirected builtins, files, pastes.
6. `Substitution` with `SubstitutionProofs`: a child under deadline and limit.
   `SecureBridge`, the PTY bridge, with its theorems in `ChildrenProofs`.
7. `PluginSession`: framing, deadlines, handshake, grant, broker. `PluginProofs` has the
   theorems of `PluginLaunch` and of `PluginSession` too.
8. `Session`, composed of `Configuration`, `TrustedPlugins` and `Environment`, with
   `SessionProofs` and, on top of it, `HooksProofs`.
9. `Prompt`, composed of `LineEditor` (with `Completion` and `Scanners`) and `PythonMode`,
   with `PromptProofs`.
10. `CommandText` (the shell's reading of a line) against `WrittenLines` (what the line was
    put together from), composed with `ShellLines` by `ShellLinesMC`.

Left, in this order:

* The safety properties of `Session` that are only model-checked: `HooksInformed`,
  `VenvRestored`, `LastFileWins` and the last conjunct of `HooksRunOnce`.
* `PluginSession` under `IsolatedRuntime`: both now choose the outcomes of the other.
* The directory stack, the cache of commands on `PATH`, the reading of escape sequences.

Not worth a model: what section 6 gives a reason for.

## 3. Modules

### JobControl

The shell is one thread, so a call in progress is the variable `pc` with `todo`, `fjob`,
`res`, `handle` as its locals; every system call at which another process may act is a step
of its own. Children, other processes that send signals, the user at the terminal and the
CPython module `subprocess` are actors.

| Model | Code |
|---|---|
| `RunForeground`, `CommandHandOver`, `CommandExited`, `CommandStopped` | `_run_external`, `_wait_with_job_control` |
| `StartPipeline`, `ForkStage`, `ForkFails`, `PipelineToBackground`, `PipelineHandOver`, `PipelineStageExited` | `_run_pipeline` and its helpers |
| `RunBackground` | `cmd &` for a simple command; the Popen object is dropped into `active` (`subprocess._active`) |
| `DropPopen`, `PopenElsewhere` | `Popen.__del__` and `_cleanup`, which reap dropped children |
| `Fg`, `WaitedExited`, `WaitedStopped`, `WaitedDone` | `_builtin_fg`, `_wait_for_job` |
| `Bg`, `Jobs`, `Prompt`, `Leave` | `_builtin_bg`, `_builtin_jobs`, `_reap_and_notify_jobs`, end of `run` |
| `Reap` | `JobTable.reap_background_jobs`, one poll of all Running jobs |
| `Interrupt`, `InterruptedExited`, `InterruptedReturns`, `Escape` | the `except KeyboardInterrupt` clauses; `Escape` is one that no clause catches |
| `table`, `status`, `pids`, `pgid`, `lastStatus`, `nextId`, `current` | fields of `JobTable` and `Job` |

Process numbers are given in order of fork, so `Min` of a set of them is the list order of
`job.pids`. They are never reused: reuse would take a wrap of the number space within one
poll.

### IsolatedContract, IsolatedRuntime

One caller thread and one watchdog thread per runtime, with program counters per thread, the
locks `_lock`, `_term_lock` and `_finalize_lock`, the governor's permit count, and the child
with its descendants and its group number. The shared procedures `_terminate_process`
(labels `term`, `grace`, `kill`, `last`) and `_finalize` (`cancel`, `join`, `clean`,
`settle`) are entered from several places; `termBack` and `finBack` are their return
addresses. A read or write is a choice between its outcomes: a reply, a failure, a frame
over the limit, or an interrupt by what the watchdog did. `IsolatedContract` is the
lifecycle of `docs/security/resource-governor.md`: new, active with one permit, stopped or
failed as the first claimant decides. `ContractHolds` is the refinement, with `phase`,
`claim` and `permits` computed from the runtime's fields.

### PluginLaunch

`Launch` is `resolve_resource_budget`, `plan_enforcement` and `build_launcher_argv` in one
step (`IsolatedPluginRuntime.start` calls them in sequence and nothing else can observe
them); `Parse`, `Apply`, `Probe` and `Exec` are the launcher; `MayBecome` is the kernel's
rule for `setrlimit`, and `PluginSets` a plugin that tries whatever the rule lets it do.
`None` is a field not specified, `Unlimited` is `RLIM_INFINITY`. Numbers are small because
only their order matters. `Floor` stands for `_MINIMUMS` and for the two floors the launcher
repeats; where there is none it is 1, the least a budget allows.

### HistoryEntries, HistoryFile, HistoryEngine

`HistoryEntries` has the list operations as folds. A line of the data file is represented by
what `_load_unlocked` makes of it: a good line is its entry, a torn line nothing, a line
whose command holds a separator that `str.splitlines` honours and JSON leaves alone (U+2028,
U+0085) is a legacy entry for its second half (`Loaded`). `torn` says that the file ends in
the middle of a line: the next line is lost with it, but for the second half of one that is
split (`LoadedGlued`). `HistoryFile` is the abstract file, which changes by one new entry at
its end or by the compaction of its whole content. `HistoryEngine`
has sessions that load, add, append under the lock, and compact in three steps (read, write
the temporary file, replace), with writes that fail and shells that are killed anywhere.

### ShellLines

The shell executes a line in one thread, so its state is the stack of calls in progress. A
record of the stack is one activation, with the local variables of its function; a step is
taken by the innermost call. `result` is what the call that ended last hands to its caller:
a status or an exception on its way out. A command is represented by what it does to the
shell (`does`), its redirections (`spec`) and its here-documents (`docs`). In files it is
given as such; the lines that are typed are texts, which `ShellLinesMC` reads with
`CommandText` first.

| Model | Code |
|---|---|
| `Execute`, `SkipElement`, `ElementDone`, `LineEnds`, `LineUnwinds` | `execute` and the loop of `_execute_impl` over a chain |
| `BrokenElement`, `RunCommand` | `_run_chain_element`, `_run_simple` for commands that are no builtins |
| `BodiesTaken` | `parse_redirections`, which pops the bodies `collect_heredoc_bodies` gathered |
| `BeginBuiltin`, `RedirectionFails`, `EndBuiltin` | `_redirect_standard_fds` before and after its `yield`, and the `except OSError` of `_run_simple` |
| `Source`, `SkipLine`, `NextLine`, `LineDone`, `LineRaises`, `FileEnds` with frame `rc` | `execute_rc`, `_interpret` |
| `BlockNeverEnds` | `_collect_block`, for an `if`, `for` or `while` (an `opener`) without its end |
| the same with frame `script`; `RunScript`, `RunInterpreted`, `RunNative` | `run_script_file` and `ScriptRunner.run`, which gives a `Foreign` script to its interpreter |
| the same with frame `paste`; `RunPaste` | `_builtin_paste_run` and `ScriptRunner.run_native_text` |
| the same with frame `batch` | `run_batch` |
| `TypeLine`, `TypeEnter`, `CapturePaste`, `CtrlC`, `EndOfInput`, `PromptFails`, `PromptReturns` | the loop of `run` |
| `Interrupt`, `Vanish` | Ctrl+C in the middle of Python code; another process removes the working directory |

`stuck` says that `sys.stdout` holds bytes its device did not take (a full device): every
later flush of it raises. `MaxDepth` stands for Python's recursion limit, counted in calls
of the model; where exactly the interpreter meets it does not matter, since the error is
raised by `execute` in either case and handled by the callers. `Malformed` files end in a
`py` block that is never closed: a script or paste refuses them before its first line, a
sourced file is read as if it were empty, and batch input meets the block when it gets
there. A script for `sh`, `bash` or `zsh` returns what its interpreter returned, a negative
number if a signal ended it. Blank lines and comments are left out (`SkipLine`), except that
batch input gives comments to `execute`. `done` of a chain is a history of its elements; no
action reads it.

### Scanners, CommandText, WrittenLines

`Scanners` is the quoting rule, as a function from places in a text to modes (`Modes`), and
the scanners that look for something among the bare characters: comments and continuations
(`parsing/multiline.py`), here-document words (`heredoc.py`), block openers, commands of a
pasted text, and `shlex`. A text is a sequence of characters, in which an operator or
reserved word counts as one character.

`CommandText` is the way of a line through `_execute_impl`, `_run_chain_element` and
`_run_simple`, one definition per stage, each rewriting the text that the next one reads:

| Model | Code |
|---|---|
| `CommandRead`, `LogicalLineRead`, `Unfolded` | comment, continuation lines, here-document bodies |
| `CollectedRead`, `CommandPartRead`, `OpensAlone`, `DirectPythonRead`, `PythonPipelineRead` | `_execute_impl`: what has a block, what is Python, what is refused (`IsUnsupported`, `IsZsh`) |
| `SubstitutedRead`, `RefusedLine`, `AssignmentRead` | substitution, the words the shell does not support, a bare assignment |
| `ChainRead`, `SplitChain`, `ElementRead` | `split_chain`, background, `_run_chain_element` |
| `Pipeline`, `PipedRead`, `PipedStageRead` | `_run_pipeline` and `_resolve_execution_stage` |
| `StageRead`, `SimpleRead`, `SplitAssignments`, `AliasExpanded`, `ParsedRedirections`, `Argv` | `_run_simple`: alias, leading assignments, redirections, words and globs |

`WrittenLines` goes the other way and shares nothing with the scanners: a line is built of
elements, stages, tokens, words and fragments, each fragment with a way of quoting; `Text`
writes it down, and its meaning is computed from the parts by the rules of
`docs/spec/pysh-language.md`. `ReadAsWritten` compares the two for the lines of
`WrittenLinesMC`: every character some scanner looks for, in every way of quoting, alone and
beside every other, in each place where a word can stand.

### Substitution

Process 0 is the user's shell and process p the p-th nested PySH that is started, by
whatever process: `parent` says by which, `depth` is its environment variable, `child` the
nested process a runner is about. Numbered by their birth and not by their depth, two nested
shells of one depth can live at once, when the runner of the first was killed. `Kin` are
other programs of the domain, which inherit the pipes. The steps of `_run_nested` are
`Substitute`, `MakePipe`, `Spawn` (which `SpawnFails` or `Starts` one), `Pump` (one round of `select`), `Check`, `Sweep`,
`DrainStream`, `Kill`, `Wait`, `Return`; the nested shell boots (which consumes the
capability, `Boot`), writes, substitutes and exits. `Reuse` gives a free group number to a
stranger, at any time the kernel may. A Ctrl+C may fall anywhere in the runner of the user's
shell: while the output is read (`InterruptedReading`) the `finally` kills and reaps; within
`Popen` (`InterruptedPopen`) and in that `finally` itself (`InterruptedEnding`) it takes the
child out of the runner's hands, which `lost` records; around the two (`InterruptedLeaving`)
it loses at most descriptors, `leaked`.

### SecureBridge

Shell, helper and command are three processes. The helper's place `at` goes through
`_parent_bridge`: fork, raw mode, `Select`, `Read` (with the indicator erased for output and
synchronised with the echo flag), `Stdin`, `Poll`, drain, `Finally`, `Restore`. `CtrlC` in
cooked mode signals shell and helper, and `Interrupted` raises at whatever place the helper
is; in raw mode it is a byte like any other. `Forward` is the shell's own `send_signal` to a
helper that did not end in the moment `Popen.wait` gives it. The child may write, switch
echo, close the terminal and go on, or end, by itself or by a signal, before or after its
`exec`.

### PluginSession

`Load` decides on manifest and grant; the exchanges (`op`) are awaiting a frame or writing
one, and `Decoded` and `Written` go on to the next. `ReadUnit` and `WriteUnit` move one of
the two units of a frame; `TooLarge`, `ReadFails`, `WriteFails`, `TimedOut` and `Interrupt`
are the ways in which an exchange ends early. `Dispatch` is the broker: validation, grant,
handler. The histories of the two sides are `sent`, `got` and `replied`; `effects` has the
places in `got` of the requests the broker acted on, so that two equal requests are told
apart. The plugin writes head and body apart, reads, and closes. How a failed session ends
the process is `IsolatedRuntime`.

### Configuration, TrustedPlugins, Environment, Session

`Configuration` has the merge of documents, the resolution of inheritance (`Resolve`, with
the chain already visited), validation, and the changes (`SetOption`, `SetTheme`,
`SetProfile`, `Restore` for one part of a reset, `Aliasing`). The history engine has its own
copy of its options (`engine`) and is told of a change by calls after it, one for each option
(`Telling`, `TellEngine`), so that an interrupt can come between. `LastFileWins` says from the documents, without merging
them, what must be in force. `TrustedPlugins` has permission (`Permitted`), discovery,
staging into a bundle and its publication table by table. `Environment` has `Put`, the way
an exported variable changes with the knowledge of the hooks, and activation and
deactivation as sequences of puts. The other way is `SetLoopvar` of `Session`: a loop
variable goes into `os.environ` and past the hooks.

`Session` runs them: `work` is what remains to be done, and a call that makes others puts
them before the rest, so that one step is one change that a hook or an interrupt can
observe. An end closes a frame, a stretch of code with a `try`, and `CaughtErrors` says what
it keeps from the rest: an `Exception`, or also what is none (`sys.exit` in a hook, Ctrl+C).
Startup is the sequence of phases of `run`: the declarative layers, `~/.pyshrc.py`,
discovery of plugins, hooks of startup, prompt. What programs, `~/.pyshrc.py` and a
plugin's `register` may consist of are the constants `Code`, `Enabling` and `Staging`
(`Program`, `Request`, `Registration`). A line is one call; `Closing` is the
`finally` of `run`. What users have written (files, plugins, lines) is part of the state, as
`user`. The histories are what each environment hook was told last (`told`, with the mark
`Aside` for a variable that a loop has written since), what the first activation found,
which hooks were run, and of which options a Ctrl+C kept the shell from telling the history
engine (`behind`, until it is told again).

### Completion, LineEditor, PythonMode, Prompt

`LineEditor` is `RawLineReader` with its buffer and `EditorState`. The terminal queues keys
(`tty`); `Read` takes the queue, or a part of it if it is longer than one read
(`WholePastes` says whether a pasted text may be split), and `Classified` is the test for a
paste without markers. One action per key: `Normal`, `EditLine`, `Searching` and what
belongs to a search, `StartPaste`, `CollectPaste`, `EndShortPaste`, `EndLongPaste`,
`Submit`, `PressCtrlC`, `PressCtrlD`. `Completion` is what TAB does, from context to
replacement. `PythonMode` is `PythonCommandMode` with the part of `PythonRuntime` it drives:
`Push` of a line, the directives (malformed ones too, which only print), `PythonInterrupt`,
`PythonEof`. `Prompt` composes them as
`run` does: `at` says which collector reads, `Collect*` are its lines, `DecideOnPaste` the
review of a staged paste, and `ran` what was executed last. An entered line is a chain
(`Chain`, after `split_chain`); `RunCommand` runs its commands one by one, so that what
stands behind a `paste_edit` waits until the edit is over, and a command behind `&&` or `||`
may be passed over. `PromptMC` has eight users, each with the strokes of one task; lines of
several commands with a paste command at either end are among them.

## 4. Runs

| Run | Shows | Bounds |
|---|---|---|
| `jobs` | `Tracked`: every child the kernel keeps is known to a call or a live job. `DoneMeansReaped`. `StopsAreSeen`: no stop is consumed unseen, and the terminal is the waited group's or taken back. `BackgroundSpared`: Ctrl+C hits no background job. `PromptComesBack` under fairness | 3 children, 2 jobs, pipelines of 1 and 2, with a terminal and without one |
| `iso_one` | `FirstClaimDecides`; `Contained`, with the descendants killed; `ViolationFinished`; under fairness `DeadlineEndsChild` and `OperationsReturn` | 1 runtime, every interleaving of its two threads and its child |
| `iso_pair` | the refinement `ContractHolds`, permits included | 2 runtimes, 1 permit |
| `plugin_launch` | `PluginConfined`, `NarrowestEnforced` | 4 fields (one of each kind), 2 profiles, 38 requests, 3 inherited limits, both process modes, privileged or not |
| `history` | `NothingLost`: the file is worth all that was completed, the newest command is in it, a session recalls its own without duplicates. The refinement `FileIsAtomic` | 2 shells that start again after each end, commands of which one splits its line, one failing write, one kill, an old file with a duplicate, six settings |
| `shell_lines` | `ChainRule`; `OwnDocs`; `CallsKeepOrder`: names, contexts, descriptors and pastes are those of the innermost call; `ReadAsWritten`; under fairness `EveryLineReturns` | 4 files, two that execute each other and one malformed, 10 calls to the recursion limit, 2 faults; 8573 written lines |
| `substitution` | `Swept`: nothing outlives a substitution, no stranger is signalled, nothing stays open, whatever way it ends; the one group that a Ctrl+C in `Popen` or before the kill lets go of is excepted. `WholeText`: a text is whole or empty, the capture bounded. `EverySubstitutionReturns` under fairness | 2 levels, 1 program that stays behind, pipes of 1 unit, 1 unit of output and none of errors allowed, 2 nested shells |
| `secure_bridge` | `ModeRestored`; `OutputForwarded`, with the bridge's idea of the indicator true; `StatusIsTheCommands`; `SecureReturns` under fairness | 1 key, 2 Ctrl+C, 1 unit in the PTY, with an indicator and without |
| `plugin_session` | `InStep`: what is decoded is what was sent, in order, each request answered once. `WithinGrant`. `ExchangesEnd` under fairness | 4 messages of 9 kinds, 5 manifests, pipes of 2 units up and 1 down |
| `session` | `Configured`, with the history engine following the options; `PluginsPublishedWhole`, and none before its configuration was read; `HooksInformed`; `HooksRunOnce`, with failures contained; `VenvRestored`; `EveryCallReturns` under fairness | users rich in one respect each (files, rc programs, plugins, environment, loops beside hooks, commands), 3 lines, 1 Ctrl+C |
| `prompt` | `ReaderAtRest`, `PythonInStep`, `PasteWaits`, `CompletedAsOffered` | eight users, 4 to 7 strokes each, a paste in one read |
| `prompt_paste` | that `PasteWaits` is violated when a paste may take several reads (section 7) | the same |

Type invariants are conjuncts of `NothingLost`, `ChainRule`, `Swept`, `ModeRestored` and
`InStep`, or part of the inductive invariant of the proofs.

Why the bounds are enough.

* Sessions: a user with loops has environment hooks, one that listens and one that exports
  in its turn, and a plain hook behind it; a user with virtual environments has hooks too, but
  none that writes `PATH` or `VIRTUAL_ENV` during an activation.
* Job control: with three children there is a pipeline in the foreground beside a job in the
  background, a stage left of a partly reaped job, and a dropped Popen reaped while another
  child is created; two records are needed for the current job to change. One exit code that
  differs from the 0 a lost status gives is enough for what the properties say.
* Runtimes share only the governor's counter, so the behaviour of the threads is complete
  with one runtime and the counter with two at its limit.
* Launch: every comparison of the code is between two of request, profile, floor, ceiling
  and inherited limit, and each of them takes values below, at and above another.
* History: two shells give every race of an append with a compaction, and folds over merged
  entries; the sessions are symmetric (only equality of session ids is used), so the run
  uses symmetry.
* Lines: the files contain every kind of call inside every other (a script in a sourced file
  in a script, a paste that cancels and runs itself, both under redirections) and every kind
  of line that is treated apart (blank, comment, opener), so ten calls are reached through
  all kinds of frames; the chains have an element skipped behind one
  that was skipped, before and behind one that ran; two faults allow one inside the handling
  of another.
* Written lines: the scanners look at one character and at most one neighbour with the mode
  of quoting, so pairs of fragments in all ways of quoting meet every one of their cases;
  longer lines repeat them. The same texts were also given to the program's own functions,
  which read all of them as `CommandText` does.
* Substitution: the second level is the one that finds itself inside a domain; a third would
  do the same (the safety part was also checked once with 3 levels and 4 nested shells, and
  the theorems cover every number). With the limit at one unit a second unit is too much, and a pipe of one unit
  is full when one is not read. One program that inherits the pipes is needed for every
  straggler; a second would only repeat what it does.
* Secure bridge: a second Ctrl+C interrupts what the first one began. A PTY of one unit has
  it empty, full, and full at the end of the command.
* Plugin session: hello, ready and two requests of different numbers, of every kind of
  request that the parent tells apart: good, unknown operation, not decodable, malformed,
  too large, not granted.
* Session: the respects in which users are rich meet only in the shell's fixed order of
  phases, which all of them go through. Chains of inheritance are good, cyclic or broken;
  two files are enough for one to override the other; two plugins for a conflict of names;
  three lines for activation, a change, deactivation.
* Prompt: a stroke is a key, a word, or a whole paste. Every state of a paste, a search, a
  collector and Python mode is left and entered within the strokes of the user that has
  them.

Deadlock checking is off where the system really stops (finished runtimes, executed or
refused plugins, a shell or session that was left, a bridge that returned). It is on in
`jobs`, whose only end is `Exited`, in `history`, where a shell can always be started again,
and in `substitution` and `prompt`.

Each passing property has a mutant in `PROJECT.json`: an operator marked `variant` beside
the definition it replaces, with the kind of slip a change of that code could make, and TLC
finds the property violated with it.

### Fairness

* `JobControl!FairSpec`: weak fairness of `Call`, because the shell does not pause in the
  middle of a function except in `waitpid`, where `Call` is disabled; strong fairness of
  each child's exit, which says that a child that gets to run again and again ends. A
  program that never ends is not the shell's failure. No fairness for the user, signals or
  faults.
* `IsolatedRuntime!RuntimeFairSpec`: weak fairness of both threads, because the interpreter
  schedules threads and every read, write, wait and join in the code has a timeout. None for
  the child, which may hang or ignore SIGTERM.
* `ShellLines!FairSpec`, `Session!FairSpec`: weak fairness of `Step`, what the shell's one
  thread does by itself. Between two of these steps it waits for nobody: a command's own run
  is one step, its end is the subject of `JobControl`. No fairness for the user and the
  faults.
* `Substitution!FairSpec`: weak fairness of each runner and of the passing of its deadline
  (the code waits with `select` and a monotonic deadline). None for the nested shell and its
  kin.
* `SecureBridge!FairBridge`: weak fairness of the helper and of the shell that waits for it.
  None for the command, the user or signals: `SecureReturns` begins where the command has
  ended.
* `PluginSession!FairSpec`: weak fairness of the parent and of its deadline. None for the
  plugin.
* No liveness is stated for `PluginLaunch`, `HistoryEngine` and `Prompt`: the first is
  sequential, `flock` promises no order among waiters, and at the prompt everything waits
  for the user.

## 5. Proofs

Everything below holds for every value of the constants that meets the named assumptions of
the modules.

| Module | Theorems | Extra assumption |
|---|---|---|
| `ChildrenProofs`, job control | `TypeCorrect`, `NoChildIsLost` (`Tracked`), `DoneIsNeverEarly` (`DoneMeansReaped`), `GroupsAreApart`, `StopsAreAlwaysSeen` (`StopsAreSeen`), `BackgroundIsSpared` (`BackgroundSpared`, an action property) | none |
| `ChildrenProofs`, secure bridge | `TerminalIsRestored` (`ModeRestored`, with `TypeOK`), `OutputIsComplete` (`OutputForwarded`), `StatusIsGenuine` (`StatusIsTheCommands`) | none |
| `PluginProofs`, runtime | `RuntimeTypeCorrect`, `PermitsAreBalanced`, `TheFirstDecides` (`FirstClaimDecides`), `FinalizedIsContained` (`Contained`, with `DescendantsAreKilled`), `ViolationsAreFinished` (`ViolationFinished`), `ImplementsContract` (`ContractHolds`) | the event sink does not raise |
| `PluginProofs`, launch | `LaunchTypeCorrect`, `PluginIsConfined` (`PluginConfined`), `NarrowestIsEnforced` (`NarrowestEnforced`), `LauncherAccepts` | none |
| `PluginProofs`, session | `ParentKeepsInStep` (`InStep`, with `TypeOK`), `BrokerKeepsToGrant` (`WithinGrant`) | none |
| `HistoryProofs` | `CompactionIsExclusive`, `FileChangesAtomically` (`FileIsAtomic`), `NoCommandIsLost` (`NothingLost`, with `TypeOK`) | the lock works, the file can be read |
| `ShellLinesProofs` | `CallsAreOrderly` (`CallsKeepOrder`), `ChainIsObeyed` (`ChainRule`, with `TypeOK`), `DocumentsReachTheirCommand` (`OwnDocs`) | none |
| `SubstitutionProofs` | `SweptAlways` (`Swept`, with `TypeOK`), `TextIsWhole` (`WholeText`) | none |
| `SessionProofs` | `WholeAlways` (`PluginsPublishedWhole`), `InForceAlways` (`InForce` and `EngineFollows`, all of `Configured` but its last conjunct) | no Ctrl+C between two tables of one publication (`~WhilePublishing`) |
| `HooksProofs` | `HooksInTurnAlways` (`HooksInTurn`, all of `HooksRunOnce` but its last conjunct) | the same |
| `PromptProofs` | `PythonStaysInStep` (`PythonInStep`), `ReaderIsAtRest` (`ReaderAtRest`) | none |
| `PromptProofs` | `PastesWait` (`PasteWaits`, an action property) | no read cuts a paste (`WholePastes`) |

**Job control.** `Tracked` is not inductive: to know that a child that leaves `todo` is in a
live job, one has to know what each program point has in `todo`, that the group of a job is
that of its members, that records of unused numbers are empty and that a child is in at most
one place. `IInv` adds these (`Shape`, `Records` and the stronger forms of `Tracked` and
`DoneMeansReaped`) to `TypeOK`. The proof has one lemma per part and in each a case per
action. `Min` and `Max` of sets of process numbers are `CHOOSE` terms; that they exist is
proved from the well-foundedness of strict inclusion of finite sets. Stops need one more
invariant, `Groups`: all processes of a job are in its group, two jobs never share one, and
neither does the call in progress with a job it does not wait for. With it a stop that a
`waitpid` consumes belongs to the job that is marked, and a SIGINT to a group reaches the
processes of one job: `BackgroundSpared` follows action by action.

**Isolated runtimes.** The invariant is one formula `Good(r)` per runtime in six parts that
follow the threads' labels: which labels occur together (`Labels`), what `_busy` counts, how
far the runtime is (`Stages`), who may finalize and with which outcome (`Claims`), what the
signal sequence has done to child and descendants (`Containment`), and what is left at the
end (`Outcome`). `OthersStep` says that a step of one runtime changes nothing of another but
the governor's counter; the counter is then compared with the cardinality of the holders.
The refinement maps every step to one of `Begin`, `Abandon`, `Claim`, `End` or to a stutter.

**Launch.** `LaunchInv` records that the argument vector is the plan's, that a limit not yet
applied is the inherited one, and that a limit that was applied and probed is `Final`: below
plan and inheritance, in a process that cannot raise it. The point of the probe is in
`ProbeStep`: a number can be raised by one exactly by a privileged process.

**History.** That a compaction works alone (`CompactionIsExclusive`) is inductive together
with the shapes of `pc` and `pending`: it holds the lock from read to replace, so its
snapshot is the file. With it every step is one of `HistoryFile`'s. Both extra assumptions
are needed: TLC finds the theorem violated with either of `LockMayFail` and `ReadMayFail`
true.

`NothingLost` compares folds over lists of any length: dropping the duplicates of the file
gives what dropping those of all lines ever completed gives. Three facts about the folds
carry it (`DedupSteps`, `DedupTwice`, `DedupOrigins`): a list with one entry more is dropped
by one step from the shorter list's result, dropping twice is dropping once, and every
entry of the result has the command of an entry that went in. Appending a line and
compacting the file both keep the comparison by these. They are shown by `ListInduction`,
which climbs from the lists of one length to those of the next. `LInv` adds to `IInv` what each
shell's own list holds (`OwnEntry`, `Recall`), that the newest command is in the file
(`LastKept`) and that no list has a duplicate that its mode excludes (`Deduplicated`).

**Lines.** The properties speak of the innermost calls of a kind; what makes them inductive
is that every call in the stack has saved what is true of the calls around it. `IInv` says
so of every call of the stack, with names, contexts, pastes and descriptors as its parts: a
script's saved name and context are those left by the calls around it, a builtin's saved
descriptors are the ones connected there, and at most one paste is on the stack, with
nothing staged. The stack changes in three ways (the innermost record is replaced by one
that saved the same, a call is pushed, a call is popped) and there is one lemma for each;
every action is one of the three, so that the proof of a step does not repeat the argument.
The bound of the stack and the contents of files play no part, so the theorem holds for any
recursion limit and any text.

`ChainRule` and `OwnDocs` have an invariant of their own, `CInv`. Of each chain among the
calls it says what decides about the next element (`Undecided`: the last operator and the
status of the last element that ran, or nothing has been done yet), that the elements done
obeyed (`Obeyed`) and got their own bodies (`Served`), and what the list of bodies holds:
between two elements it is what the elements left are owed, after what skipped ones left
there (`Ready`), and during one the same without the first (`AtWork`). A call that is not
the innermost is at work, and so is the innermost when a status arrives; three lemmas, for
pushing, popping and going on, keep this as the stack changes. What the elements left are
owed is a fold over their here-documents. The proofs unfold it by `Flattened`: the flattening
of a sequence is its head followed by that of its tail, for sequences of any length. That
and `AppliedType` (redirections connect descriptors to devices) are proved without an
induction rule: the numbers for which a fact fails form a set, and `Numbers` takes its least
element, which exists because `<` is well-founded on the naturals.

**Substitution.** `Swept` is about the moment when a runner gives up; why it holds is
`Domain`: whatever lives below the user's shell, nested shells left behind by runners that
were killed included, is in the one process group that shell is at work on, so one `killpg`
reaches all of it, or in one that a Ctrl+C let go of before the kill (`Held`). It rests on `Family` (who has been born, and that a number is reused only
when its process is gone), and on `Runners`: a runner at work lives, knows a child it has
started itself, which is not reaped before the wait, and a child that is not reaped has a
living runner at work on it or a dead one, or is `lost` by a Ctrl+C. `Buffers` and `Texts` give `WholeText`: a runner
that saw the exit and emptied the pipe has everything its child wrote.

**Secure bridge.** `Courses` ties the helper's place to the terminal's mode and to the
command's state; it has to name the places at which Ctrl+C has struck (`broken`), because
what the handlers may assume differs with them. `Knows` is what the helper knows of the
indicator between writing it and setting `visible`, `Hushed` that the bridge stops only with
the slave closed and nothing left to read, `Accounts` who holds the command's status.

**Plugin session.** `Stream` is the invariant behind `InStep`: the units the parent has read
of the frame it awaits, and behind them those in the pipe, are the ones that follow the
frames it has decoded, counted from the beginning. `Places` says how many messages each
exchange follows, `Greeting` what the first ones were. With them a request is at a place of
its own in `got`, its reply at the place before, and what the broker acted on is at
increasing places, each within the grant (`Acts`).

**Prompt.** `IInv` says what a line that is read has to do with the place where the shell
is: history and Ctrl+C are the prompt's alone (`ReadForPlace`), nothing else reads
meanwhile (`ReadAlone`). With these `ReaderAtRest` follows action by action;
`PythonInStep` needs that a directive's lines are the ones it was given. `PasteWaits` rests on
`Unasked`: as long as the user has not pressed Enter outside markers, every Enter among the
keys still to be read stands within the markers of a paste (`Enclosed`), nothing is queued,
and a line, or the commands of one that are still to run, can only be one of the history
(`HistoryAssumption`: nothing in it was pasted in this session) while no paste is staged.
While commands of a line are still to run at the prompt nothing is read and no answer waits
(`WorkAlone`). A read that takes a part of the keys cuts `Enclosed` between two pastes only
if it cuts no paste, which is the assumption; `prompt_paste` shows that without it the
property fails. A search that finds a match has one entry of the history for
each offset (`RankedMatch`, by counting the newer matches), so what a newline submits there
is a line of the history.

**Session.** `PluginsPublishedWhole` speaks of the moments without an open bundle, and says
nothing of `work`, the calls still to be made; whether it holds at the next such moment
depends on them. The inductive invariant `IInv` therefore says for each phase of a start
what `work` consists of: `Awaiting` (anything that publishes nothing, then the discovery),
`Between` (the loads of the files without a verdict), `Registering` (the calls of `register`
from the k-th on, behind what the call before them began), `Committing` (the tables from the
j-th on), `Abandoned` (the end of a `register` that raised) and `Finished`. In each phase the
tables are tied to the files: all that the loaded files offered, with what is published of
the bundle in progress, and the bundle is what the first k calls staged. The proof has a
part for each phase, and in it one lemma for a step of `work` and one for Ctrl+C.

Three groups of lemmas carry it. A *quiet* call (every call a user's program can make,
`QuietStep`) changes no table and adds quiet calls only, whatever it sources, loops over or
configures; `register` may therefore do what it likes between two stagings. An exception
from anywhere inside `register` leaves exactly its end, marked, and the loads behind it
(`RegisterUnwinds`, `CommittalUnwinds`), because no frame of a quiet call outlives it.
And the tables grow by one file with its verdict (`HooksRecorded`, `RecordedBetween`), in
the order of the files, which for hooks is an equation between flattened lists (`ListFlat`,
`HooksMore`). The theorem assumes `~WhilePublishing`, under which the run checks the
property too: with a Ctrl+C between two tables it is false (section 7).

`InForce` needs two facts more. `Named` says which profiles and themes are known: the
built-in ones always, and never one that the user's files do not come to, so that what is
active is still known when the tables are replaced (`LoadDeclarative`) and when everything is
reset. That the built-in names survive the merge is `ResolveAllNames`: resolving names in
their order, each with the chain of bases it descends through, gives every name of a table
and no other, for tables and orders of any size. `HeadSound` is what `IInv` is needed for: the
call that is next, in any phase, is one the configuration can take. From there it is one lemma
per setter. `EngineFollows` is inductive with `InForce`: an option differs from what the
engine has only while the call that tells the engine is next (`Untold`), which is what the
setters (`ConfigureFollows`) and the telling itself (`TellFollows`) leave, or after a Ctrl+C
has dropped that call (`OthersFollow`). The assumptions on the constants are those of the code's own tables: each default
passes its validator (`DefaultAssumption`), the names in the orders include the built-in
ones, and `default` is among them (`TableAssumption`).

**Hooks.** `HooksInTurn` has an invariant of its own, `Course` of `HooksProofs`, which says for each stage of a session
what `work` consists of: `Starting` (calls that run no hook and end no line, then the
startup hooks and the prompt), `Hooking` (the hooks behind the j-th, of which some of the
first j were heard), `Prompting` (nothing, a line that runs, or the prompt being drawn),
`Leaving` and `Ended`. That no hook ends a session is a statement about frames: a list is
`Sheltered` if every call of it that may raise has the end of a plugin's frame behind it.
Steps keep lists sheltered (`ShelteredStep`), and an exception raised in one goes no
further than that frame (`ShelteredUnwinding`), unless it is Ctrl+C.

Leaves of these proofs that name `SMTT` or `ZenonT` are those that come near the usual time
limits of the provers on a slow machine.

**Only model-checked**:

* all liveness (`PromptComesBack`, `DeadlineEndsChild`, `OperationsReturn`,
  `EveryLineReturns`, `EverySubstitutionReturns`, `SecureReturns`, `ExchangesEnd`,
  `EveryCallReturns`), because fairness and `ENABLED` are beyond the prover here;
* `ReadAsWritten` and `CompletedAsOffered`: scanners of characters, written as recursive
  operators, which the prover does not take. As recursive functions their proof would be an
  induction for each scanner against each way of writing a line;
* the other safety properties of `Session`. `LastFileWins`, the last conjunct of
  `Configured`, is an equation between two readings of a chain of documents with
  inheritance, a fold in a fold. `HooksInformed`
  and `VenvRestored` need of each item of `work` that what stands behind it does not depend
  on what it does, for every kind of call, and so does the last conjunct of `HooksRunOnce` (which of the
  user's own calls ends a start).

Induction over data goes by sets in these proofs: no installed prover applies an induction
theorem, which takes an operator as a parameter, but the numbers (or lists) for which one
equation fails form a set, and its least element exists because `<` is well-founded on the
naturals. It needs a set and an equation for each definition and property.

## 6. What is abstracted or left out

* Text: outside `Scanners`, `CommandText` and the editor, commands, plugin names and frames
  are members of small sets. Messages, colours and layout are left out.
* Job control: jobs that a builtin starts in a pipeline, and programs that change their own
  process group.
* Runtimes: each is used by one caller, as its documentation says; the content of frames is
  left to `PluginSession`. A shutdown that races a pending request of the child ends in a
  forced stop, as in the code.
* Launch: the order of the fields in `apply_limits`, on which nothing depends. A limit the
  kernel caps for privileged processes as well (`fs.nr_open`) is far above the ceilings.
* History: `HistoryManager` (a readline adapter that no longer writes the file) and
  `export`. A line that lacks only its newline counts as torn, one that is split as torn
  before its separator. A different configuration per
  session is not modelled.
* Lines: what a command does inside is left out (`JobControl` has external ones), also `py`
  blocks, what another interpreter does with a script, and the recording of history. The conditions of
  `if`, `for` and `while` are `Session`'s. `dup2` of a saved descriptor is taken not to
  fail.
* Texts: backquotes, `~user`, and the patterns `[` and `**` are left out of `CommandText`;
  what a substitution prints is given. `WrittenLines` has no line of which section 7 says
  that the shell reads it differently.
* Substitution: what is written (only who wrote it), and the nested shell's reading of its
  command.
* Secure bridge: the look of the indicator. `security/policy.py`, which classifies commands
  by name, is a table.
* Plugin session: JSON; a message is good or malformed in one of four ways, as its
  validation says.
* Session: the options' own values (every validator is accepting or not), the results of
  completers, nested `source` restoring loop variables. `WhilePublishing` is FALSE: see
  section 7.
* Prompt: escape sequences, rendering, highlighting, symbols of Python, what plugins offer
  for completion, the order of candidates, what a Python text does, redirections of the
  paste commands, and what a paste command does as the stage of a pipeline, in a process of
  its own. A paste begins when
  nothing is unread in the terminal, and `prompt` assumes that one read takes all of it.
* The directory stack, `command -v`, the cache of commands on `PATH`: no property of theirs
  is worth a module of its own.
* `compat/profile_importer.py`, `compat/zsh_aliases.py`, `migration/script.py`: conversions
  of text without state. `services/*.py`: reads PID files that another program writes, and
  signals the process they name; the shell keeps no state of it. `diagnostics/*.py`: events
  are formatted and appended, nothing reads them back, and failures of the sink are
  swallowed. `prompt/*.py`: output and probing of the host. `cli.py`, `api.py`,
  `contracts/*.py`: entry points and declarations. `scripts/*.py`: release tooling.

## 7. Where code and documents differ

Shown by a run:

| Run | Documented | Code |
|---|---|---|
| `prompt_paste` | "Paste-end never returns a completed command and never queues pasted lines for execution" (`src/pysh/editor/lineedit/reader.py:30-33`), "Multiline paste is never executed or queued merely because it was pasted" (`docs/user/builtins.md:609`) | the test for a paste without markers looks at every read (`reader.py:322`): when a bracketed paste does not fit a read of 512 bytes, a read from its middle is split into commands, which run |

Also observed while modelling, without a run of their own (runs are kept for what holds).
The properties of section 4 are stated so that they hold of the program as it is; where one
has a condition for the sake of an item of this list, the item names it.

Jobs and processes:

* `false &` records exit status 0: the `Popen` object is dropped, the next one reaps the
  child in `subprocess._cleanup`, and `reap_background_jobs` gets ECHILD
  (`core/jobs.py:193-196`, against `docs/architecture/job-control-contract.md:333`).
* Ctrl+C on a foreground pipeline with a stopped stage does not end it: the pipeline's
  `waitpid(pid, 0)` has no `WUNTRACED` (`core/shell.py:1575`, against
  `docs/architecture/job-control-contract.md:121-124`, `240-244`).
* The status of a background pipeline is its last stage's only if that stage is reaped in
  the poll that finishes the job (`core/jobs.py:211`, against
  `docs/spec/pysh-language.md:135`).
* `fg` of a job that is Done marks it Running and records status 0 (`core/shell.py:2661`,
  against `docs/architecture/job-control-contract.md:134-140`).
* The `+` mark of `jobs` does not follow the current job (`core/jobs.py:238`).
* Without a terminal, Ctrl+C while the foreground command is stopped makes the shell wait
  for it without `WUNTRACED` (`core/shell.py:1772`); `PromptComesBack` is stated for shells
  with a terminal.
* A Stopped job whose process is killed keeps its record and its zombie until `fg` or `bg`:
  only Running jobs are polled (`core/jobs.py:186`).
* A `popd` whose `chdir` fails has lost the entry already (`core/shell.py:2600`).
* Ctrl+C within the `Popen` of a substitution, after the fork, finds `process` still `None`,
  and in the `finally` before `_kill_group` it skips the kill: the nested session, which gets
  no Ctrl+C of its own, is left alive (`parsing/expansion.py:361`, `375-380`, against
  "Whatever way the substitution ends (completion, timeout, output limit, cancellation,
  error) the group is SIGKILLed before its leader is reaped", lines 335-337). `Swept` excepts
  that group (`Unkilled`).
* Ctrl+C between `os.pipe` and the `try`, or in the outer `finally`, leaves descriptors of
  the capability open (lines 354-355, 385-388); between `os.close(cap_write)` and the
  assignment behind it, the second close fails and the Ctrl+C becomes an error of the
  substitution (lines 357-358). `leaked` records the first; no property forbids it.

Isolated plugins:

* The descendants of a plugin that shut down gracefully live on: the deadline does nothing
  once the child has exited, and a graceful shutdown signals no group. `DescendantsKilled`
  excepts it.
* A sink that raises for the FAILURE event skips `_finalize`; the runs have `SinkMayRaise =
  FALSE`.
* The deadline may fire after `_fail` has read that there is no violation; FAILURE and
  RESOURCE are then both reported (`plugins/isolated/runtime.py:478`, against
  `docs/security/resource-governor.md:242-243`).
* After a leader that was reaped within the grace, SIGKILL goes to its number
  (`plugins/isolated/runtime.py:569`, against `docs/security/resource-governor.md:209`); the
  model keeps the reuse of that number in `stranger` and `hit`.
* The broker allows reads of 256 KiB while the protocol's strings end at 64 KiB
  (`broker.py:38`, `protocol.py:28`), so a granted read in between fails the plugin.

History:

* With `dedup_mode` "global", compaction puts an entry at the place of its first use, so
  `max_length` may drop the command used last, and recall after a restart is not in order of
  recency (`editor/history.py:302-321`, against `docs/user/history.md:85-86`);
  `NewestSurvives` has a condition for it.
* A legacy line that is valid JSON (`true`, `42`) or begins with a brace is dropped by the
  first compaction (`editor/history.py:197-203`, against `docs/user/history.md:59`).
* A command with U+2028 comes back as a fragment of its JSON (`editor/history.py:193`).
* A read that fails in a compaction counts as an empty file and is written back
  (`editor/history.py:190-191`).
* An entry appended after a torn line is lost with it (the second half of a split one is
  not), against "valid entries before and
  after the corruption are retained" (`docs/user/history.md:145-146`).

Calls and files:

* A skipped element of a chain leaves the body of its here-document to the next command
  (`parsing/redirection.py:209`); `OwnDocs` has a condition for it.
* `pwd > /dev/full` leaves descriptor 1 redirected for the rest of the session: the flush in
  the `finally` of `_redirect_standard_fds` raises before anything is restored
  (`core/shell.py:394`, against its docstring, line 344). `FdsFollowCalls` has the condition
  `~stuck` for this.
* A sourced file with an `if`, `for` or `while` that is never closed raises out of
  `execute_rc` and ends the shell (`config/rc.py:348`, against "Invalid legacy rc lines are
  reported and the remaining file continues where possible",
  `docs/user/configuration.md:74`); in `~/.pyshrc` it prevents the start.
* `exit` in a sourced file is caught by `except Exception` and the file goes on
  (`config/rc.py:307`); Ctrl+C is not caught there and leaves the file.
* A sourced file with a `py` block that is never closed is reported, nothing of it is read,
  and `source` returns 0 (`config/rc.py:77-81`).
* Without a working directory every command raises `FileNotFoundError` out of `_run_simple`
  and ends the shell (`core/shell.py:1315`).
* A comment line resets the status of batch input (`core/shell.py:747`, against the
  docstring of `run_batch`).
* `paste_show ; other` runs while a paste is staged, as only the first word is looked at
  (`core/shell.py:1015`, against `docs/user/builtins.md:630-631`). `RunCommand` does the
  same; `PasteWaits` is about pasted texts only.
* Ctrl+C between two commands of a script or sourced file ends the interactive shell: `run`
  catches it at the prompt only (`core/shell.py:685-690`).
* `cat <<` and Enter at the prompt end the shell with status 1, also `echo # <<`: the
  `ParseError` is not caught (against status 2 in `docs/architecture/heredoc-contract.md:92`
  and `docs/user/limitations.md:134`).

Reading of lines (`WrittenLines` has none of these):

* `A=$?` alone on a line gives 0 (`core/shell.py:2825` expands without special parameters,
  against `docs/spec/pysh-language.md:183`).
* An apostrophe in an unquoted here-document body (`don't $A`) suppresses the expansion
  after it, as the body is scanned for quotes; body lines that end in a backslash are
  joined, also with a quoted delimiter (`parsing/multiline.py:88`).
* `py { # note` is refused as unterminated although PYSH-LANG-PY-BLOCK allows a trailing
  comment (`core/shell.py:2889`); a chain before a Python block in a pipeline (`a && c | py
  {`) is not split.
* `py print(1 > 0)` redirects into the file `0)`, `py print(1 << 4)` is a here-document
  error, `py print(1) | cat` gives `| cat` to Python, and `;` splits a `py` stage behind a
  pipe.
* `A=1;ls` and `A=1&&ls` without blanks are one word of `shlex`, so that the whole line is
  an assignment (`core/shell.py:2812`, against PYSH-LANG-CHAIN-SEQUENCE). `A=1 | cat` and
  `$U | cat` with `U` unset are refused with status 2; `'A=1' cmd` counts as an assignment.
* Redirection targets, bare assignments and here-strings keep the backslash of `"\$"`
  (`parsing/redirection.py:129`, `core/shell.py:2904`). The tilde of `> "~"` is expanded
  (`core/shell.py:274`), an unclosed quote in a target becomes part of the file name, `a>&2`
  is a parse error, and the background operator of `\>&` is not seen
  (`parsing/grammar.py:72`).
* `echo $?>f` with status 1 expands to `1>f`: values are expanded before the line is cut,
  and read again for quotes and operators, as documented.
* `"*"*` takes the quoted star for a pattern, `"~"/*` expands the quoted tilde, and `echo
  **` passes an empty first argument.
* An element that ends in an escaped blank loses the blank and keeps the backslash
  (`parsing/grammar.py:106`); empty elements of a chain drop their operator.
* `cat <<< $(echo hi)` ends the word at the blank inside the substitution
  (`parsing/heredoc.py:233`, against PYSH-LANG-HERESTRING-INPUT); `<<< $A` loses blanks of
  the value.
* An alias directly followed by `>` is not expanded, a quoted one is. Control words are
  recognised as the first word of a line only. Quoted text that looks like a zsh array
  reference or a glob qualifier refuses the line (`compat/zsh_diagnostics.py`).

Secure runner:

* Ctrl+C between `tty.setraw` and the assignment of `restore_input` leaves the terminal raw;
  `ModeRestored` has the condition `armed` for it. `setraw` discards what was typed ahead.
* Ctrl+C after the command was reaped, or twice, loses its status; `StatusIsTheCommands`
  excepts both.
* The indicator may stay on the screen when Ctrl+C ends the bridge
  (`security/secure_runner.py:364`, against `docs/architecture/signal-handling.md:180`), and
  its ring keeps the active slot into the next phase when output erased it (lines 334-336).

Sessions:

* Ctrl+C between the tables of one publication leaves part of a plugin behind
  (`plugins/manager.py:108`, against `docs/development/context-engineering.md:475`): with
  `WhilePublishing` TRUE, TLC finds `PluginsPublishedWhole` violated. An `api` object that a
  plugin keeps stages into a bundle nobody publishes.
* Ctrl+C between two environment hooks leaves the later ones uninformed.
* The `for` of an rc file or sourced file assigns its variable to `os.environ` itself
  (`config/rc.py:425-426`): no environment hook is told, against "Environment hooks receive
  `(name, old, new)` when exported PySH environment variables change"
  (`docs/plugins/plugin-api.md:155`), unless that is read as the "central shell mutation path"
  only, and the next change tells a hook an old value it has never seen. `HooksInformed`
  excepts what a loop has written, until the hook is told of the variable again.
* Ctrl+C between the assignment of a history option and the call of
  `history_engine.set_option` (`core/shell.py:3094-3095`), or between two of the calls of a
  reset (lines 3217-3219), leaves the engine with the old value while `history_options` has the
  new one, until the option is set again; a reset of everything stops half way.
  `EngineFollows` excepts these options (`behind`).
* `config_profile` with a profile that has an invalid option ends the shell, and an error
  for a key in any TOML file makes the valid value of a later file be skipped.

Prompt and editor:

* Paste markers behind an Enter in the same batch of keys are dropped, so that the pasted
  commands run, and an incomplete last line is queued (`_enqueue_from_events`). Editing keys
  typed ahead behind an Enter are dropped as well.
* A newline of a paste during Ctrl+R submits the match. A paste of several lines is dropped
  without a word in collectors, `paste_edit` and Python mode, where it also blocks Ctrl+R.
  Ctrl+C inside an unfinished paste is ignored. A paste without markers ignores the cursor
  and strips its lines.
* A common prefix may end in a backslash, a blank is added inside an open quote, commands
  are inserted unescaped; `CompletedAsOffered` is stated for names outside quotes.
* `<<` inside a comment starts the collection of a here-document. Ctrl+C in a collector
  keeps the queue of commands, and so does a `py {` nested in another.
* Python mode: `#save` is not atomic and saves an empty buffer as a newline; `#replace n`
  with an empty line deletes the line; Ctrl+C during a directive is not caught and ends the
  shell; `exit` inside the text of `paste_run` ends only the text. A signal between `setraw`
  and the `try` of the editor leaves raw mode till exit.
