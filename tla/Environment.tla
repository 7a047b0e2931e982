---------------------------- MODULE Environment ----------------------------
(***************************************************************************)
(* The environment of a shell (core/shell.py): the exported variables, the *)
(* shell's own copies of them, and the virtual environment, whose          *)
(* activation is undone by putting back what it had found.                 *)
(*                                                                         *)
(* A value is a sequence of words (the entries of PATH), Unset if there is *)
(* none.  Every change goes through put, one variable at a time; the calls *)
(* here answer with the sequence of puts they make.                        *)
(***************************************************************************)
EXTENDS Naturals, FiniteSets, SequencesExt, Functions

CONSTANTS
    Name,       \* the variables
    PATH, PYTHONHOME, VIRTUAL_ENV,
    Empty,      \* the empty entry of PATH
    Unset

ASSUME NameAssumption == {PATH, PYTHONHOME, VIRTUAL_ENV} \subseteq Name /\ IsFiniteSet(Name)

VARIABLES
    environ,    \* os.environ
    locals,     \* local_vars
    snapshot    \* what was found before the activation; Unset if none is active

environment == <<environ, locals, snapshot>>

InitEnvironment(initially) ==
    /\ environ = initially
    /\ locals = [n \in Name |-> Unset]
    /\ snapshot = Unset

\* _set_exported_environment; with Unset, _unset_exported_environment.
Put(n, v) ==
    /\ environ' = [environ EXCEPT ![n] = v]
    /\ locals' = [locals EXCEPT ![n] = v]
    /\ UNCHANGED snapshot

\* variant: what is unset is not told
ChangesIfSet(n, v) == v # Unset /\ environ[n] # v

\* The plugins are told of a put that changes something.
Changes(n, v) == environ[n] # v

put(n, v) == [do |-> "put", key |-> n, value |-> v]

VenvNames == <<PATH, PYTHONHOME, VIRTUAL_ENV>>

\* _builtin_export: NAME=value; NAME exports the shell's own value, else an
\* empty one if there is none.
ExportName(n) ==
    IF locals[n] # Unset THEN <<put(n, locals[n])>>
    ELSE IF environ[n] = Unset THEN <<put(n, <<Empty>>)>> ELSE <<>>

\* _assign_local
Assign(n, v) ==
    /\ locals' = [locals EXCEPT ![n] = v]
    /\ UNCHANGED <<environ, snapshot>>

(***************************************************************************)
(* The virtual environment.                                                *)
(***************************************************************************)
\* The first half of _restore_virtualenv_environment.
Restoring == [i \in DOMAIN VenvNames |-> put(VenvNames[i], snapshot.environ[VenvNames[i]])]

\* The second half; then deactivate forgets the snapshot.
RestoreLocals(clear) ==
    /\ locals' = [n \in Name |-> IF n \in Range(VenvNames) THEN snapshot.locals[n] ELSE locals[n]]
    /\ snapshot' = IF clear THEN Unset ELSE snapshot
    /\ UNCHANGED environ

\* _activate_virtualenv: the snapshot is taken by the first activation only; a
\* further one goes back to it first.
Found == [environ |-> Restrict(environ, Range(VenvNames)), locals |-> Restrict(locals, Range(VenvNames))]

\* variant: every activation takes one
TakeAlways == snapshot' = Found

TakeSnapshot == snapshot' = IF snapshot = Unset THEN Found ELSE snapshot

Entering(root) == <<[do |-> "prepend", key |-> PATH, value |-> <<root>>],
                    put(VIRTUAL_ENV, <<root>>), put(PYTHONHOME, Unset)>>

Activating(root) ==
    IF snapshot = Unset THEN Entering(root)
    ELSE Restoring \o <<[do |-> "locals", key |-> PATH, value |-> <<"keep">>]>> \o Entering(root)

\* The new PATH: the environment's bin first, and only there.
Prepended(root) ==
    LET base == IF environ[PATH] = Unset THEN <<Empty>> ELSE environ[PATH]
    IN <<root>> \o SelectSeq(base, LAMBDA entry : entry # root)

\* _builtin_deactivate
Deactivating ==
    IF snapshot = Unset THEN <<>>
    ELSE Restoring \o <<[do |-> "locals", key |-> PATH, value |-> <<"clear">>]>>

(***************************************************************************)
(* Properties.                                                             *)
(***************************************************************************)
\* Deactivation leaves the three variables, exported and of the shell, as the
\* first activation found them, whatever was activated or exported in between.
Restored(found) ==
    /\ Restrict(environ, Range(VenvNames)) = found.environ
    /\ Restrict(locals, Range(VenvNames)) = found.locals
=============================================================================
