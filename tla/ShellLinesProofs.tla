-------------------------- MODULE ShellLinesProofs --------------------------
(***************************************************************************)
(* For any files, lines and pasted text, and with interrupts, failing      *)
(* redirections, a full device or a working directory that disappears at   *)
(* any point: calls put back the script's name, its context, the paste     *)
(* flag and the standard descriptors, however they end; and every element  *)
(* of a chain runs if its operator says so, with its own here-documents.   *)
(***************************************************************************)
EXTENDS ShellLines, TLAPS, WellFoundedInduction

FileKind == {"rc", "script", "paste", "batch"}

\* What a step may not change of a call that goes on.
Keeps(f, g) ==
    /\ "call" \in DOMAIN g /\ g.call = f.call
    /\ f.call = "builtin" => g = f
    /\ f.call \in FileKind =>
          /\ {"file", "oldName", "oldContext"} \subseteq DOMAIN g
          /\ g.file = f.file /\ g.oldName = f.oldName /\ g.oldContext = f.oldContext

Kept(s, t, n) == \A i \in 1..n : Keeps(s[i], t[i])

IsStack(s) == \E S : s \in Seq(S)

\* The three things a step may do to the calls in progress.
Replaced(s, t)  == IsStack(t) /\ Len(t) = Len(s) /\ Kept(s, t, Len(s))
Pushed(s, t, x) == IsStack(t) /\ Len(t) = Len(s) + 1 /\ Kept(s, t, Len(s)) /\ t[Len(s) + 1] = x
Popped(s, t)    == IsStack(t) /\ Len(s) > 0 /\ Len(t) = Len(s) - 1 /\ Kept(s, t, Len(t))

(* The inductive invariant: what each call in progress has saved is what    *)
(* was true of the calls around it.                                         *)
Shape(s) ==
    /\ IsStack(s)
    /\ \A i \in 1..Len(s) :
          /\ "call" \in DOMAIN s[i] /\ s[i].call \in FileKind \union {"execute", "builtin"}
          /\ s[i].call \in FileKind => {"file", "oldName", "oldContext"} \subseteq DOMAIN s[i]

Names(s, x) ==
    /\ Innermost(s, {"script"}, Len(s), x)
    /\ \A i \in 1..Len(s) : s[i].call = "script" => Innermost(s, {"script"}, i - 1, s[i].oldName)

InContext(s, n, x) == x = None \/ Innermost(s, {"script", "paste"}, n, x)

Contexts(s, x) ==
    /\ InContext(s, Len(s), x)
    /\ \A i \in 1..Len(s) : s[i].call \in {"script", "paste"} => InContext(s, i - 1, s[i].oldContext)

Pastes(s, text, flag) ==
    /\ flag = \E i \in 1..Len(s) : s[i].call = "paste"
    /\ \A i \in 1..Len(s) : s[i].call = "paste" =>
          text = None /\ \A j \in 1..Len(s) : s[j].call = "paste" => i = j

Descriptors(s, d, failed) ==
    /\ ~failed => Connected(s, Len(s), d)
    /\ \A i \in 1..Len(s) : Redirected(s[i]) => Connected(s, i - 1, s[i].saved)

Sound(s, nm, cx, text, flag, d, failed) ==
    /\ Shape(s)
    /\ Names(s, nm)
    /\ Contexts(s, cx)
    /\ Pastes(s, text, flag)
    /\ Descriptors(s, d, failed)

IInv == Sound(stack, name, context, staged, pasting, fds, stuck)

----------------------------------------------------------------------------
(* Sequences of calls.                                                      *)

\* Length and domain.
LEMMA StackLength ==
    ASSUME NEW s, IsStack(s) PROVE Len(s) \in Nat /\ DOMAIN s = 1..Len(s)
BY DEF IsStack

\* Append adds one call.
LEMMA Appended ==
    ASSUME NEW s, NEW x, IsStack(s)
    PROVE  /\ IsStack(Append(s, x)) /\ Len(Append(s, x)) = Len(s) + 1
           /\ \A i \in 1..Len(s) : Append(s, x)[i] = s[i]
           /\ Append(s, x)[Len(s) + 1] = x
<1>1. PICK S : s \in Seq(S)
      BY DEF IsStack
<1>2. s \in Seq(S \union {x})
      BY <1>1
<1>3. Append(s, x) \in Seq(S \union {x})
      BY <1>2
<1> QED BY <1>2, <1>3 DEF IsStack

\* Front removes the last call.
LEMMA Removed ==
    ASSUME NEW s, IsStack(s), s # <<>>
    PROVE  /\ Len(s) \in Nat \ {0} /\ IsStack(Front(s)) /\ Len(Front(s)) = Len(s) - 1
           /\ \A i \in 1..(Len(s) - 1) : Front(s)[i] = s[i]
<1>1. PICK S : s \in Seq(S)
      BY DEF IsStack
<1>2. Len(s) \in Nat /\ Len(s) # 0
      BY <1>1
<1>3. /\ SubSeq(s, 1, Len(s) - 1) \in Seq(S)
      /\ Len(SubSeq(s, 1, Len(s) - 1)) = Len(s) - 1
      /\ \A i \in 1..(Len(s) - 1) : SubSeq(s, 1, Len(s) - 1)[i] = s[i]
      BY <1>1, <1>2
<1> QED BY <1>2, <1>3 DEF IsStack, Front

\* A call is kept by no change.
LEMMA KeepsItself ==
    ASSUME NEW s, Shape(s), NEW i \in 1..Len(s) PROVE Keeps(s[i], s[i])
BY DEF Shape, Keeps

\* The innermost call is replaced by one that keeps what it saved.
LEMMA WithReplaces ==
    ASSUME Shape(stack), stack # <<>>, NEW f, Keeps(Top, f)
    PROVE  Replaced(stack, With(f)) /\ With(f)[Len(stack)] = f
<1> DEFINE c == Front(stack)
<1>1. /\ Len(stack) \in Nat \ {0} /\ IsStack(c) /\ Len(c) = Len(stack) - 1
      /\ \A i \in 1..(Len(stack) - 1) : c[i] = stack[i]
      BY Removed DEF Shape
<1>2. /\ IsStack(Append(c, f)) /\ Len(Append(c, f)) = Len(c) + 1
      /\ \A i \in 1..Len(c) : Append(c, f)[i] = c[i]
      /\ Append(c, f)[Len(c) + 1] = f
      BY <1>1, Appended
<1>3. ASSUME NEW i \in 1..Len(stack) PROVE Keeps(stack[i], Append(c, f)[i])
  <2>1. CASE i = Len(stack)
        BY <2>1, <1>1, <1>2 DEF Top
  <2>2. CASE i # Len(stack)
    <3>1. i \in 1..(Len(stack) - 1) /\ i \in 1..Len(c)
          BY <2>2, <1>1
    <3>2. Append(c, f)[i] = stack[i]
          BY <3>1, <1>1, <1>2
    <3> QED BY <3>2, KeepsItself
  <2> QED BY <2>1, <2>2
<1> QED BY <1>1, <1>2, <1>3 DEF Replaced, Kept, With, Callers

\* A call is added.
LEMMA AppendPushes ==
    ASSUME NEW s, Shape(s), NEW x PROVE Pushed(s, Append(s, x), x)
<1>1. /\ IsStack(Append(s, x)) /\ Len(Append(s, x)) = Len(s) + 1
      /\ \A i \in 1..Len(s) : Append(s, x)[i] = s[i]
      /\ Append(s, x)[Len(s) + 1] = x
      BY Appended DEF Shape
<1>2. \A i \in 1..Len(s) : Keeps(s[i], Append(s, x)[i])
      BY <1>1, KeepsItself
<1> QED BY <1>1, <1>2 DEF Pushed, Kept

\* The innermost call ends.
LEMMA CallersPop ==
    ASSUME Shape(stack), stack # <<>> PROVE Popped(stack, Callers)
<1>1. /\ Len(stack) \in Nat \ {0} /\ IsStack(Front(stack)) /\ Len(Front(stack)) = Len(stack) - 1
      /\ \A i \in 1..(Len(stack) - 1) : Front(stack)[i] = stack[i]
      BY Removed DEF Shape
<1>2. ASSUME NEW i \in 1..(Len(stack) - 1) PROVE Keeps(stack[i], Front(stack)[i])
  <2>1. i \in 1..Len(stack)
        BY <1>1
  <2> QED BY <2>1, <1>1, KeepsItself
<1> QED BY <1>1, <1>2 DEF Popped, Kept, Callers

\* A call is added to a stack whose innermost call was replaced.
LEMMA PushAfterReplace ==
    ASSUME NEW s, NEW t, NEW u, NEW x, IsStack(s), Replaced(s, t), Pushed(t, u, x)
    PROVE  Pushed(s, u, x)
<1>1. Len(s) \in Nat /\ Len(t) = Len(s)
      BY StackLength DEF Replaced
<1>2. ASSUME NEW i \in 1..Len(s) PROVE Keeps(s[i], u[i])
  <2>1. Keeps(s[i], t[i]) /\ Keeps(t[i], u[i])
        BY <1>1 DEF Replaced, Pushed, Kept
  <2> QED BY <2>1 DEF Keeps
<1> QED BY <1>1, <1>2 DEF Pushed, Kept

----------------------------------------------------------------------------
(* What is said of the first n calls is kept with them.                     *)

\* The innermost call of a kind.
LEMMA InnermostKept ==
    ASSUME NEW s, NEW t, NEW n \in Nat, Kept(s, t, n), NEW kinds \in SUBSET FileKind, NEW x,
           Innermost(s, kinds, n, x)
    PROVE  Innermost(t, kinds, n, x)
<1>1. \A i \in 1..n : t[i].call = s[i].call /\ (s[i].call \in kinds => t[i].file = s[i].file)
      BY DEF Kept, Keeps
<1>2. CASE x = None /\ \A i \in 1..n : s[i].call \notin kinds
      BY <1>1, <1>2 DEF Innermost
<1>3. CASE \E i \in 1..n : /\ s[i].call \in kinds /\ s[i].file = x
                           /\ \A j \in (i + 1)..n : s[j].call \notin kinds
  <2>1. PICK i \in 1..n : /\ s[i].call \in kinds /\ s[i].file = x
                          /\ \A j \in (i + 1)..n : s[j].call \notin kinds
        BY <1>3
  <2>2. \A j \in (i + 1)..n : t[j].call \notin kinds
    <3>1. SUFFICES ASSUME NEW j \in (i + 1)..n PROVE t[j].call \notin kinds
          OBVIOUS
    <3>2. j \in 1..n
          OBVIOUS
    <3> QED BY <3>2, <2>1, <1>1
  <2>3. t[i].call \in kinds /\ t[i].file = x
        BY <2>1, <1>1
  <2> QED BY <2>2, <2>3 DEF Innermost
<1> QED BY <1>2, <1>3 DEF Innermost

\* One more call that is not of a kind.
LEMMA InnermostBelow ==
    ASSUME NEW s, NEW n \in Nat, NEW kinds, NEW x, s[n + 1].call \notin kinds
    PROVE  Innermost(s, kinds, n + 1, x) <=> Innermost(s, kinds, n, x)
<1>1. ASSUME Innermost(s, kinds, n + 1, x) PROVE Innermost(s, kinds, n, x)
  <2>1. CASE x = None /\ \A i \in 1..(n + 1) : s[i].call \notin kinds
        BY <2>1 DEF Innermost
  <2>2. CASE \E i \in 1..(n + 1) : /\ s[i].call \in kinds /\ s[i].file = x
                                   /\ \A j \in (i + 1)..(n + 1) : s[j].call \notin kinds
    <3>1. PICK i \in 1..(n + 1) : /\ s[i].call \in kinds /\ s[i].file = x
                                  /\ \A j \in (i + 1)..(n + 1) : s[j].call \notin kinds
          BY <2>2
    <3>2. i \in 1..n
          BY <3>1
    <3>3. \A j \in (i + 1)..n : s[j].call \notin kinds
          BY <3>1
    <3> QED BY <3>1, <3>2, <3>3 DEF Innermost
  <2> QED BY <1>1, <2>1, <2>2 DEF Innermost
<1>2. ASSUME Innermost(s, kinds, n, x) PROVE Innermost(s, kinds, n + 1, x)
  <2>1. CASE x = None /\ \A i \in 1..n : s[i].call \notin kinds
    <3>1. \A i \in 1..(n + 1) : i \in 1..n \/ i = n + 1
          OBVIOUS
    <3> QED BY <3>1, <2>1 DEF Innermost
  <2>2. CASE \E i \in 1..n : /\ s[i].call \in kinds /\ s[i].file = x
                             /\ \A j \in (i + 1)..n : s[j].call \notin kinds
    <3>1. PICK i \in 1..n : /\ s[i].call \in kinds /\ s[i].file = x
                            /\ \A j \in (i + 1)..n : s[j].call \notin kinds
          BY <2>2
    <3>2. i \in 1..(n + 1) /\ \A j \in (i + 1)..(n + 1) : j \in (i + 1)..n \/ j = n + 1
          OBVIOUS
    <3> QED BY <3>1, <3>2 DEF Innermost
  <2> QED BY <1>2, <2>1, <2>2 DEF Innermost
<1> QED BY <1>1, <1>2

\* What the descriptors are connected to.
LEMMA ConnectedKept ==
    ASSUME NEW s, NEW t, NEW n \in Nat, Kept(s, t, n), NEW x, Connected(s, n, x)
    PROVE  Connected(t, n, x)
<1>1. \A i \in 1..n : /\ Redirected(t[i]) <=> Redirected(s[i])
                      /\ Redirected(s[i]) => t[i] = s[i]
      BY DEF Kept, Keeps, Redirected
<1>2. CASE x = Own /\ \A i \in 1..n : ~Redirected(s[i])
      BY <1>1, <1>2 DEF Connected
<1>3. CASE \E i \in 1..n : /\ Redirected(s[i]) /\ x = Applied(s[i].cmd.spec, s[i].saved)
                           /\ \A j \in (i + 1)..n : ~Redirected(s[j])
  <2>1. PICK i \in 1..n : /\ Redirected(s[i]) /\ x = Applied(s[i].cmd.spec, s[i].saved)
                          /\ \A j \in (i + 1)..n : ~Redirected(s[j])
        BY <1>3
  <2>2. \A j \in (i + 1)..n : j \in 1..n
        OBVIOUS
  <2>3. Redirected(t[i]) /\ t[i] = s[i] /\ \A j \in (i + 1)..n : ~Redirected(t[j])
        BY <1>1, <2>1, <2>2
  <2> QED BY <2>1, <2>3 DEF Connected
<1> QED BY <1>2, <1>3 DEF Connected

\* One more call that is not redirected.
LEMMA ConnectedBelow ==
    ASSUME NEW s, NEW n \in Nat, NEW x, ~Redirected(s[n + 1])
    PROVE  Connected(s, n + 1, x) <=> Connected(s, n, x)
<1>1. ASSUME Connected(s, n + 1, x) PROVE Connected(s, n, x)
  <2>1. CASE x = Own /\ \A i \in 1..(n + 1) : ~Redirected(s[i])
        BY <2>1 DEF Connected
  <2>2. CASE \E i \in 1..(n + 1) : /\ Redirected(s[i]) /\ x = Applied(s[i].cmd.spec, s[i].saved)
                                   /\ \A j \in (i + 1)..(n + 1) : ~Redirected(s[j])
    <3>1. PICK i \in 1..(n + 1) : /\ Redirected(s[i]) /\ x = Applied(s[i].cmd.spec, s[i].saved)
                                  /\ \A j \in (i + 1)..(n + 1) : ~Redirected(s[j])
          BY <2>2
    <3>2. i \in 1..n
          BY <3>1
    <3>3. \A j \in (i + 1)..n : ~Redirected(s[j])
          BY <3>1
    <3> QED BY <3>1, <3>2, <3>3 DEF Connected
  <2> QED BY <1>1, <2>1, <2>2 DEF Connected
<1>2. ASSUME Connected(s, n, x) PROVE Connected(s, n + 1, x)
  <2>1. CASE x = Own /\ \A i \in 1..n : ~Redirected(s[i])
    <3>1. \A i \in 1..(n + 1) : i \in 1..n \/ i = n + 1
          OBVIOUS
    <3> QED BY <3>1, <2>1 DEF Connected
  <2>2. CASE \E i \in 1..n : /\ Redirected(s[i]) /\ x = Applied(s[i].cmd.spec, s[i].saved)
                             /\ \A j \in (i + 1)..n : ~Redirected(s[j])
    <3>1. PICK i \in 1..n : /\ Redirected(s[i]) /\ x = Applied(s[i].cmd.spec, s[i].saved)
                            /\ \A j \in (i + 1)..n : ~Redirected(s[j])
          BY <2>2
    <3>2. i \in 1..(n + 1) /\ \A j \in (i + 1)..(n + 1) : j \in (i + 1)..n \/ j = n + 1
          OBVIOUS
    <3> QED BY <3>1, <3>2 DEF Connected
  <2> QED BY <1>2, <2>1, <2>2 DEF Connected
<1> QED BY <1>1, <1>2

----------------------------------------------------------------------------
(* The invariant under the three changes.                                   *)

\* The calls that are kept have their shape.
LEMMA ShapeKept ==
    ASSUME NEW s, NEW t, NEW n \in Nat, Shape(s), Kept(s, t, n), n <= Len(s), NEW i \in 1..n
    PROVE  /\ "call" \in DOMAIN t[i] /\ t[i].call \in FileKind \union {"execute", "builtin"}
           /\ t[i].call \in FileKind => {"file", "oldName", "oldContext"} \subseteq DOMAIN t[i]
<1>1. i \in 1..Len(s)
      BY StackLength DEF Shape
<1> QED BY <1>1 DEF Kept, Keeps, Shape

\* What the calls that are kept have saved stays true.
LEMMA SavedKept ==
    ASSUME NEW s, NEW t, NEW n \in Nat, Kept(s, t, n), n <= Len(s), Shape(s),
           NEW nm, NEW cx, NEW d, NEW failed,
           Names(s, nm), Contexts(s, cx), Descriptors(s, d, failed), NEW i \in 1..n
    PROVE  /\ t[i].call = "script" => Innermost(t, {"script"}, i - 1, t[i].oldName)
           /\ t[i].call \in {"script", "paste"} => InContext(t, i - 1, t[i].oldContext)
           /\ Redirected(t[i]) => Connected(t, i - 1, t[i].saved)
<1>1. i \in 1..Len(s) /\ i - 1 \in Nat /\ Kept(s, t, i - 1)
      BY StackLength DEF Shape, Kept
<1>2. Keeps(s[i], t[i])
      BY DEF Kept
<1>3. ASSUME t[i].call = "script" PROVE Innermost(t, {"script"}, i - 1, t[i].oldName)
  <2>1. Innermost(s, {"script"}, i - 1, t[i].oldName)
        BY <1>1, <1>2, <1>3 DEF Keeps, Names, FileKind
  <2> QED BY <2>1, <1>1, InnermostKept DEF FileKind
<1>4. ASSUME t[i].call \in {"script", "paste"} PROVE InContext(t, i - 1, t[i].oldContext)
  <2>1. InContext(s, i - 1, t[i].oldContext)
        BY <1>1, <1>2, <1>4 DEF Keeps, Contexts, FileKind
  <2> QED BY <2>1, <1>1, InnermostKept DEF FileKind, InContext
<1>5. ASSUME Redirected(t[i]) PROVE Connected(t, i - 1, t[i].saved)
  <2>1. t[i] = s[i]
        BY <1>2, <1>5 DEF Keeps, Redirected
  <2>2. Connected(s, i - 1, t[i].saved)
        BY <1>1, <1>5, <2>1 DEF Descriptors
  <2> QED BY <2>2, <1>1, ConnectedKept
<1> QED BY <1>3, <1>4, <1>5

\* The innermost call goes on.
LEMMA WhenReplaced ==
    ASSUME NEW s, NEW t, NEW nm, NEW cx, NEW text, NEW flag, NEW d, NEW failed,
           Sound(s, nm, cx, text, flag, d, failed), Replaced(s, t)
    PROVE  Sound(t, nm, cx, text, flag, d, failed)
<1> DEFINE n == Len(s)
<1>1. /\ n \in Nat /\ Len(t) = n /\ Kept(s, t, n) /\ IsStack(t)
      /\ Shape(s) /\ Names(s, nm) /\ Contexts(s, cx) /\ Pastes(s, text, flag)
      /\ Descriptors(s, d, failed)
      BY StackLength DEF Sound, Shape, Replaced
<1>2. Shape(t)
      BY <1>1, ShapeKept DEF Shape
<1>3. Names(t, nm)
      BY <1>1, SavedKept, InnermostKept DEF Names, FileKind
<1>4. Contexts(t, cx)
  <2>1. InContext(t, n, cx)
        BY <1>1, InnermostKept DEF Contexts, InContext, FileKind
  <2> QED BY <1>1, <2>1, SavedKept DEF Contexts
<1>5. Pastes(t, text, flag)
  <2>1. \A i \in 1..n : t[i].call = s[i].call
        BY <1>1 DEF Kept, Keeps
  <2> QED BY <1>1, <2>1 DEF Pastes
<1>6. Descriptors(t, d, failed)
      BY <1>1, SavedKept, ConnectedKept DEF Descriptors
<1> QED BY <1>2, <1>3, <1>4, <1>5, <1>6 DEF Sound

\* What a call x does first to the variables: it saves what it changes.
SavesText(x, nm, cx, nm2, cx2) ==
    /\ x.call = "script" => nm2 = x.file /\ x.oldName = nm
    /\ x.call # "script" => nm2 = nm
    /\ x.call \in {"script", "paste"} => cx2 = None /\ x.oldContext = cx
    /\ x.call \notin {"script", "paste"} => cx2 = cx

SavesPaste(x, text, flag, text2, flag2) ==
    /\ x.call = "paste" => text # None /\ text2 = None /\ flag2 = TRUE
    /\ x.call # "paste" => text2 = text /\ flag2 = flag

SavesDescriptors(x, d, failed, d2) ==
    /\ Redirected(x) => ~failed /\ x.saved = d /\ d2 = Applied(x.cmd.spec, x.saved)
    /\ ~Redirected(x) => d2 = d

Shaped(x) ==
    /\ "call" \in DOMAIN x /\ x.call \in FileKind \union {"execute", "builtin"}
    /\ x.call \in FileKind => {"file", "oldName", "oldContext"} \subseteq DOMAIN x

\* A call begins.
LEMMA WhenPushed ==
    ASSUME NEW s, NEW t, NEW x, NEW nm, NEW cx, NEW text, NEW flag, NEW d, NEW failed,
           Sound(s, nm, cx, text, flag, d, failed), Pushed(s, t, x),
           NEW nm2, NEW cx2, NEW text2, NEW flag2, NEW d2,
           Shaped(x), SavesText(x, nm, cx, nm2, cx2), SavesPaste(x, text, flag, text2, flag2),
           SavesDescriptors(x, d, failed, d2)
    PROVE  Sound(t, nm2, cx2, text2, flag2, d2, failed)
<1> DEFINE n == Len(s)
<1> USE DEF Shaped, SavesText, SavesPaste, SavesDescriptors
<1>1. /\ n \in Nat /\ Len(t) = n + 1 /\ Kept(s, t, n) /\ IsStack(t) /\ t[n + 1] = x
      /\ Shape(s) /\ Names(s, nm) /\ Contexts(s, cx) /\ Pastes(s, text, flag)
      /\ Descriptors(s, d, failed)
      BY StackLength DEF Sound, Shape, Pushed
<1>2. \A i \in 1..(n + 1) : i \in 1..n \/ i = n + 1
      BY <1>1
<1>3. Shape(t)
      BY <1>1, <1>2, ShapeKept DEF Shape
<1>4. Names(t, nm2)
  <2>1. Innermost(t, {"script"}, n, nm)
        BY <1>1, InnermostKept DEF Names, FileKind
  <2>2. \A i \in 1..(n + 1) : t[i].call = "script" => Innermost(t, {"script"}, i - 1, t[i].oldName)
        BY <1>1, <1>2, <2>1, SavedKept
  <2>3. Innermost(t, {"script"}, n + 1, nm2)
    <3>1. CASE x.call = "script"
      <4>1. n + 1 \in 1..(n + 1) /\ \A j \in ((n + 1) + 1)..(n + 1) : FALSE
            BY <1>1
      <4> QED BY <3>1, <4>1, <1>1 DEF Innermost
    <3>2. CASE x.call # "script"
          BY <3>2, <1>1, <2>1, InnermostBelow
    <3> QED BY <3>1, <3>2
  <2> QED BY <1>1, <2>2, <2>3 DEF Names
<1>5. Contexts(t, cx2)
  <2>1. InContext(t, n, cx)
        BY <1>1, InnermostKept DEF Contexts, InContext, FileKind
  <2>2. \A i \in 1..(n + 1) : t[i].call \in {"script", "paste"} => InContext(t, i - 1, t[i].oldContext)
        BY <1>1, <1>2, <2>1, SavedKept
  <2>3. InContext(t, n + 1, cx2)
        BY <1>1, <2>1, InnermostBelow DEF InContext
  <2> QED BY <1>1, <2>2, <2>3 DEF Contexts
<1>6. Pastes(t, text2, flag2)
  <2>1. \A i \in 1..n : t[i].call = s[i].call
        BY <1>1 DEF Kept, Keeps
  <2>2. CASE x.call = "paste"
    <3>1. \A i \in 1..n : t[i].call # "paste"
          BY <2>1, <2>2, <1>1 DEF Pastes
    <3>2. n + 1 \in 1..(n + 1)
          BY <1>1
    <3> QED BY <3>1, <3>2, <2>2, <1>1, <1>2 DEF Pastes
  <2>3. CASE x.call # "paste"
    <3>1. \A i \in 1..(n + 1) : t[i].call = "paste" => i \in 1..n /\ s[i].call = "paste"
          BY <2>1, <2>3, <1>1, <1>2
    <3>2. \A i \in 1..n : i \in 1..(n + 1)
          BY <1>1
    <3> QED BY <3>1, <3>2, <2>1, <2>3, <1>1 DEF Pastes
  <2> QED BY <2>2, <2>3
<1>7. Descriptors(t, d2, failed)
  <2>1. ~failed => Connected(t, n, d)
        BY <1>1, ConnectedKept DEF Descriptors
  <2>2. \A i \in 1..(n + 1) : Redirected(t[i]) => Connected(t, i - 1, t[i].saved)
        BY <1>1, <1>2, <2>1, SavedKept
  <2>3. ASSUME ~failed PROVE Connected(t, n + 1, d2)
    <3>1. CASE Redirected(x)
      <4>1. n + 1 \in 1..(n + 1) /\ \A j \in ((n + 1) + 1)..(n + 1) : FALSE
            BY <1>1
      <4> QED BY <3>1, <4>1, <1>1 DEF Connected
    <3>2. CASE ~Redirected(x)
          BY <3>2, <2>3, <1>1, <2>1, ConnectedBelow
    <3> QED BY <3>1, <3>2
  <2> QED BY <1>1, <2>2, <2>3 DEF Descriptors
<1> QED BY <1>3, <1>4, <1>5, <1>6, <1>7 DEF Sound

\* A line or a builtin begins.
LEMMA WhenPlainPushed ==
    ASSUME NEW s, NEW t, NEW x, NEW nm, NEW cx, NEW text, NEW flag, NEW d, NEW failed,
           Sound(s, nm, cx, text, flag, d, failed), Pushed(s, t, x), NEW d2,
           "call" \in DOMAIN x, x.call \in {"execute", "builtin"},
           Redirected(x) => ~failed /\ x.saved = d /\ d2 = Applied(x.cmd.spec, x.saved),
           ~Redirected(x) => d2 = d
    PROVE  Sound(t, nm, cx, text, flag, d2, failed)
<1>1. x.call \notin FileKind /\ x.call # "script" /\ x.call # "paste"
      BY DEF FileKind
<1>2. /\ Shaped(x) /\ SavesText(x, nm, cx, nm, cx) /\ SavesPaste(x, text, flag, text, flag)
      /\ SavesDescriptors(x, d, failed, d2)
      BY <1>1 DEF Shaped, SavesText, SavesPaste, SavesDescriptors
<1> QED BY <1>2, WhenPushed

\* What a call x does last to the variables: it puts back what it has saved.
PutBack(x, nm, cx, text, flag, d, failed, nm2, cx2, text2, flag2, d2) ==
    /\ x.call = "script" => nm2 = x.oldName
    /\ x.call # "script" => nm2 = nm
    /\ x.call \in {"script", "paste"} => cx2 = x.oldContext
    /\ x.call \notin {"script", "paste"} => cx2 = cx
    /\ x.call = "paste" => text2 = None /\ flag2 = FALSE
    /\ x.call # "paste" => text2 = text /\ flag2 = flag
    /\ Redirected(x) /\ ~failed => d2 = x.saved
    /\ ~Redirected(x) => d2 = d

\* A call ends, and puts back what it has saved.
LEMMA WhenPopped ==
    ASSUME NEW s, NEW t, NEW nm, NEW cx, NEW text, NEW flag, NEW d, NEW failed,
           Sound(s, nm, cx, text, flag, d, failed), Popped(s, t),
           NEW nm2, NEW cx2, NEW text2, NEW flag2, NEW d2,
           PutBack(s[Len(s)], nm, cx, text, flag, d, failed, nm2, cx2, text2, flag2, d2)
    PROVE  Sound(t, nm2, cx2, text2, flag2, d2, failed)
<1> DEFINE n == Len(t)
<1> USE DEF PutBack
<1>1. /\ n \in Nat /\ Len(s) = n + 1 /\ Kept(s, t, n) /\ IsStack(t)
      /\ Shape(s) /\ Names(s, nm) /\ Contexts(s, cx) /\ Pastes(s, text, flag)
      /\ Descriptors(s, d, failed)
      BY StackLength DEF Sound, Shape, Popped
<1>2. n <= Len(s) /\ n + 1 \in 1..Len(s) /\ (n + 1) - 1 = n /\ \A i \in 1..n : i \in 1..Len(s)
      BY <1>1
<1>3. Shape(t)
      BY <1>1, <1>2, ShapeKept DEF Shape
<1>4. Names(t, nm2)
  <2>1. Innermost(s, {"script"}, n, nm2)
        BY <1>1, <1>2, InnermostBelow, ZenonT(60) DEF Names
  <2>2. Innermost(t, {"script"}, n, nm2)
        BY <1>1, <2>1, InnermostKept DEF FileKind
  <2> QED BY <1>1, <1>2, <2>2, SavedKept DEF Names
<1>5. Contexts(t, cx2)
  <2>1. InContext(s, n, cx2)
        BY <1>1, <1>2, InnermostBelow DEF Contexts, InContext
  <2>2. InContext(t, n, cx2)
        BY <1>1, <2>1, InnermostKept DEF FileKind, InContext
  <2> QED BY <1>1, <1>2, <2>2, SavedKept DEF Contexts
<1>6. Pastes(t, text2, flag2)
  <2>1. \A i \in 1..n : t[i].call = s[i].call
        BY <1>1 DEF Kept, Keeps
  <2>2. CASE s[n + 1].call = "paste"
    <3>1. \A i \in 1..n : i # n + 1 /\ s[i].call # "paste"
          BY <2>2, <1>1, <1>2 DEF Pastes
    <3> QED BY <2>1, <2>2, <3>1, <1>1 DEF Pastes
  <2>3. CASE s[n + 1].call # "paste"
    <3>1. \A i \in 1..Len(s) : s[i].call = "paste" => i \in 1..n
          BY <2>3, <1>1
    <3> QED BY <2>1, <2>3, <3>1, <1>1, <1>2 DEF Pastes
  <2> QED BY <2>2, <2>3
<1>7. Descriptors(t, d2, failed)
  <2>1. ~failed => Connected(s, n, d2)
        BY <1>1, <1>2, ConnectedBelow DEF Descriptors
  <2>2. ~failed => Connected(t, n, d2)
        BY <1>1, <2>1, ConnectedKept
  <2> QED BY <1>1, <1>2, <2>2, SavedKept DEF Descriptors
<1> QED BY <1>3, <1>4, <1>5, <1>6, <1>7 DEF Sound

----------------------------------------------------------------------------
(* The steps of the shell.                                                  *)

\* A call that goes on keeps what it has saved.
LEMMA TopKeeps ==
    ASSUME Shape(stack), stack # <<>>
    PROVE  /\ Len(stack) \in Nat \ {0} /\ Len(stack) \in 1..Len(stack)
           /\ "call" \in DOMAIN Top /\ Top.call \in FileKind \union {"execute", "builtin"}
           /\ Top.call \in FileKind => {"file", "oldName", "oldContext"} \subseteq DOMAIN Top
BY Removed DEF Shape, Top

\* The innermost line records what an element did.
LEMMA ProgressKeeps ==
    ASSUME IInv, In({"execute"}), NEW f, stack' = With(f), f.call = "execute", "call" \in DOMAIN f,
           UNCHANGED <<script, paste, streams>>
    PROVE  IInv'
<1>1. Shape(stack) /\ stack # <<>> /\ Top.call = "execute"
      BY DEF IInv, Sound, In
<1>2. Keeps(Top, f)
      BY <1>1 DEF Keeps, FileKind
<1>3. Replaced(stack, stack')
      BY <1>1, <1>2, WithReplaces
<1> QED BY <1>3, WhenReplaced DEF IInv, script, paste, streams

\* Nothing that the invariant speaks of changes.
LEMMA NothingChanges ==
    ASSUME IInv, UNCHANGED <<stack, script, paste, streams>> PROVE IInv'
BY DEF IInv, script, paste, streams

\* A line or a builtin without redirections ends.
LEMMA PlainCallEnds ==
    ASSUME IInv, stack # <<>>, Top.call \notin FileKind, ~Redirected(Top), stack' = Callers,
           UNCHANGED <<script, paste, streams>>
    PROVE  IInv'
<1>1. Popped(stack, stack')
      BY CallersPop DEF IInv, Sound
<1>2. PutBack(Top, name, context, staged, pasting, fds, stuck, name, context, staged, pasting, fds)
      BY DEF PutBack, FileKind
<1>3. Sound(stack', name, context, staged, pasting, fds, stuck)
      BY <1>1, <1>2, WhenPopped DEF IInv, Top
<1> QED BY <1>3 DEF IInv, script, paste, streams

\* Past and BodiesTaken keep the call.
LEMMA ExecuteFrames ==
    ASSUME IInv, In({"execute"})
    PROVE  /\ "call" \in DOMAIN BodiesTaken /\ BodiesTaken.call = "execute"
           /\ \A ran, status : \E f : /\ Past(ran, status) = With(f)
                                      /\ f.call = "execute" /\ "call" \in DOMAIN f
<1>1. Top.call = "execute" /\ "call" \in DOMAIN Top
      BY TopKeeps DEF IInv, Sound, In
<1>2. "call" \in DOMAIN BodiesTaken /\ BodiesTaken.call = "execute"
      BY <1>1 DEF BodiesTaken
<1>3. ASSUME NEW ran, NEW status
      PROVE  \E f : /\ Past(ran, status) = With(f)
                    /\ f.call = "execute" /\ "call" \in DOMAIN f
  <2> DEFINE g == [Top EXCEPT !.rest = Tail(@), !.status = status, !.got = <<>>,
                     !.run  = Decided(Current.op, status),
                     !.done = Append(@, [op |-> Current.op, docs |-> Current.cmd.docs,
                                         got |-> Top.got, ran |-> ran, status |-> status])]
  <2>1. g.call = "execute" /\ "call" \in DOMAIN g
        BY <1>1
  <2> QED BY <2>1 DEF Past
<1> QED BY <1>2, <1>3

\* The elements of a chain.
LEMMA LineSteps ==
    ASSUME IInv, SkipElement \/ BrokenElement \/ RunCommand \/ ElementDone \/ LineEnds \/ LineUnwinds
    PROVE  IInv'
<1>1. CASE SkipElement
  <2>1. In({"execute"}) /\ stack' = Past(FALSE, Top.status) /\ UNCHANGED <<script, paste, streams>>
        BY <1>1 DEF SkipElement
  <2> QED BY <2>1, ExecuteFrames, ProgressKeeps
<1>2. CASE BrokenElement
      BY <1>2, NothingChanges DEF BrokenElement
<1>3. CASE RunCommand
  <2>1. In({"execute"}) /\ stack' = With(BodiesTaken) /\ UNCHANGED <<script, paste, streams>>
        BY <1>3 DEF RunCommand, Starts
  <2> QED BY <2>1, ExecuteFrames, ProgressKeeps
<1>4. CASE ElementDone
  <2>1. In({"execute"}) /\ stack' = Past(TRUE, result.code) /\ UNCHANGED <<script, paste, streams>>
        BY <1>4 DEF ElementDone
  <2> QED BY <2>1, ExecuteFrames, ProgressKeeps
<1>5. CASE LineEnds \/ LineUnwinds
  <2>1. In({"execute"}) /\ stack' = Callers /\ UNCHANGED <<script, paste, streams>>
        BY <1>5 DEF LineEnds, LineUnwinds
  <2>2. stack # <<>> /\ Top.call \notin FileKind /\ ~Redirected(Top)
        BY <2>1 DEF In, FileKind, Redirected
  <2> QED BY <2>1, <2>2, PlainCallEnds
<1> QED BY <1>1, <1>2, <1>3, <1>4, <1>5

\* A builtin saves the descriptors it redirects.
LEMMA BuiltinBegins ==
    ASSUME IInv, BeginBuiltin \/ RedirectionFails PROVE IInv'
<1>1. In({"execute"}) /\ Shape(stack) /\ stack # <<>>
      BY DEF BeginBuiltin, RedirectionFails, Starts, IInv, Sound, In
<1>2. "call" \in DOMAIN BodiesTaken /\ BodiesTaken.call = "execute"
      BY <1>1, ExecuteFrames
<1> DEFINE cmd == Current.cmd
           b   == With(BodiesTaken)
           x   == BuiltinCall(cmd)
<1>3. CASE stack' = b /\ UNCHANGED <<script, paste, streams>>
      BY <1>1, <1>2, <1>3, ProgressKeeps
<1>4. CASE /\ ~(cmd.spec # <<>> /\ stuck)
           /\ stack' = Append(b, BuiltinCall(cmd))
           /\ fds' = IF cmd.spec = <<>> THEN fds ELSE Applied(cmd.spec, fds)
           /\ UNCHANGED <<script, paste, stuck>>
  <2>1. Replaced(stack, b)
    <3>1. Keeps(Top, BodiesTaken)
          BY <1>1, <1>2 DEF Keeps, In, FileKind
    <3> QED BY <3>1, <1>1, WithReplaces
  <2>2. Sound(b, name, context, staged, pasting, fds, stuck)
        BY <2>1, WhenReplaced DEF IInv
  <2>3. Pushed(b, stack', x)
        BY <2>2, <1>4, AppendPushes DEF Sound
  <2>4. "call" \in DOMAIN x /\ x.call \in {"execute", "builtin"}
        BY DEF BuiltinCall
  <2>5. Redirected(x) => ~stuck /\ x.saved = fds /\ fds' = Applied(x.cmd.spec, x.saved)
        BY <1>4 DEF Redirected, BuiltinCall
  <2>6. ~Redirected(x) => fds' = fds
        BY <1>4 DEF Redirected, BuiltinCall
  <2> HIDE DEF x, b
  <2>7. Sound(stack', name, context, staged, pasting, fds', stuck)
        BY <2>2, <2>3, <2>4, <2>5, <2>6, WhenPlainPushed
  <2> QED BY <2>7, <1>4 DEF IInv, script, paste
<1>5. RedirectionFails => stack' = b /\ UNCHANGED <<script, paste, streams>>
      BY DEF RedirectionFails, Restored, streams
<1>6. BeginBuiltin => \/ stack' = b /\ UNCHANGED <<script, paste, streams>>
                      \/ /\ ~(cmd.spec # <<>> /\ stuck)
                         /\ stack' = Append(b, BuiltinCall(cmd))
                         /\ fds' = IF cmd.spec = <<>> THEN fds ELSE Applied(cmd.spec, fds)
                         /\ UNCHANGED <<script, paste, stuck>>
      BY DEF BeginBuiltin
<1> QED BY <1>3, <1>4, <1>5, <1>6

\* Text that is staged, replaced or dropped, and bytes that are not taken.
LEMMA FlagsChange ==
    ASSUME IInv, UNCHANGED <<stack, script, fds>>, stuck => stuck',
           \/ UNCHANGED paste
           \/ (staged # None \/ stack = <<>>) /\ pasting' \in {FALSE, pasting}
    PROVE  IInv'
<1>1. /\ Shape(stack) /\ Names(stack, name) /\ Contexts(stack, context)
      /\ Pastes(stack, staged, pasting) /\ Descriptors(stack, fds, stuck)
      BY DEF IInv, Sound
<1>2. Descriptors(stack, fds, stuck')
      BY <1>1 DEF Descriptors
<1>3. Pastes(stack, staged', pasting')
  <2>1. CASE UNCHANGED paste
        BY <2>1, <1>1 DEF paste
  <2>2. CASE (staged # None \/ stack = <<>>) /\ pasting' \in {FALSE, pasting}
    <3>1. stack = <<>> => Len(stack) = 0
          OBVIOUS
    <3>2. \A i \in 1..Len(stack) : stack[i].call # "paste"
          BY <2>2, <3>1, <1>1 DEF Pastes
    <3>3. pasting = FALSE /\ pasting' = FALSE
          BY <2>2, <3>2, <1>1 DEF Pastes
    <3> QED BY <3>2, <3>3 DEF Pastes
  <2> QED BY <2>1, <2>2
<1> QED BY <1>1, <1>2, <1>3 DEF IInv, Sound, script

\* With no call in progress the paste flag is down whatever is staged.
LEMMA EmptyStack ==
    ASSUME IInv, stack = <<>>, pasting' \in {FALSE, pasting}
    PROVE  Sound(stack, name, context, staged', pasting', fds, stuck)
<1>1. Len(stack) = 0
      OBVIOUS
<1>2. Pastes(stack, staged, pasting)
      BY DEF IInv, Sound
<1>3. \A i \in 1..Len(stack) : FALSE
      BY <1>1
<1>4. pasting = FALSE /\ pasting' = FALSE
      BY <1>2, <1>3 DEF Pastes
<1>5. Pastes(stack, staged', pasting')
      BY <1>3, <1>4, Zenon DEF Pastes
<1> QED BY <1>5 DEF IInv, Sound

\* Printing, exit and the builtins that only change what is staged.
LEMMA BuiltinActs ==
    ASSUME IInv, PrintText \/ ExitBuiltin \/ PasteCancel \/ PasteShow \/ PasteEdit
    PROVE  IInv'
<1>1. /\ UNCHANGED <<stack, script, fds>> /\ (stuck => stuck')
      /\ \/ UNCHANGED paste
         \/ staged # None /\ pasting' \in {FALSE, pasting}
  <2>1. CASE PrintText
        BY <2>1 DEF PrintText, Answer
  <2>2. CASE ExitBuiltin
        BY <2>2 DEF ExitBuiltin, streams
  <2>3. CASE PasteCancel
        BY <2>3 DEF PasteCancel, Answer
  <2>4. CASE PasteShow
        BY <2>4 DEF PasteShow, Answer
  <2>5. CASE PasteEdit
        BY <2>5 DEF PasteEdit, Answer, paste
  <2> QED BY <2>1, <2>2, <2>3, <2>4, <2>5
<1> QED BY <1>1, FlagsChange

\* The redirections of a builtin end with it.
LEMMA BuiltinEnds ==
    ASSUME IInv, EndBuiltin PROVE IInv'
<1>1. stack # <<>> /\ Top.call = "builtin" /\ stack' = Callers /\ UNCHANGED <<script, paste, stuck>>
      BY DEF EndBuiltin, In, streams
<1>2. /\ Redirected(Top) /\ ~stuck => fds' = Top.saved
      /\ ~Redirected(Top) => fds' = fds
      BY DEF EndBuiltin, streams, Restored
<1>3. Popped(stack, stack')
      BY <1>1, CallersPop DEF IInv, Sound
<1>4. PutBack(Top, name, context, staged, pasting, fds, stuck, name, context, staged, pasting, fds')
      BY <1>1, <1>2 DEF PutBack
<1>5. Sound(stack', name, context, staged, pasting, fds', stuck)
      BY <1>3, <1>4, WhenPopped DEF IInv, Top
<1> QED BY <1>1, <1>5 DEF IInv, script, paste

\* A file or a paste begins.
LEMMA FilePushed ==
    ASSUME Shape(stack), NEW how \in FileKind, NEW f, NEW lines, NEW nm2, NEW cx2, NEW text2, NEW flag2,
           Sound(stack, name, context, staged, pasting, fds, stuck),
           stack' = Append(stack, FileCall(how, f, lines, name, context)),
           how = "script" => nm2 = f, how # "script" => nm2 = name,
           how \in {"script", "paste"} => cx2 = None, how \notin {"script", "paste"} => cx2 = context,
           how = "paste" => staged # None /\ text2 = None /\ flag2 = TRUE,
           how # "paste" => text2 = staged /\ flag2 = pasting
    PROVE  Sound(stack', nm2, cx2, text2, flag2, fds, stuck)
<1> DEFINE x == FileCall(how, f, lines, name, context)
<1>1. Pushed(stack, stack', x)
      BY AppendPushes
<1>2. /\ "call" \in DOMAIN x /\ x.call = how /\ x.file = f /\ x.oldName = name /\ x.oldContext = context
      /\ {"file", "oldName", "oldContext"} \subseteq DOMAIN x
      BY DEF FileCall
<1>3. ~Redirected(x)
      BY <1>2 DEF Redirected, FileKind
<1> HIDE DEF x
<1>4. /\ Shaped(x) /\ SavesText(x, name, context, nm2, cx2)
      /\ SavesPaste(x, staged, pasting, text2, flag2) /\ SavesDescriptors(x, fds, stuck, fds)
      BY <1>2, <1>3 DEF Shaped, SavesText, SavesPaste, SavesDescriptors
<1> QED BY <1>1, <1>4, WhenPushed

\* source and run_script.
LEMMA FileBegins ==
    ASSUME IInv, Source \/ RunScript PROVE IInv'
<1>1. Shape(stack) /\ Sound(stack, name, context, staged, pasting, fds, stuck)
      BY DEF IInv, Sound
<1> DEFINE f == Top.cmd.file
           lines == Content[f]
           rcLines == RcLines(f)
<1>2. CASE Source
  <2>1. /\ stack' = Append(stack, FileCall("rc", f, rcLines, name, context))
        /\ UNCHANGED <<script, paste, streams>>
        BY <1>2 DEF Source
  <2> HIDE DEF f, rcLines
  <2>2. Sound(stack', name, context, staged, pasting, fds, stuck)
        BY <2>1, <1>1, FilePushed DEF FileKind
  <2> QED BY <2>1, <2>2 DEF IInv, script, paste, streams
<1>3. CASE RunScript
  <2>1. \/ UNCHANGED <<stack, script, paste, streams>>
        \/ /\ stack' = Append(stack, FileCall("script", f, lines, name, context))
           /\ name' = f /\ context' = None /\ UNCHANGED <<paste, streams>>
        BY <1>3 DEF RunScript, RunInterpreted, RunNative
  <2>2. CASE UNCHANGED <<stack, script, paste, streams>>
        BY <2>2, NothingChanges
  <2>3. CASE /\ stack' = Append(stack, FileCall("script", f, lines, name, context))
             /\ name' = f /\ context' = None /\ UNCHANGED <<paste, streams>>
    <3> HIDE DEF f, lines
    <3>1. Sound(stack', f, None, staged, pasting, fds, stuck)
          BY <2>3, <1>1, FilePushed DEF FileKind
    <3> QED BY <2>3, <3>1 DEF IInv, paste, streams
  <2> QED BY <2>1, <2>2, <2>3
<1> QED BY <1>2, <1>3

\* A paste begins.
LEMMA PasteBegins ==
    ASSUME IInv, staged # None, RunPaste(stack) PROVE IInv'
<1>1. Shape(stack) /\ Sound(stack, name, context, staged, pasting, fds, stuck)
      BY DEF IInv, Sound
<1> DEFINE lines == Content[staged]
<1>2. \/ /\ UNCHANGED <<stack, script, fds>> /\ (stuck => stuck') /\ pasting' \in {FALSE, pasting}
      \/ /\ stack' = Append(stack, FileCall("paste", staged, lines, name, context))
         /\ staged' = None /\ pasting' = TRUE /\ context' = None /\ UNCHANGED <<name, streams>>
      BY DEF RunPaste, Answer, streams
<1>3. CASE UNCHANGED <<stack, script, fds>> /\ (stuck => stuck') /\ pasting' \in {FALSE, pasting}
      BY <1>3, FlagsChange
<1>4. CASE /\ stack' = Append(stack, FileCall("paste", staged, lines, name, context))
           /\ staged' = None /\ pasting' = TRUE /\ context' = None /\ UNCHANGED <<name, streams>>
  <2> HIDE DEF lines
  <2>1. Sound(stack', name, None, None, TRUE, fds, stuck)
        BY <1>4, <1>1, FilePushed DEF FileKind
  <2> QED BY <1>4, <2>1 DEF IInv, streams
<1> QED BY <1>2, <1>3, <1>4

\* execute adds a call or none.
LEMMA ExecuteKeeps ==
    ASSUME NEW c, NEW l, NEW cx,
           Sound(c, name, cx, staged, pasting, fds, stuck), Execute(c, l)
    PROVE  Sound(stack', name, cx, staged, pasting, fds, stuck)
<1> DEFINE x == ExecuteCall(l)
<1>1. stack' = c \/ stack' = Append(c, x)
      BY DEF Execute
<1>2. "call" \in DOMAIN x /\ x.call \in {"execute", "builtin"} /\ ~Redirected(x)
      BY DEF ExecuteCall, Redirected
<1> HIDE DEF x
<1>3. CASE stack' = Append(c, x)
  <2>1. Pushed(c, stack', x)
        BY <1>3, AppendPushes DEF Sound
  <2> QED BY <1>2, <2>1, WhenPlainPushed
<1> QED BY <1>1, <1>3

\* The context becomes a line of the innermost script or paste.
LEMMA ContextMoves ==
    ASSUME NEW s, NEW nm, NEW cx, NEW text, NEW flag, NEW d, NEW failed,
           Sound(s, nm, cx, text, flag, d, failed), Len(s) \in 1..Len(s),
           s[Len(s)].call \in {"script", "paste"}
    PROVE  Sound(s, nm, s[Len(s)].file, text, flag, d, failed)
<1>1. \A j \in (Len(s) + 1)..Len(s) : FALSE
      BY StackLength DEF Sound, Shape
<1>2. InContext(s, Len(s), s[Len(s)].file)
      BY <1>1 DEF InContext, Innermost
<1> QED BY <1>2 DEF Sound, Contexts

\* A file hands its next line to execute.
LEMMA LineBegins ==
    ASSUME IInv, NextLine PROVE IInv'
<1> DEFINE l == Head(Top.rest)
           f == [Top EXCEPT !.rest = Tail(@), !.guarded = Guarded(l)]
           c == With(f)
           n == Len(stack)
<1>1. /\ Shape(stack) /\ stack # <<>> /\ Top.call \in FileKind /\ Execute(c, l)
      /\ context' = IF Top.call \in {"script", "paste"} THEN Top.file ELSE context
      /\ UNCHANGED <<name, paste, streams>>
      BY DEF IInv, Sound, NextLine, AtLine, InFile, In, FileKind
<1>2. /\ n \in 1..n /\ "call" \in DOMAIN Top /\ {"file", "oldName", "oldContext"} \subseteq DOMAIN Top
      BY <1>1, TopKeeps
<1>3. /\ f.call = Top.call /\ f.file = Top.file /\ f.oldName = Top.oldName
      /\ f.oldContext = Top.oldContext /\ DOMAIN f = DOMAIN Top
      BY <1>2
<1>4. Keeps(Top, f)
      BY <1>1, <1>2, <1>3 DEF Keeps, FileKind
<1> HIDE DEF f, l
<1>5. Replaced(stack, c) /\ c[n] = f /\ Len(c) = n
      BY <1>1, <1>4, WithReplaces DEF Replaced
<1> HIDE DEF c
<1>6. Sound(c, name, context, staged, pasting, fds, stuck)
      BY <1>5, WhenReplaced DEF IInv
<1>7. Sound(c, name, context', staged, pasting, fds, stuck)
  <2>1. CASE Top.call \in {"script", "paste"}
    <3>1. c[Len(c)].call \in {"script", "paste"} /\ c[Len(c)].file = context' /\ Len(c) \in 1..Len(c)
          BY <1>1, <1>2, <1>3, <1>5, <2>1
    <3> QED BY <3>1, <1>6, ContextMoves
  <2>2. CASE Top.call \notin {"script", "paste"}
        BY <2>2, <1>1, <1>6
  <2> QED BY <2>1, <2>2
<1>8. Sound(stack', name, context', staged, pasting, fds, stuck)
      BY <1>1, <1>7, ExecuteKeeps
<1> QED BY <1>1, <1>8 DEF IInv, paste, streams

\* A file that goes on.
LEMMA FileGoesOn ==
    ASSUME IInv, InFile, NEW code, Continue(code) PROVE IInv'
<1> DEFINE f == [Top EXCEPT !.status = code]
<1>1. /\ Shape(stack) /\ stack # <<>> /\ Top.call \in FileKind
      /\ stack' = With(f) /\ UNCHANGED <<script, paste, streams>>
      BY DEF IInv, Sound, Continue, InFile, In, FileKind
<1>2. "call" \in DOMAIN Top /\ {"file", "oldName", "oldContext"} \subseteq DOMAIN Top
      BY <1>1, TopKeeps
<1>3. /\ f.call = Top.call /\ f.file = Top.file /\ f.oldName = Top.oldName
      /\ f.oldContext = Top.oldContext /\ DOMAIN f = DOMAIN Top
      BY <1>2
<1>4. Keeps(Top, f)
      BY <1>1, <1>2, <1>3 DEF Keeps, FileKind
<1> HIDE DEF f
<1>5. Replaced(stack, stack')
      BY <1>1, <1>4, WithReplaces
<1> QED BY <1>1, <1>5, WhenReplaced DEF IInv, script, paste, streams

\* A line that is left out.
LEMMA LineSkipped ==
    ASSUME IInv, SkipLine PROVE IInv'
<1> DEFINE f == [Top EXCEPT !.rest = Tail(@)]
<1>1. /\ Shape(stack) /\ stack # <<>> /\ Top.call \in FileKind
      /\ stack' = With(f) /\ UNCHANGED <<script, paste, streams>>
      BY DEF IInv, Sound, SkipLine, AtLine, InFile, In, FileKind
<1>2. "call" \in DOMAIN Top /\ {"file", "oldName", "oldContext"} \subseteq DOMAIN Top
      BY <1>1, TopKeeps
<1>3. /\ f.call = Top.call /\ f.file = Top.file /\ f.oldName = Top.oldName
      /\ f.oldContext = Top.oldContext /\ DOMAIN f = DOMAIN Top
      BY <1>2
<1>4. Keeps(Top, f)
      BY <1>1, <1>2, <1>3 DEF Keeps, FileKind
<1> HIDE DEF f
<1>5. Replaced(stack, stack')
      BY <1>1, <1>4, WithReplaces
<1> QED BY <1>1, <1>5, WhenReplaced DEF IInv, script, paste, streams

\* A file that ends, in any way, puts back what it has saved.
LEMMA FileIsOver ==
    ASSUME IInv, InFile, NEW r, EndFile(r) PROVE IInv'
<1> DEFINE top == stack[Len(stack)]
<1>1. /\ Shape(stack) /\ stack # <<>> /\ top.call \in FileKind /\ stack' = Callers
      /\ UNCHANGED streams
      BY DEF IInv, Sound, EndFile, InFile, In, FileKind, Top
<1>2. /\ top.call = "script" => name' = top.oldName
      /\ top.call # "script" => name' = name
      /\ top.call \in {"script", "paste"} => context' = top.oldContext
      /\ top.call \notin {"script", "paste"} => context' = context
      /\ top.call = "paste" => staged' = None /\ pasting' = FALSE
      /\ top.call # "paste" => staged' = staged /\ pasting' = pasting
      BY DEF EndFile, Top, paste
<1>3. ~Redirected(top)
      BY <1>1 DEF Redirected, FileKind
<1>4. Popped(stack, stack')
      BY <1>1, CallersPop
<1>5. Sound(stack', name', context', staged', pasting', fds, stuck)
  <2> HIDE DEF top
  <2>1. PutBack(top, name, context, staged, pasting, fds, stuck, name', context', staged', pasting', fds)
        BY <1>2, <1>3 DEF PutBack
  <2> QED BY <1>4, <2>1, WhenPopped DEF IInv, top
<1> QED BY <1>1, <1>5 DEF IInv, streams

\* The lines of a file.
LEMMA FileSteps ==
    ASSUME IInv, SkipLine \/ NextLine \/ BlockNeverEnds \/ LineDone \/ LineRaises \/ FileEnds
    PROVE  IInv'
<1>1. CASE NextLine
      BY <1>1, LineBegins
<1>2. CASE LineDone
      BY <1>2, FileGoesOn, FileIsOver DEF LineDone
<1>3. CASE LineRaises
      BY <1>3, FileGoesOn, FileIsOver DEF LineRaises
<1>4. CASE FileEnds
      BY <1>4, FileIsOver DEF FileEnds
<1>5. CASE BlockNeverEnds
      BY <1>5, FileIsOver DEF BlockNeverEnds, AtLine
<1>6. CASE SkipLine
      BY <1>6, LineSkipped
<1> QED BY <1>1, <1>2, <1>3, <1>4, <1>5, <1>6

\* The prompt.
LEMMA PromptSteps ==
    ASSUME IInv,
           \/ \E l \in Typed : TypeLine(l)
           \/ \E p \in Paste : CapturePaste(p)
           \/ TypeEnter \/ CtrlC \/ EndOfInput \/ PromptFails \/ PromptReturns
    PROVE  IInv'
<1>1. CASE \E l \in Typed : TypeLine(l)
  <2>1. PICK l \in Typed : TypeLine(l)
        BY <1>1
  <2>2. stack = <<>> /\ UNCHANGED <<script, streams>> /\ pasting' \in {FALSE, pasting}
        BY <2>1 DEF TypeLine, AtPrompt, paste
  <2>3. CASE UNCHANGED stack
        BY <2>2, <2>3, FlagsChange DEF streams
  <2>4. CASE Execute(stack, l)
    <3>1. Sound(stack, name, context, staged', pasting', fds, stuck)
          BY <2>2, EmptyStack
    <3>2. stack' = stack \/ stack' = Append(stack, ExecuteCall(l))
          BY <2>4 DEF Execute
    <3>3. CASE stack' = Append(stack, ExecuteCall(l))
      <4> DEFINE x == ExecuteCall(l)
      <4>1. "call" \in DOMAIN x /\ x.call \in {"execute", "builtin"} /\ ~Redirected(x)
            BY DEF ExecuteCall, Redirected
      <4>2. Pushed(stack, stack', x)
            BY <3>3, AppendPushes DEF IInv, Sound
      <4> HIDE DEF x
      <4>3. Sound(stack', name, context, staged', pasting', fds, stuck)
            BY <3>1, <4>1, <4>2, WhenPlainPushed
      <4> QED BY <4>3, <2>2 DEF IInv, script, streams
    <3> QED BY <3>1, <3>2, <3>3, <2>2 DEF IInv, script, streams
  <2> QED BY <2>1, <2>3, <2>4 DEF TypeLine
<1>2. CASE \E p \in Paste : CapturePaste(p)
      BY <1>2, FlagsChange DEF CapturePaste, AtPrompt, streams
<1>3. CASE TypeEnter
      BY <1>3, PasteBegins DEF TypeEnter
<1>4. CASE CtrlC
      BY <1>4, FlagsChange DEF CtrlC, AtPrompt, streams
<1>5. CASE EndOfInput \/ PromptFails \/ PromptReturns
      BY <1>5, NothingChanges DEF EndOfInput, PromptFails, PromptReturns
<1> QED BY <1>1, <1>2, <1>3, <1>4, <1>5

----------------------------------------------------------------------------
(* The theorems.                                                            *)

\* At the start at most one file is being executed.
LEMMA Base == Init => IInv
<1> SUFFICES ASSUME Init PROVE IInv
    OBVIOUS
<1>1. /\ context = None /\ staged = None /\ pasting = FALSE /\ fds = Own /\ stuck = FALSE
      BY DEF Init
<1>2. CASE stack = <<>> /\ name = None
  <2>1. stack \in Seq({}) /\ Len(stack) = 0 /\ \A i \in 1..Len(stack) : FALSE
        BY <1>2
  <2>2. IsStack(stack)
        BY <2>1 DEF IsStack
  <2>3. Shape(stack) /\ Names(stack, name) /\ Contexts(stack, context)
        BY <1>1, <1>2, <2>1, <2>2 DEF Shape, Names, Contexts, InContext, Innermost
  <2>4. Pastes(stack, staged, pasting)
        BY <1>1, <2>1, Zenon DEF Pastes
  <2>5. Descriptors(stack, fds, stuck)
        BY <1>1, <2>1 DEF Descriptors, Connected
  <2> QED BY <2>3, <2>4, <2>5 DEF IInv, Sound
<1>3. ASSUME NEW f \in File, NEW lines, NEW how \in {"batch", "script"},
             stack = <<FileCall(how, f, lines, None, None)>>,
             name = IF how = "script" THEN f ELSE None
      PROVE  IInv
  <2> DEFINE x == FileCall(how, f, lines, None, None)
  <2>1. /\ "call" \in DOMAIN x /\ x.call = how /\ x.file = f /\ x.oldName = None /\ x.oldContext = None
        /\ {"file", "oldName", "oldContext"} \subseteq DOMAIN x
        BY DEF FileCall
  <2> HIDE DEF x
  <2>2. stack = <<x>> /\ Len(stack) = 1 /\ stack[1] = x /\ stack \in Seq({x})
        BY <1>3 DEF x
  <2>3. \A i \in 1..Len(stack) : stack[i] = x
        BY <2>2
  <2>4. IsStack(stack)
        BY <2>2 DEF IsStack
  <2>5. ~Redirected(x)
        BY <2>1 DEF Redirected
  <2>6. Shape(stack)
        BY <1>3, <2>1, <2>3, <2>4 DEF Shape, FileKind
  <2>7. Names(stack, name)
        BY <1>3, <2>1, <2>2 DEF Names, Innermost
  <2>8. Contexts(stack, context)
        BY <1>1, <1>3, <2>1, <2>2 DEF Contexts, InContext
  <2>9. Pastes(stack, staged, pasting)
    <3>1. \A i \in 1..Len(stack) : stack[i].call # "paste"
          BY <1>3, <2>1, <2>3
    <3> QED BY <1>1, <3>1, Zenon DEF Pastes
  <2>10. Descriptors(stack, fds, stuck)
        BY <1>1, <2>2, <2>5 DEF Descriptors, Connected
  <2> QED BY <2>6, <2>7, <2>8, <2>9, <2>10 DEF IInv, Sound
<1>4. \/ stack = <<>> /\ name = None
      \/ \E f \in File : /\ stack = <<FileCall("batch", f, Content[f], None, None)>>
                         /\ name = None
      \/ \E f \in File : /\ stack = <<FileCall("script", f, Content[f], None, None)>>
                         /\ name = f
      BY DEF Init
<1> QED BY <1>2, <1>3, <1>4

\* Every step keeps the invariant.
LEMMA Induction == IInv /\ [Next]_vars => IInv'
<1> SUFFICES ASSUME IInv, [Next]_vars PROVE IInv'
    OBVIOUS
<1>1. CASE UNCHANGED vars
      BY <1>1, NothingChanges DEF vars
<1>2. CASE SkipElement \/ BrokenElement \/ RunCommand \/ ElementDone \/ LineEnds \/ LineUnwinds
      BY <1>2, LineSteps
<1>3. CASE BeginBuiltin \/ RedirectionFails
      BY <1>3, BuiltinBegins
<1>4. CASE PrintText \/ ExitBuiltin \/ PasteCancel \/ PasteShow \/ PasteEdit
      BY <1>4, BuiltinActs
<1>5. CASE EndBuiltin
      BY <1>5, BuiltinEnds
<1>6. CASE Source \/ RunScript
      BY <1>6, FileBegins
<1>7. CASE PasteRun
  <2>1. CASE staged = None
    <3>1. UNCHANGED <<stack, script, fds, paste>> /\ (stuck => stuck')
          BY <1>7, <2>1 DEF PasteRun, Answer
    <3> QED BY <3>1, FlagsChange
  <2>2. CASE staged # None
        BY <1>7, <2>2, PasteBegins DEF PasteRun
  <2> QED BY <2>1, <2>2
<1>8. CASE SkipLine \/ NextLine \/ BlockNeverEnds \/ LineDone \/ LineRaises \/ FileEnds
      BY <1>8, FileSteps
<1>9. CASE \/ \E l \in Typed : TypeLine(l)
           \/ \E p \in Paste : CapturePaste(p)
           \/ TypeEnter \/ CtrlC \/ EndOfInput \/ PromptFails \/ PromptReturns
      BY <1>9, PromptSteps
<1>10. CASE Interrupt \/ Vanish
      BY <1>10, NothingChanges DEF Interrupt, Vanish
<1> QED BY <1>1, <1>2, <1>3, <1>4, <1>5, <1>6, <1>7, <1>8, <1>9, <1>10 DEF Next, Step

\* The invariant holds throughout.
LEMMA Invariance == Spec => []IInv
<1> QED BY Base, Induction, PTL DEF Spec

\* The script's name, the context of diagnostics and the paste flag are those of
\* the calls in progress, whatever ended inside of them and how.
THEOREM CallsAreNested == Spec => []CallsNest
<1>1. ASSUME IInv PROVE CallsNest
  <2>1. DOMAIN stack = 1..Len(stack)
        BY <1>1, StackLength DEF IInv, Sound, Shape
  <2> QED BY <1>1, <2>1 DEF IInv, Sound, Names, Contexts, InContext, Pastes, Descriptors, FdsFollowCalls, CallsNest
<1> QED BY <1>1, Invariance, PTL

\* As long as what was written was taken, the standard descriptors are those of
\* the redirected builtins in progress, and the shell's own when there is none.
THEOREM DescriptorsComeBack == Spec => []FdsFollowCalls
<1>1. ASSUME IInv PROVE FdsFollowCalls
      BY <1>1 DEF IInv, Sound, Descriptors, FdsFollowCalls
<1> QED BY <1>1, Invariance, PTL

\* One paste at most is being run, and it is staged no more.
THEOREM PasteRunsOnce == Spec => []OnePaste
<1>1. ASSUME IInv PROVE OnePaste
  <2>1. DOMAIN stack = 1..Len(stack)
        BY <1>1, StackLength DEF IInv, Sound, Shape
  <2> QED BY <1>1, <2>1 DEF IInv, Sound, Pastes, OnePaste
<1> QED BY <1>1, Invariance, PTL

\* The calls in progress keep to their order: what belongs to a call is that of the innermost
\* one, and no paste runs inside another (_redirect_standard_fds, _builtin_paste_run).
THEOREM CallsAreOrderly == Spec => []CallsKeepOrder
  BY CallsAreNested, PasteRunsOnce, PTL DEF CallsKeepOrder

\* The numbers of a set that has zero and with each number the next are all of them.
LEMMA Numbers ==
    ASSUME NEW S, 0 \in S, \A n \in Nat : n \in S => n + 1 \in S
    PROVE  \A n \in Nat : n \in S
<1> DEFINE T == Nat \ S
<1> SUFFICES ASSUME T # {} PROVE FALSE
    OBVIOUS
<1>1. PICK m \in T : \A k \in T : <<k, m>> \notin OpToRel(<, Nat)
      BY WFMin, NatLessThanWellFounded, Zenon
<1>2. \A k \in T : ~(k < m)
      BY <1>1, Zenon DEF OpToRel
<1>3. m \in Nat /\ m # 0 /\ m - 1 \in Nat
      OBVIOUS
<1>4. m - 1 \in S
      BY <1>2, <1>3
<1> QED BY <1>3, <1>4

\* N steps from a, each of which leads from S to S.
Leads(f, a, m, S, step) ==
    /\ f \in [0..m -> S] /\ f[0] = a
    /\ \A n \in 1..m : f[n] = step[n][f[n - 1]]

\* There are such steps.
LEMMA Iterated ==
    ASSUME NEW S, NEW a \in S, NEW N \in Nat, NEW step \in [1..N -> [S -> S]]
    PROVE  \E f : Leads(f, a, N, S, step)
<1> DEFINE P == {m \in Nat : m <= N => \E f : Leads(f, a, m, S, step)}
<1>1. 0 \in P
  <2>1. Leads([n \in 0..0 |-> a], a, 0, S, step)
        BY DEF Leads
  <2> QED BY <2>1
<1>2. ASSUME NEW m \in Nat, m \in P PROVE m + 1 \in P
  <2>1. SUFFICES ASSUME m + 1 <= N PROVE \E f : Leads(f, a, m + 1, S, step)
        OBVIOUS
  <2>2. PICK f : Leads(f, a, m, S, step)
        BY <1>2, <2>1
  <2> DEFINE last == step[m + 1][f[m]]
             g == [n \in 0..(m + 1) |-> IF n = m + 1 THEN last ELSE f[n]]
  <2>3. f[m] \in S /\ last \in S
        BY <2>1, <2>2 DEF Leads
  <2>4. \A n \in 0..m : g[n] = f[n] /\ f[n] \in S
        BY <2>2 DEF Leads
  <2>5. g[m + 1] = last
        OBVIOUS
  <2>6. g \in [0..(m + 1) -> S] /\ g[0] = a
    <3> HIDE DEF last
    <3> QED BY <2>2, <2>3, <2>4 DEF Leads
  <2>7. ASSUME NEW n \in 1..(m + 1) PROVE g[n] = step[n][g[n - 1]]
    <3>1. n - 1 \in 0..m /\ g[n - 1] = f[n - 1]
          BY <2>4
    <3>2. CASE n = m + 1
          BY <2>5, <3>1, <3>2
    <3>3. CASE n # m + 1
      <4>1. n \in 1..m /\ n \in 0..m /\ g[n] = f[n]
            BY <2>4, <3>3
      <4>2. f[n] = step[n][f[n - 1]]
            BY <2>2, <4>1 DEF Leads
      <4> HIDE DEF g
      <4> QED BY <3>1, <4>1, <4>2
    <3> QED BY <3>2, <3>3
  <2> HIDE DEF g
  <2> QED BY <2>6, <2>7 DEF Leads
<1> HIDE DEF P
<1>3. N \in P
      BY <1>1, <1>2, Numbers
<1> QED BY <1>3 DEF P

\* What FlattenSeq computes on its way.
Flattens(seqs, f) ==
    /\ f = [i \in 1..Len(seqs) |-> f[i]]
    /\ \A i \in 1..Len(seqs) : f[i] = IF i = 1 THEN seqs[i] ELSE f[i - 1] \o seqs[i]

\* It is what it takes the last of.
LEMMA FlattenIs ==
    ASSUME NEW D, NEW seqs \in Seq(Seq(D)), seqs # <<>>
    PROVE  \E f : Flattens(seqs, f) /\ FlattenSeq(seqs) = f[Len(seqs)]
<1> DEFINE N == Len(seqs)
           step == [n \in 1..N |-> [s \in Seq(D) |-> s \o seqs[n]]]
<1>1. N \in Nat /\ N # 0 /\ \A i \in 1..N : seqs[i] \in Seq(D)
      OBVIOUS
<1>2. step \in [1..N -> [Seq(D) -> Seq(D)]]
  <2>1. \A n \in 1..N, s \in Seq(D) : s \o seqs[n] \in Seq(D)
        BY <1>1
  <2> QED BY <2>1
<1>3. PICK f : Leads(f, <<>>, N, Seq(D), step)
  <2>1. <<>> \in Seq(D)
        OBVIOUS
  <2> HIDE DEF step, N
  <2> QED BY <1>1, <1>2, <2>1, Iterated
<1>4. f[0] = <<>> /\ \A n \in 1..N : f[n - 1] \in Seq(D) /\ f[n] = step[n][f[n - 1]]
  <2> HIDE DEF step, N
  <2> QED BY <1>1, <1>3 DEF Leads
<1>5. \A n \in 1..N : f[n] = f[n - 1] \o seqs[n]
      BY <1>4
<1> HIDE DEF step, N
<1> DEFINE g == [i \in 1..N |-> f[i]]
           G(h) == [i \in 1..N |-> IF i = 1 THEN seqs[i] ELSE h[i - 1] \o seqs[i]]
<1>6. ASSUME NEW i \in 1..N PROVE f[i] = IF i = 1 THEN seqs[i] ELSE g[i - 1] \o seqs[i]
  <2>1. CASE i = 1
    <3>1. seqs[i] \in Seq(D)
          BY <1>1
    <3>2. f[i] = f[i - 1] \o seqs[i]
          BY <1>5
    <3>4. i - 1 = 0
          BY <2>1
    <3>3. <<>> \o seqs[i] = seqs[i]
          BY <3>1
    <3> QED BY <1>4, <2>1, <3>2, <3>3, <3>4
  <2>2. CASE i # 1
    <3>0. f[i] = f[i - 1] \o seqs[i]
          BY <1>5
    <3>1. i - 1 \in 1..N
          BY <1>1, <2>2
    <3>2. g[i - 1] = f[i - 1]
          BY <3>1, Zenon
    <3> QED BY <2>2, <3>0, <3>2
  <2> QED BY <2>1, <2>2
<1>7. g = G(g)
      BY <1>6, Zenon
<1>8. PICK h : h = G(h) /\ FlattenSeq(seqs) = h[N]
      BY <1>1, <1>7, Zenon DEF FlattenSeq, N
<1>9. ASSUME NEW i \in 1..N PROVE h[i] = IF i = 1 THEN seqs[i] ELSE h[i - 1] \o seqs[i]
  <2>1. h[i] = G(h)[i]
        BY <1>8, Zenon
  <2> QED BY <2>1, Zenon
<1>10. h = [i \in 1..N |-> h[i]]
      BY <1>8, <1>9, Zenon
<1> QED BY <1>8, <1>9, <1>10, Zenon DEF Flattens, N

\* Sequences of members are made of members.
LEMMA FlattensType ==
    ASSUME NEW D, NEW seqs \in Seq(Seq(D)), NEW f, Flattens(seqs, f)
    PROVE  \A n \in 1..Len(seqs) : f[n] \in Seq(D)
<1> DEFINE N == Len(seqs)
           P == {n \in Nat : n + 1 \in 1..N => f[n + 1] \in Seq(D)}
<1>1. /\ N \in Nat /\ \A n \in 1..N : seqs[n] \in Seq(D)
      /\ \A n \in 1..N : f[n] = IF n = 1 THEN seqs[n] ELSE f[n - 1] \o seqs[n]
  <2>1. \A n \in 1..N : f[n] = IF n = 1 THEN seqs[n] ELSE f[n - 1] \o seqs[n]
        BY DEF Flattens
  <2> QED BY <2>1
<1> HIDE DEF N
<1>2. 0 \in P
      BY <1>1
<1>3. ASSUME NEW n \in Nat, n \in P PROVE n + 1 \in P
  <2>1. SUFFICES ASSUME n + 2 \in 1..N PROVE f[n + 2] \in Seq(D)
    <3>1. n + 1 \in Nat /\ (n + 1) + 1 = n + 2
          OBVIOUS
    <3> QED BY <3>1
  <2>2. n + 1 \in 1..N /\ n + 2 # 1 /\ (n + 2) - 1 = n + 1
        BY <1>1, <2>1
  <2>3. f[n + 1] \in Seq(D) /\ seqs[n + 2] \in Seq(D)
        BY <1>1, <1>3, <2>1, <2>2
  <2>4. f[n + 2] = f[n + 1] \o seqs[n + 2]
        BY <1>1, <2>1, <2>2
  <2> QED BY <2>3, <2>4
<1> HIDE DEF P
<1>4. \A n \in Nat : n \in P
      BY <1>2, <1>3, Numbers
<1>5. ASSUME NEW n \in 1..N PROVE f[n] \in Seq(D)
  <2>1. n - 1 \in Nat /\ (n - 1) + 1 = n
        BY <1>1
  <2> QED BY <1>4, <2>1 DEF P
<1> QED BY <1>5 DEF N

\* Concatenation is associative.
LEMMA Joined ==
    ASSUME NEW D, NEW x \in Seq(D), NEW y \in Seq(D), NEW z \in Seq(D)
    PROVE  (x \o y) \o z = x \o (y \o z)
OBVIOUS

JoinsEitherWay(x, y, z) == (x \o y) \o z = x \o (y \o z)

LEMMA JoinedEitherWay ==
    ASSUME NEW D, NEW x \in Seq(D), NEW y \in Seq(D), NEW z \in Seq(D)
    PROVE  JoinsEitherWay(x, y, z)
BY DEF JoinsEitherWay

\* Sequences with the same elements.
LEMMA SameElements ==
    ASSUME NEW D, NEW s \in Seq(D), NEW t \in Seq(D), Len(s) = Len(t), \A i \in 1..Len(s) : s[i] = t[i]
    PROVE  s = t
OBVIOUS

\* Where the elements of a sequence come to be behind another.
LEMMA Behind ==
    ASSUME NEW D, NEW x \in Seq(D), NEW y \in Seq(D), NEW j \in 1..Len(y)
    PROVE  (x \o y)[Len(x) + j] = y[j]
OBVIOUS

\* What a sequence is without its first element.
LEMMA Tailed ==
    ASSUME NEW S, NEW s \in Seq(S)
    PROVE  /\ Len(s) \in Nat /\ (Len(s) = 0 <=> s = <<>>)
           /\ s # <<>> => /\ Head(s) \in S /\ Head(s) = s[1]
                          /\ Tail(s) \in Seq(S) /\ Len(Tail(s)) = Len(s) - 1
OBVIOUS

\* The first of the sequences comes first.
LEMMA FlattensHead ==
    ASSUME NEW D, NEW seqs \in Seq(Seq(D)), seqs # <<>>, NEW f, Flattens(seqs, f),
           NEW g, Flattens(Tail(seqs), g)
    PROVE  \A n \in 1..Len(Tail(seqs)) : f[n + 1] = seqs[1] \o g[n]
<1> DEFINE t == Tail(seqs)
           N == Len(t)
           a == seqs[1]
           P == {n \in Nat : n + 1 \in 1..N => f[n + 2] = a \o g[n + 1]}
<1>1. /\ t \in Seq(Seq(D)) /\ N \in Nat /\ Len(seqs) = N + 1 /\ a \in Seq(D)
      /\ \A n \in 1..N : t[n] = seqs[n + 1] /\ t[n] \in Seq(D)
      OBVIOUS
<1>2. \A n \in 1..(N + 1) : f[n] = IF n = 1 THEN seqs[n] ELSE f[n - 1] \o seqs[n]
      BY <1>1 DEF Flattens
<1>3. \A n \in 1..N : g[n] \in Seq(D) /\ g[n] = IF n = 1 THEN t[n] ELSE g[n - 1] \o t[n]
  <2>1. \A n \in 1..N : g[n] \in Seq(D)
        BY <1>1, FlattensType
  <2> QED BY <2>1 DEF Flattens
<1>4. f[1] = a
      BY <1>1, <1>2
<1> HIDE DEF t, N, a
<1>5. 0 \in P
  <2>1. SUFFICES ASSUME 1 \in 1..N PROVE f[2] = a \o g[1]
    <3>1. 0 \in Nat /\ 0 + 1 = 1 /\ 0 + 2 = 2
          OBVIOUS
    <3> QED BY <3>1
  <2>2. 2 \in 1..(N + 1) /\ g[1] = t[1] /\ t[1] = seqs[2]
        BY <1>1, <1>3, <2>1
  <2>3. f[2] = f[1] \o seqs[2]
    <3>1. 2 # 1 /\ 2 - 1 = 1
          OBVIOUS
    <3>2. f[2] = IF 2 = 1 THEN seqs[2] ELSE f[2 - 1] \o seqs[2]
          BY <1>2, <2>2, Zenon
    <3> QED BY <3>1, <3>2
  <2> QED BY <1>4, <2>2, <2>3
<1>6. ASSUME NEW n \in Nat, n \in P PROVE n + 1 \in P
  <2>1. SUFFICES ASSUME n + 2 \in 1..N PROVE f[n + 3] = a \o g[n + 2]
    <3>1. n + 1 \in Nat /\ (n + 1) + 1 = n + 2 /\ (n + 1) + 2 = n + 3
          OBVIOUS
    <3> QED BY <3>1
  <2>2. n + 1 \in 1..N /\ n + 3 \in 1..(N + 1) /\ n + 3 # 1 /\ n + 2 # 1
        BY <1>1, <2>1
  <2>3. f[n + 2] = a \o g[n + 1]
        BY <1>6, <2>2
  <2>4. f[n + 3] = f[n + 2] \o seqs[n + 3]
    <3>1. f[n + 3] = IF n + 3 = 1 THEN seqs[n + 3] ELSE f[(n + 3) - 1] \o seqs[n + 3]
          BY <1>2, <2>2, Zenon
    <3>2. (n + 3) - 1 = n + 2
          OBVIOUS
    <3> QED BY <2>2, <3>1, <3>2
  <2>5. g[n + 2] = g[n + 1] \o t[n + 2] /\ t[n + 2] = seqs[n + 3]
    <3>1. g[n + 2] = IF n + 2 = 1 THEN t[n + 2] ELSE g[(n + 2) - 1] \o t[n + 2]
          BY <1>3, <2>1, Zenon
    <3>2. (n + 2) - 1 = n + 1
          OBVIOUS
    <3>3. t[n + 2] = seqs[(n + 2) + 1] /\ (n + 2) + 1 = n + 3
          BY <1>1, <2>1
    <3> QED BY <2>2, <3>1, <3>2, <3>3
  <2>6. a \in Seq(D) /\ g[n + 1] \in Seq(D) /\ t[n + 2] \in Seq(D)
        BY <1>1, <1>3, <2>1, <2>2
  <2>7. (a \o g[n + 1]) \o t[n + 2] = a \o (g[n + 1] \o t[n + 2])
    <3> DEFINE y == g[n + 1]
               z == t[n + 2]
    <3>1. y \in Seq(D) /\ z \in Seq(D)
          BY <2>6
    <3> HIDE DEF y, z
    <3>2. JoinsEitherWay(a, y, z)
          BY <2>6, <3>1, JoinedEitherWay, Zenon
    <3> QED BY <3>2, Zenon DEF JoinsEitherWay, y, z
  <2> QED BY <2>3, <2>4, <2>5, <2>7
<1> HIDE DEF P
<1>7. \A n \in Nat : n \in P
      BY <1>5, <1>6, Numbers
<1>8. ASSUME NEW n \in 1..N PROVE f[n + 1] = a \o g[n]
  <2>1. n - 1 \in Nat /\ (n - 1) + 1 = n /\ (n - 1) + 2 = n + 1
        BY <1>1
  <2> QED BY <1>7, <2>1 DEF P
<1> QED BY <1>8 DEF a, N, t

\* FlattenSeq, from its first sequence on.
LEMMA Flattened ==
    ASSUME NEW D, NEW seqs \in Seq(Seq(D))
    PROVE  /\ FlattenSeq(seqs) \in Seq(D)
           /\ seqs # <<>> => FlattenSeq(seqs) = Head(seqs) \o FlattenSeq(Tail(seqs))
<1>0. ASSUME NEW s, s = <<>> PROVE FlattenSeq(s) = <<>>
  <2>1. Len(s) = 0
        BY <1>0
  <2> QED BY <1>0, <2>1, Zenon DEF FlattenSeq
<1>1. CASE seqs = <<>>
  <2>1. FlattenSeq(seqs) = <<>>
        BY <1>0, <1>1
  <2>2. <<>> \in Seq(D)
        OBVIOUS
  <2> QED BY <1>1, <2>1, <2>2, Zenon
<1>2. CASE seqs # <<>>
  <2>1. PICK f : Flattens(seqs, f) /\ FlattenSeq(seqs) = f[Len(seqs)]
        BY <1>2, FlattenIs
  <2>2. Len(seqs) \in Nat \ {0} /\ seqs[1] \in Seq(D) /\ Head(seqs) = seqs[1]
        BY <1>2
  <2>3. FlattenSeq(seqs) \in Seq(D)
    <3>1. \A n \in 1..Len(seqs) : f[n] \in Seq(D)
          BY <2>1, FlattensType
    <3> QED BY <2>1, <2>2, <3>1
  <2>4. CASE Len(seqs) = 1
    <3>1. Tail(seqs) = <<>>
      <4>1. Tail(seqs) \in Seq(Seq(D)) /\ Len(Tail(seqs)) = 0
            BY <1>2, <2>4, Tailed
      <4> QED BY <4>1, Tailed
    <3>2. FlattenSeq(Tail(seqs)) = <<>>
          BY <1>0, <3>1
    <3>3. f[1] = seqs[1]
          BY <2>1, <2>4 DEF Flattens
    <3>4. seqs[1] \o <<>> = seqs[1]
          BY <2>2
    <3> QED BY <2>1, <2>2, <2>3, <2>4, <3>2, <3>3, <3>4
  <2>5. CASE Len(seqs) # 1
    <3>1. Tail(seqs) \in Seq(Seq(D)) /\ Len(Tail(seqs)) = Len(seqs) - 1 /\ Tail(seqs) # <<>>
      <4>1. Tail(seqs) \in Seq(Seq(D)) /\ Len(Tail(seqs)) = Len(seqs) - 1
            BY <1>2, Tailed
      <4>2. Len(Tail(seqs)) # 0
            BY <2>2, <2>5, <4>1
      <4> QED BY <4>1, <4>2, Tailed
    <3>2. PICK g : Flattens(Tail(seqs), g) /\ FlattenSeq(Tail(seqs)) = g[Len(Tail(seqs))]
          BY <3>1, FlattenIs
    <3>3. Len(Tail(seqs)) \in 1..Len(Tail(seqs)) /\ Len(Tail(seqs)) + 1 = Len(seqs)
          BY <2>2, <2>5, <3>1
    <3>4. \A n \in 1..Len(Tail(seqs)) : f[n + 1] = seqs[1] \o g[n]
      <4>1. Flattens(seqs, f) /\ Flattens(Tail(seqs), g)
            BY <2>1, <3>2
      <4> QED BY <1>2, <4>1, FlattensHead, Zenon
    <3>5. f[Len(seqs)] = seqs[1] \o g[Len(Tail(seqs))]
          BY <3>3, <3>4
    <3> QED BY <2>1, <2>2, <2>3, <3>2, <3>5
  <2> QED BY <2>4, <2>5
<1> QED BY <1>1, <1>2

\* Redirections connect the descriptors to devices.
LEMMA AppliedType ==
    ASSUME NEW spec \in Seq(Action), NEW now \in [Fd -> Device]
    PROVE  Applied(spec, now) \in [Fd -> Device]
<1> DEFINE N == Len(spec)
           S == [Fd -> Device]
           step == [n \in 1..N |-> [d \in S |-> Redirect(d, spec[n])]]
           G(h) == [n \in 0..N |-> IF n = 0 THEN now ELSE Redirect(h[n - 1], spec[n])]
<1>1. ASSUME NEW d \in S, NEW a \in Action PROVE Redirect(d, a) \in S
      BY DEF Redirect, Action, Fd
<1>2. N \in Nat /\ \A n \in 1..N : spec[n] \in Action
      OBVIOUS
<1>3. now \in S
      OBVIOUS
<1> HIDE DEF S, N
<1>4. step \in [1..N -> [S -> S]]
  <2>1. \A n \in 1..N, d \in S : Redirect(d, spec[n]) \in S
        BY <1>1, <1>2
  <2> QED BY <2>1
<1>5. PICK f : Leads(f, now, N, S, step)
  <2> HIDE DEF step
  <2> QED BY <1>2, <1>3, <1>4, Iterated
<1>6. f \in [0..N -> S] /\ f[0] = now /\ \A n \in 1..N : f[n - 1] \in S /\ f[n] = step[n][f[n - 1]]
  <2> HIDE DEF step
  <2> QED BY <1>2, <1>5 DEF Leads
<1>7. \A n \in 1..N : f[n] = Redirect(f[n - 1], spec[n])
      BY <1>6, Zenon
<1>8. ASSUME NEW n \in 0..N PROVE f[n] = IF n = 0 THEN now ELSE Redirect(f[n - 1], spec[n])
  <2>1. n = 0 \/ n \in 1..N
        BY <1>2
  <2> QED BY <1>2, <1>6, <1>7, <2>1
<1>9. f = G(f)
      BY <1>6, <1>8, Zenon
<1>10. PICK g : g = G(g) /\ Applied(spec, now) = g[N]
      BY <1>9, Zenon DEF Applied, N
<1>11. ASSUME NEW n \in 0..N PROVE g[n] = IF n = 0 THEN now ELSE Redirect(g[n - 1], spec[n])
  <2>1. g[n] = G(g)[n]
        BY <1>10, Zenon
  <2> QED BY <2>1, Zenon
<1> DEFINE P == {n \in Nat : n \in 0..N => g[n] \in S}
<1>12. 0 \in P
      BY <1>2, <1>3, <1>11
<1>13. ASSUME NEW n \in Nat, n \in P PROVE n + 1 \in P
  <2>1. SUFFICES ASSUME n + 1 \in 0..N PROVE g[n + 1] \in S
        OBVIOUS
  <2>2. n \in 0..N /\ n + 1 \in 1..N /\ n + 1 # 0 /\ (n + 1) - 1 = n
        BY <1>2, <2>1
  <2>3. g[n] \in S /\ spec[n + 1] \in Action
        BY <1>2, <1>13, <2>2
  <2>4. g[n + 1] = Redirect(g[n], spec[n + 1])
        BY <1>11, <2>1, <2>2
  <2> QED BY <1>1, <2>3, <2>4
<1> HIDE DEF P
<1>14. N \in P
      BY <1>2, <1>12, <1>13, Numbers
<1> QED BY <1>2, <1>10, <1>14 DEF P, S

----------------------------------------------------------------------------
(* The second inductive invariant: what a call is, and what a chain has     *)
(* done and has left.                                                       *)

Executes(f) == f.call = "execute"

\* The calls under the recursion limit: execute tests it, what it calls does not.
FrameAt(f, i) ==
    \/ f \in ExecuteFrame /\ i <= MaxDepth
    \/ f \in BuiltinFrame /\ i <= MaxDepth + 1
    \/ f \in FileFrame /\ i <= MaxDepth + 2

\* The bodies of the here-documents of some elements.
Owed(elems) == FlattenSeq([i \in DOMAIN elems |-> elems[i].cmd.docs])

\* No element with a here-document was skipped.
Clean(f) == \A k \in DOMAIN f.done : f.done[k].ran \/ f.done[k].docs = <<>>

\* bodies is what the elements are owed, after what skipped ones have left there.
Stored(bodies, elems, clean) ==
    \E x \in Seq(Doc) : bodies = x \o Owed(elems) /\ (clean => x = <<>>)

\* A chain between two elements, and one that is at work on its first element left.
Ready(f) == f.got = <<>> /\ Stored(f.bodies, f.rest, Clean(f))

AtWork(f) ==
    /\ f.rest # <<>> /\ f.run = TRUE
    /\ Stored(f.bodies, Tail(f.rest), Clean(f))
    /\ Clean(f) => f.got = Head(f.rest).cmd.docs

\* Element k is the last that ran before place n.
LastRan(done, n, k) == done[k].ran /\ \A m \in (k + 1)..(n - 1) : ~done[m].ran

\* What decides about the next element: the last operator and the last element that ran.
Undecided(f) ==
    IF f.done = <<>> THEN f.run = TRUE
    ELSE \E k \in 1..Len(f.done) :
             /\ LastRan(f.done, Len(f.done) + 1, k)
             /\ f.status = f.done[k].status
             /\ f.run = Decided(f.done[Len(f.done)].op, f.done[k].status)

Obeyed(done) ==
    \A i \in 1..Len(done) :
        IF i = 1 THEN done[i].ran
        ELSE \E k \in 1..(i - 1) :
                 LastRan(done, i, k) /\ done[i].ran = Decided(done[i - 1].op, done[k].status)

Served(done) ==
    \A i \in 1..Len(done) :
        done[i].ran /\ (\A k \in 1..i : done[k].ran \/ done[k].docs = <<>>) => done[i].got = done[i].docs

Chained(f) == Executes(f) => Undecided(f) /\ Obeyed(f.done) /\ Served(f.done)

\* r is the result that is on its way.
Calls(s, r) ==
    /\ IsStack(s)
    /\ \A i \in 1..Len(s) : FrameAt(s[i], i) /\ Chained(s[i])
    /\ \A i \in 1..(Len(s) - 1) : Executes(s[i]) => AtWork(s[i])
    /\ s # <<>> /\ Executes(s[Len(s)]) =>
           /\ r = Running => Ready(s[Len(s)])
           /\ r.kind = "status" => AtWork(s[Len(s)])

Results == [kind : {"none", "status", "exit", "oserror", "valueerror", "error", "interrupt"}, code : Int]

Values ==
    /\ result \in Results /\ lastStatus \in Int
    /\ name \in File \union {None} /\ context \in File \union {None}
    /\ staged \in Paste \union {None} /\ pasting \in BOOLEAN
    /\ interactive \in BOOLEAN
    /\ fds \in [Fd -> Device] /\ stuck \in BOOLEAN
    /\ gone \in BOOLEAN /\ faults \in 0..MaxFaults

CInv == Calls(stack, result) /\ Values

----------------------------------------------------------------------------
(* The three changes of the calls in progress.                              *)

\* A call is one of three records.
LEMMA FrameCall ==
    ASSUME NEW f, NEW i, FrameAt(f, i)
    PROVE  /\ f \in ExecuteFrame <=> f.call = "execute"
           /\ f \in BuiltinFrame <=> f.call = "builtin"
           /\ f \in FileFrame <=> f.call \in FileKind
BY DEF FrameAt, ExecuteFrame, BuiltinFrame, FileFrame, FileKind

\* A call is added to calls of which the innermost is at work.
LEMMA CallAdded ==
    ASSUME NEW s, NEW r, Calls(s, r), s # <<>> /\ Executes(s[Len(s)]) => AtWork(s[Len(s)]),
           NEW x, FrameAt(x, Len(s) + 1), Chained(x), Executes(x) => Ready(x), NEW r2, r2 = Running
    PROVE  Calls(Append(s, x), r2)
<1> DEFINE t == Append(s, x)
<1>1. /\ Len(s) \in Nat /\ IsStack(t) /\ Len(t) = Len(s) + 1
      /\ \A i \in 1..Len(s) : t[i] = s[i]
      /\ t[Len(s) + 1] = x
      BY Appended, StackLength DEF Calls
<1>2. s = <<>> => Len(s) = 0
      OBVIOUS
<1> HIDE DEF t
<1>3. ASSUME NEW i \in 1..Len(t) PROVE FrameAt(t[i], i) /\ Chained(t[i])
  <2>1. i = Len(s) + 1 \/ i \in 1..Len(s)
        BY <1>1
  <2> QED BY <1>1, <2>1 DEF Calls
<1>4. ASSUME NEW i \in 1..(Len(t) - 1), Executes(t[i]) PROVE AtWork(t[i])
  <2>1. i \in 1..Len(s) /\ t[i] = s[i]
        BY <1>1
  <2>2. i = Len(s) \/ i \in 1..(Len(s) - 1)
        BY <1>1, <2>1
  <2> QED BY <1>1, <1>2, <1>4, <2>1, <2>2 DEF Calls
<1>5. t[Len(t)] = x /\ r2.kind # "status"
      BY <1>1 DEF Running
<1> QED BY <1>1, <1>3, <1>4, <1>5 DEF Calls, t

\* The innermost call ends.
LEMMA CallEnds ==
    ASSUME NEW s, NEW r, Calls(s, r), s # <<>>, NEW r2, r2 # Running
    PROVE  Calls(Front(s), r2)
<1> DEFINE t == Front(s)
<1>1. /\ Len(s) \in Nat \ {0} /\ IsStack(t) /\ Len(t) = Len(s) - 1
      /\ \A i \in 1..(Len(s) - 1) : t[i] = s[i]
      BY Removed DEF Calls
<1> HIDE DEF t
<1>2. \A i \in 1..Len(t) : i \in 1..Len(s) /\ i \in 1..(Len(s) - 1) /\ t[i] = s[i]
      BY <1>1
<1>3. \A i \in 1..Len(t) : FrameAt(t[i], i) /\ Chained(t[i]) /\ (Executes(t[i]) => AtWork(t[i]))
      BY <1>2 DEF Calls
<1>4. /\ \A i \in 1..(Len(t) - 1) : i \in 1..Len(t)
      /\ Len(t) \in Nat /\ (Len(t) # 0 => Len(t) \in 1..Len(t))
      BY <1>1
<1>5. t # <<>> => Len(t) # 0
      BY <1>1 DEF IsStack
<1> QED BY <1>1, <1>3, <1>4, <1>5 DEF Calls, t

\* The innermost call goes on.
LEMMA CallGoesOn ==
    ASSUME NEW r, Calls(stack, r), stack # <<>>, NEW f, FrameAt(f, Len(stack)), Chained(f), NEW r2,
           Executes(f) => /\ r2 = Running => Ready(f)
                          /\ r2.kind = "status" => AtWork(f)
    PROVE  /\ Calls(With(f), r2) /\ Len(With(f)) = Len(stack) /\ With(f)[Len(stack)] = f
           /\ With(f) # <<>>
<1> DEFINE c == Front(stack)
           t == Append(c, f)
<1>1. /\ Len(stack) \in Nat \ {0} /\ IsStack(c) /\ Len(c) = Len(stack) - 1
      /\ \A i \in 1..(Len(stack) - 1) : c[i] = stack[i]
      BY Removed DEF Calls
<1> HIDE DEF c
<1>2. /\ IsStack(t) /\ Len(t) = Len(stack) /\ t[Len(stack)] = f
      /\ \A i \in 1..(Len(stack) - 1) : t[i] = stack[i]
  <2>1. /\ IsStack(t) /\ Len(t) = Len(c) + 1 /\ t[Len(c) + 1] = f
        /\ \A i \in 1..Len(c) : t[i] = c[i]
        BY <1>1, Appended
  <2> HIDE DEF t
  <2> QED BY <1>1, <2>1
<1> HIDE DEF t
<1>3. ASSUME NEW i \in 1..Len(t) PROVE FrameAt(t[i], i) /\ Chained(t[i])
  <2>1. i \in 1..Len(stack) /\ (i = Len(stack) \/ i \in 1..(Len(stack) - 1))
        BY <1>1, <1>2
  <2> QED BY <1>2, <2>1 DEF Calls
<1>4. \A i \in 1..(Len(t) - 1) : Executes(t[i]) => AtWork(t[i])
      BY <1>2 DEF Calls
<1>5. t # <<>>
      BY <1>1, <1>2
<1> QED BY <1>2, <1>3, <1>4, <1>5 DEF Calls, With, Callers, t, c

\* Another result for the same calls.
LEMMA ResultChanges ==
    ASSUME NEW s, NEW r, Calls(s, r), NEW r2,
           s # <<>> /\ Executes(s[Len(s)]) => r2 # Running /\ r2.kind # "status"
    PROVE  Calls(s, r2)
BY DEF Calls

\* The innermost call, as it is known.
LEMMA TopKnown ==
    ASSUME Calls(stack, result), stack # <<>>
    PROVE  /\ Len(stack) \in Nat \ {0} /\ Top = stack[Len(stack)]
           /\ FrameAt(Top, Len(stack)) /\ Chained(Top)
           /\ Executes(Top) => /\ result = Running => Ready(Top)
                               /\ result.kind = "status" => AtWork(Top)
           /\ Top.call = "execute" => Top \in ExecuteFrame /\ Len(stack) <= MaxDepth
           /\ Top.call = "builtin" => Top \in BuiltinFrame /\ Len(stack) <= MaxDepth + 1
           /\ Top.call \in FileKind => Top \in FileFrame /\ Len(stack) <= MaxDepth + 2
<1>1. Len(stack) \in Nat \ {0}
      BY Removed DEF Calls
<1>2. Len(stack) \in 1..Len(stack)
      BY <1>1
<1>3. FrameAt(Top, Len(stack)) /\ Chained(Top)
      BY <1>2 DEF Calls, Top
<1>4. /\ Top.call = "execute" => Top \in ExecuteFrame /\ Len(stack) <= MaxDepth
      /\ Top.call = "builtin" => Top \in BuiltinFrame /\ Len(stack) <= MaxDepth + 1
      /\ Top.call \in FileKind => Top \in FileFrame /\ Len(stack) <= MaxDepth + 2
      BY <1>3 DEF FrameAt, ExecuteFrame, BuiltinFrame, FileFrame, FileKind
<1> QED BY <1>1, <1>3, <1>4 DEF Calls, Top

\* A command's parts.
LEMMA CommandParts ==
    ASSUME NEW cmd \in Command
    PROVE  /\ cmd.docs \in Seq(Doc) /\ cmd.spec \in Seq(Action) /\ cmd.code \in Nat
           /\ cmd.does = "broken" => cmd.docs = <<>>
           /\ cmd.does \in {"source", "run_script"} => cmd.file \in File
<1>1. CASE cmd \in [does : {"broken"}, code : {2}, file : {None}, spec : {<<>>}, docs : {<<>>}]
  <2>1. cmd.docs = <<>> /\ cmd.spec = <<>> /\ cmd.code = 2 /\ cmd.does = "broken"
        BY <1>1
  <2> QED BY <2>1
<1>2. CASE cmd \in [does : {"source", "run_script"}, code : {0}, file : File, spec : Seq(Action), docs : Seq(Doc)]
      BY <1>2
<1>3. CASE cmd \in [does : {"run", "clear", "print", "exit", "paste_run", "paste_cancel", "paste_show", "paste_edit"},
                    code : Nat, file : {None}, spec : Seq(Action), docs : Seq(Doc)]
      BY <1>3
<1> QED BY <1>1, <1>2, <1>3 DEF Command

\* An element's.
LEMMA ElementParts ==
    ASSUME NEW elems \in Seq(Element), elems # <<>>
    PROVE  /\ Head(elems) \in Element /\ Tail(elems) \in Seq(Element)
           /\ Head(elems).cmd \in Command /\ Head(elems).op \in {"&&", "||", ";", "&", "end"}
           /\ Head(elems).cmd.docs \in Seq(Doc)
<1>1. Head(elems) \in Element /\ Tail(elems) \in Seq(Element)
      BY Tailed
<1>2. Head(elems).cmd \in Command /\ Head(elems).op \in {"&&", "||", ";", "&", "end"}
      BY <1>1 DEF Element
<1> QED BY <1>1, <1>2, CommandParts

\* What the elements are owed: the first first.
LEMMA OwedParts ==
    ASSUME NEW elems \in Seq(Element)
    PROVE  /\ Owed(elems) \in Seq(Doc)
           /\ elems # <<>> => Owed(elems) = Head(elems).cmd.docs \o Owed(Tail(elems))
<1> DEFINE Docs(e) == [i \in DOMAIN e |-> e[i].cmd.docs]
<1>1. ASSUME NEW e \in Seq(Element) PROVE Docs(e) \in Seq(Seq(Doc)) /\ Len(Docs(e)) = Len(e)
  <2>1. DOMAIN e = 1..Len(e) /\ Len(e) \in Nat
        OBVIOUS
  <2>2. ASSUME NEW i \in 1..Len(e) PROVE e[i].cmd.docs \in Seq(Doc)
    <3>1. e[i] \in Element
          OBVIOUS
    <3>2. e[i].cmd \in Command
          BY <3>1 DEF Element
    <3> QED BY <3>2, CommandParts
  <2> QED BY <2>1, <2>2
<1>2. Owed(elems) \in Seq(Doc)
      BY <1>1, Flattened DEF Owed
<1>3. ASSUME elems # <<>> PROVE Owed(elems) = Head(elems).cmd.docs \o Owed(Tail(elems))
  <2> DEFINE t == Tail(elems)
             d == Docs(elems)
  <2>1. /\ t \in Seq(Element) /\ Len(t) = Len(elems) - 1 /\ Len(elems) \in Nat \ {0}
        /\ \A i \in 1..Len(t) : t[i] = elems[i + 1]
        /\ Head(elems) = elems[1]
        BY <1>3
  <2>2. d \in Seq(Seq(Doc)) /\ Len(d) = Len(elems) /\ d # <<>>
    <3>1. d \in Seq(Seq(Doc)) /\ Len(d) = Len(elems)
          BY <1>1
    <3> HIDE DEF d
    <3> QED BY <2>1, <3>1, Tailed
  <2>3. \A i \in 1..Len(elems) : d[i] = elems[i].cmd.docs
        OBVIOUS
  <2>4. Docs(t) \in Seq(Seq(Doc)) /\ Len(Docs(t)) = Len(t) /\ \A i \in 1..Len(t) : Docs(t)[i] = t[i].cmd.docs
    <3>1. Docs(t) \in Seq(Seq(Doc)) /\ Len(Docs(t)) = Len(t)
          BY <1>1, <2>1
    <3>2. DOMAIN t = 1..Len(t)
          BY <2>1
    <3> HIDE DEF t
    <3> QED BY <3>1, <3>2
  <2>5. Head(d) = Head(elems).cmd.docs
    <3> HIDE DEF d
    <3>1. Head(d) = d[1] /\ 1 \in 1..Len(elems)
          BY <2>1, <2>2, Tailed
    <3> QED BY <2>1, <2>3, <3>1
  <2>6. Tail(d) = Docs(t)
    <3> DEFINE e == Docs(t)
    <3>1. e \in Seq(Seq(Doc)) /\ Len(e) = Len(t) /\ \A i \in 1..Len(t) : e[i] = elems[i + 1].cmd.docs
          BY <2>1, <2>4
    <3> HIDE DEF d, e, t
    <3>2. Tail(d) \in Seq(Seq(Doc)) /\ Len(Tail(d)) = Len(t) /\ \A i \in 1..Len(t) : Tail(d)[i] = d[i + 1]
          BY <2>1, <2>2
    <3>3. \A i \in 1..Len(t) : Tail(d)[i] = e[i]
      <4>1. \A i \in 1..Len(t) : i + 1 \in 1..Len(elems)
            BY <2>1
      <4> QED BY <2>3, <3>1, <3>2, <4>1
    <3>4. DOMAIN Tail(d) = 1..Len(t) /\ DOMAIN e = 1..Len(t)
          BY <3>1, <3>2
    <3>5. Tail(d) = e
      <4> DEFINE u == Tail(d)
      <4>1. u \in Seq(Seq(Doc)) /\ Len(u) = Len(e) /\ \A i \in 1..Len(u) : u[i] = e[i]
            BY <3>1, <3>2, <3>3
      <4> HIDE DEF u
      <4>2. u = e
            BY <3>1, <4>1, SameElements, Zenon
      <4> QED BY <4>2 DEF u
    <3> QED BY <3>5 DEF e
  <2>7. FlattenSeq(d) = Head(d) \o FlattenSeq(Tail(d))
    <3> HIDE DEF d
    <3> QED BY <2>2, Flattened, Zenon
  <2> QED BY <2>5, <2>6, <2>7, Zenon DEF Owed
<1> QED BY <1>2, <1>3

\* A part of a sequence.
IsPart(D, q, s, a, b) == q \in Seq(D) /\ Len(q) = b /\ \A i \in 1..b : q[i] = s[a + i]

LEMMA PartOf ==
    ASSUME NEW D, NEW s \in Seq(D), NEW a \in Nat, NEW b \in Nat, a + b <= Len(s)
    PROVE  IsPart(D, SubSeq(s, a + 1, a + b), s, a, b)
BY DEF IsPart

\* x, d and r in a row are split after as many as d has.
Split(D, x, d, r, first, last) ==
    /\ first \in Seq(D) /\ last \in Seq(D)
    /\ \E y \in Seq(D) : last = y \o r /\ (x = <<>> => y = <<>>)
    /\ x = <<>> => first = d

\* The first n of x, d and r, where d has n, and the others.
LEMMA Parted ==
    ASSUME NEW D, NEW x \in Seq(D), NEW d \in Seq(D), NEW r \in Seq(D), NEW s, s = x \o (d \o r),
           NEW n, n = Len(d)
    PROVE  Split(D, x, d, r, SubSeq(s, 1, n), SubSeq(s, n + 1, Len(s)))
<1> DEFINE k == Len(x)
           m == Len(r)
           y == SubSeq(x \o d, n + 1, k + n)
           z == SubSeq(s, n + 1, Len(s))
<1>1. /\ k \in Nat /\ m \in Nat /\ n \in Nat /\ s \in Seq(D) /\ Len(s) = k + n + m
      /\ x \o d \in Seq(D) /\ Len(x \o d) = k + n
      OBVIOUS
<1>2. \A i \in 1..(k + n) : s[i] = (x \o d)[i]
      OBVIOUS
<1>3. \A i \in 1..m : s[k + n + i] = r[i]
      OBVIOUS
<1> HIDE DEF k, m
<1>4. SubSeq(s, 1, n) \in Seq(D) /\ z \in Seq(D) /\ Len(z) = k + m /\ \A i \in 1..(k + m) : z[i] = s[n + i]
  <2>1. n + (k + m) = Len(s) /\ 0 + n <= Len(s) /\ k + m \in Nat /\ n \in Nat /\ s \in Seq(D) /\ 0 + 1 = 1 /\ 0 + n = n
        BY <1>1
  <2>2. z \in Seq(D) /\ Len(z) = k + m /\ \A i \in 1..(k + m) : z[i] = s[n + i]
    <3>1. z = SubSeq(s, n + 1, n + (k + m))
          BY <2>1
    <3> DEFINE b == k + m
    <3> HIDE DEF z
    <3>2. b \in Nat /\ n + b <= Len(s) /\ z = SubSeq(s, n + 1, n + b)
      <4>1. b \in Nat /\ n + b <= Len(s)
            BY <2>1
      <4> QED BY <3>1, <4>1, Zenon
    <3> HIDE DEF b
    <3>3. IsPart(D, SubSeq(s, n + 1, n + b), s, n, b)
          BY <2>1, <3>2, PartOf, Zenon
    <3>4. z \in Seq(D) /\ Len(z) = b /\ \A i \in 1..b : z[i] = s[n + i]
          BY <3>2, <3>3, Zenon DEF IsPart
    <3> QED BY <3>4 DEF b
  <2>3. SubSeq(s, 1, n) \in Seq(D)
    <3> DEFINE q == SubSeq(s, 1, n)
    <3>1. q = SubSeq(s, 0 + 1, 0 + n) /\ 0 \in Nat
          BY <2>1
    <3> HIDE DEF q
    <3>2. IsPart(D, SubSeq(s, 0 + 1, 0 + n), s, 0, n)
          BY <2>1, <3>1, PartOf, Zenon
    <3>3. q \in Seq(D)
          BY <3>1, <3>2, Zenon DEF IsPart
    <3> QED BY <3>3 DEF q
  <2> QED BY <2>2, <2>3
<1>5. y \in Seq(D) /\ Len(y) = k /\ \A i \in 1..k : y[i] = (x \o d)[n + i]
  <2> DEFINE w == x \o d
  <2>1. w \in Seq(D) /\ n + k <= Len(w) /\ k + n = n + k
        BY <1>1
  <2>2. y = SubSeq(w, n + 1, n + k)
        BY <2>1
  <2> HIDE DEF w, y
  <2>3. IsPart(D, SubSeq(w, n + 1, n + k), w, n, k)
        BY <1>1, <2>1, PartOf, Zenon
  <2>4. y \in Seq(D) /\ Len(y) = k /\ \A i \in 1..k : y[i] = w[n + i]
        BY <2>2, <2>3, Zenon DEF IsPart
  <2> QED BY <2>4, Zenon DEF w
<1> HIDE DEF y, z
<1>6. y \o r \in Seq(D) /\ Len(y \o r) = k + m
  <2>1. y \in Seq(D) /\ Len(y) = k /\ Len(r) = m
        BY <1>5 DEF m
  <2>2. y \o r \in Seq(D) /\ Len(y \o r) = Len(y) + Len(r)
    <3>1. y \in Seq(D) /\ r \in Seq(D)
          BY <2>1
    <3> QED BY <3>1
  <2> QED BY <2>1, <2>2
<1>7. ASSUME NEW i \in 1..(k + m) PROVE z[i] = (y \o r)[i]
  <2>1. CASE i <= k
    <3>1. i \in 1..k /\ n + i \in 1..(k + n)
          BY <1>1, <2>1
    <3>2. (y \o r)[i] = y[i]
          BY <1>5, <3>1
    <3> QED BY <1>2, <1>4, <1>5, <3>1, <3>2
  <2>2. CASE i > k
    <3>1. i - k \in 1..m /\ k + n + (i - k) = n + i
          BY <1>1, <2>2
    <3>2. (y \o r)[i] = r[i - k]
      <4> DEFINE j == i - k
      <4>1. j \in 1..Len(r) /\ Len(y) + j = i /\ y \in Seq(D)
            BY <1>1, <1>5, <3>1 DEF m
      <4> HIDE DEF j
      <4>2. (y \o r)[Len(y) + j] = r[j]
            BY <4>1, Behind, Zenon
      <4> QED BY <4>1, <4>2, Zenon DEF j
    <3> QED BY <1>3, <1>4, <3>1, <3>2
  <2>3. i <= k \/ i > k
    <3>1. k \in Nat /\ m \in Nat
          BY <1>1
    <3> QED BY <3>1
  <2> QED BY <2>1, <2>2, <2>3
<1>8. z = y \o r
  <2> DEFINE w == y \o r
  <2>1. w \in Seq(D) /\ Len(w) = k + m /\ \A i \in 1..(k + m) : z[i] = w[i]
        BY <1>6, <1>7
  <2> HIDE DEF w
  <2>2. z = w
        BY <1>4, <2>1
  <2> QED BY <2>2 DEF w
<1>9. x = <<>> => k = 0
      BY DEF k
<1>10. x = <<>> => y = <<>>
      BY <1>5, <1>9, Tailed
<1>11. ASSUME x = <<>> PROVE SubSeq(s, 1, n) = d
  <2> DEFINE q == SubSeq(s, 1, n)
  <2>1. s = d \o r
    <3>1. d \o r \in Seq(D)
          OBVIOUS
    <3> QED BY <1>11, <3>1
  <2>2. q \in Seq(D) /\ Len(q) = n /\ \A i \in 1..n : q[i] = s[i]
    <3>1. /\ q = SubSeq(s, 0 + 1, 0 + n) /\ 0 \in Nat /\ 0 + n <= Len(s)
          /\ \A i \in 1..n : 0 + i = i
          BY <1>1
    <3> HIDE DEF q
    <3>2. IsPart(D, SubSeq(s, 0 + 1, 0 + n), s, 0, n)
          BY <1>1, <3>1, PartOf, Zenon
    <3>3. q \in Seq(D) /\ Len(q) = n /\ \A i \in 1..n : q[i] = s[0 + i]
          BY <3>1, <3>2, Zenon DEF IsPart
    <3> QED BY <3>1, <3>3
  <2>3. \A i \in 1..n : s[i] = d[i]
        BY <2>1
  <2> HIDE DEF q
  <2>4. q = d
    <3>1. Len(q) = Len(d) /\ \A i \in 1..Len(q) : q[i] = d[i]
          BY <2>2, <2>3
    <3> QED BY <2>2, <3>1, SameElements
  <2> QED BY <2>4 DEF q
<1> QED BY <1>4, <1>5, <1>8, <1>10, <1>11 DEF z, Split

\* An element that did not run is not the last that ran.
LEMMA StaysLast ==
    ASSUME NEW d, NEW n \in Nat, NEW k \in 1..n, NEW p, NEW q, p = n + 1, q = n + 2,
           LastRan(d, p, k), ~d[p].ran
    PROVE  LastRan(d, q, k)
<1>1. d[k].ran
      BY Zenon DEF LastRan
<1>2. \A m \in (k + 1)..(p - 1) : ~d[m].ran
      BY Zenon DEF LastRan
<1>3. \A m \in (k + 1)..(q - 1) : m \in (k + 1)..(p - 1) \/ m = p
      OBVIOUS
<1>4. \A m \in (k + 1)..(q - 1) : ~d[m].ran
      BY <1>2, <1>3, Zenon
<1> QED BY <1>1, <1>4, Zenon DEF LastRan

\* A chain without the element that is over.
LEMMA ElementOver ==
    ASSUME Calls(stack, result), In({"execute"}), NEW ran \in BOOLEAN, NEW status \in Int,
           Top.rest # <<>>, ran = Top.run,
           ran = TRUE => AtWork(Top),
           ran = FALSE => Ready(Top) /\ status = Top.status
    PROVE  \E g : /\ Past(ran, status) = With(g) /\ g \in ExecuteFrame
                  /\ Chained(g) /\ Ready(g)
<1> DEFINE top == Top
           n == Len(top.done)
           e == [op |-> Head(top.rest).op, docs |-> Head(top.rest).cmd.docs, got |-> top.got,
                 ran |-> ran, status |-> status]
           done == Append(top.done, e)
           next == Decided(Head(top.rest).op, status)
           g == [top EXCEPT !.rest = Tail(@), !.status = status, !.got = <<>>, !.run = next,
                            !.done = Append(@, e)]
<1>1. /\ top \in ExecuteFrame /\ top.call = "execute" /\ top.rest # <<>> /\ Chained(top) /\ Executes(top)
      BY TopKnown DEF In, Executes
<1>2. Past(ran, status) = With(g)
      BY DEF Past, Current
<1> HIDE DEF top
<1>3. /\ top.rest \in Seq(Element) /\ top.status \in Int /\ top.run \in BOOLEAN /\ top.got \in Seq(Doc)
      /\ top.bodies \in Seq(Doc) /\ top.done \in Seq(Done)
      BY <1>1 DEF ExecuteFrame
<1>4. /\ Tail(top.rest) \in Seq(Element) /\ Head(top.rest).op \in {"&&", "||", ";", "&", "end"}
      /\ Head(top.rest).cmd.docs \in Seq(Doc)
      BY <1>1, <1>3, ElementParts
<1>5. e \in Done
      BY <1>3, <1>4 DEF Done
<1>6. /\ e.op = Head(top.rest).op /\ e.docs = Head(top.rest).cmd.docs /\ e.got = top.got
      /\ e.ran = ran /\ e.status = status
      OBVIOUS
<1>7. next \in BOOLEAN
      BY DEF Decided
<1>8. /\ g.call = "execute" /\ g.rest = Tail(top.rest) /\ g.status = status /\ g.got = <<>>
      /\ g.run = next /\ g.done = done /\ g.bodies = top.bodies
      BY <1>1 DEF ExecuteFrame
<1>9. g \in ExecuteFrame
  <2>1. done \in Seq(Done)
    <3> HIDE DEF e
    <3> QED BY <1>3, <1>5
  <2> DEFINE h == [top EXCEPT !.rest = Tail(top.rest), !.status = status, !.got = <<>>, !.run = next,
                              !.done = done]
  <2>2. g = h
        BY Zenon
  <2> HIDE DEF e, next, done
  <2>3. <<>> \in Seq(Doc)
        OBVIOUS
  <2>4. h \in ExecuteFrame
        BY <1>1, <1>3, <1>4, <1>7, <2>1, <2>3 DEF ExecuteFrame
  <2> HIDE DEF g, h
  <2> QED BY <2>2, <2>4
<1>10. /\ n \in Nat /\ DOMAIN top.done = 1..n /\ DOMAIN done = 1..(n + 1) /\ Len(done) = n + 1
       /\ \A i \in 1..n : done[i] = top.done[i]
       /\ done[n + 1] = e
       /\ top.done = <<>> <=> n = 0
  <2> HIDE DEF e
  <2>1. done \in Seq(Done) /\ Len(done) = n + 1 /\ n \in Nat /\ (top.done = <<>> <=> n = 0)
        BY <1>3, <1>5
  <2>2. /\ \A i \in 1..n : done[i] = top.done[i]
        /\ done[n + 1] = e
        BY <1>3, <1>5
  <2> QED BY <1>3, <2>1, <2>2
<1> HIDE DEF e, done, g, n, next
<1>11. Undecided(top) /\ Obeyed(top.done) /\ Served(top.done)
      BY <1>1 DEF Chained
<1>12. ASSUME n # 0
       PROVE  \E k \in 1..n : /\ LastRan(top.done, n + 1, k) /\ top.status = top.done[k].status
                              /\ top.run = Decided(top.done[n].op, top.done[k].status)
      BY <1>10, <1>11, <1>12 DEF Undecided, n
<1>13. ASSUME NEW k \in 1..n, NEW m \in 1..(n + 1), LastRan(top.done, m, k) PROVE LastRan(done, m, k)
  <2>1. done[k] = top.done[k] /\ \A j \in (k + 1)..(m - 1) : j \in 1..n
        BY <1>10
  <2> QED BY <1>10, <1>13, <2>1 DEF LastRan
<1>14. \A i \in 1..(n + 1) : i \in 1..n \/ i = n + 1
      BY <1>10
<1>15. n = 0 => ran = TRUE
      BY <1>10, <1>11 DEF Undecided, top
<1>16. Obeyed(done)
  <2>1. ASSUME NEW i \in 1..n
        PROVE  IF i = 1 THEN done[i].ran
               ELSE \E k \in 1..(i - 1) :
                        LastRan(done, i, k) /\ done[i].ran = Decided(done[i - 1].op, done[k].status)
    <3>1. CASE i = 1
          BY <1>10, <1>11, <3>1 DEF Obeyed, n
    <3>2. CASE i # 1
      <4>1. PICK k \in 1..(i - 1) : /\ LastRan(top.done, i, k)
                                    /\ top.done[i].ran = Decided(top.done[i - 1].op, top.done[k].status)
            BY <1>10, <1>11, <3>2 DEF Obeyed, n
      <4>2. k \in 1..n /\ i - 1 \in 1..n /\ i \in 1..(n + 1)
            BY <1>10, <3>2
      <4>3. LastRan(done, i, k)
            BY <1>13, <4>1, <4>2
      <4> QED BY <1>10, <3>2, <4>1, <4>2, <4>3
    <3> QED BY <3>1, <3>2
  <2>2. IF n + 1 = 1 THEN done[n + 1].ran
        ELSE \E k \in 1..((n + 1) - 1) :
                 LastRan(done, n + 1, k) /\ done[n + 1].ran = Decided(done[(n + 1) - 1].op, done[k].status)
    <3>1. CASE n = 0
          BY <1>6, <1>10, <1>15, <3>1
    <3>2. CASE n # 0
      <4>1. PICK k \in 1..n : /\ LastRan(top.done, n + 1, k)
                              /\ top.run = Decided(top.done[n].op, top.done[k].status)
            BY <1>12, <3>2
      <4>2. LastRan(done, n + 1, k) /\ done[k] = top.done[k] /\ done[n] = top.done[n]
        <5>1. n + 1 \in 1..(n + 1) /\ n \in 1..n
              BY <1>10, <3>2
        <5> QED BY <1>10, <1>13, <4>1, <5>1
      <4>3. done[n + 1].ran = Decided(done[n].op, done[k].status)
            BY <1>6, <1>10, <4>1, <4>2 DEF top
      <4>4. (n + 1) - 1 = n /\ n + 1 # 1
            BY <1>10, <3>2
      <4> QED BY <4>2, <4>3, <4>4
    <3> QED BY <3>1, <3>2
  <2> QED BY <1>10, <1>14, <2>1, <2>2 DEF Obeyed
<1>17. Undecided(g)
  <2>1. \E k \in 1..(n + 1) : /\ LastRan(done, n + 2, k) /\ status = done[k].status
                              /\ next = Decided(done[n + 1].op, done[k].status)
    <3>1. CASE ran = TRUE
      <4>1. n + 1 \in 1..(n + 1) /\ \A m \in (n + 1 + 1)..(n + 2 - 1) : FALSE
            BY <1>10
      <4>2. LastRan(done, n + 2, n + 1) /\ status = done[n + 1].status
            BY <1>6, <1>10, <3>1, <4>1 DEF LastRan
      <4>3. next = Decided(done[n + 1].op, done[n + 1].status)
            BY <1>6, <1>10 DEF next
      <4> QED BY <4>1, <4>2, <4>3
    <3>2. CASE ran = FALSE
      <4>1. n # 0
            BY <1>15, <3>2
      <4>2. PICK k \in 1..n : LastRan(top.done, n + 1, k) /\ top.status = top.done[k].status
            BY <1>12, <4>1
      <4>3. LastRan(done, n + 1, k) /\ done[k] = top.done[k] /\ k \in 1..(n + 1)
        <5>1. n + 1 \in 1..(n + 1) /\ k \in 1..(n + 1)
              BY <1>10
        <5> QED BY <1>10, <1>13, <4>2, <5>1
      <4>5. ~done[n + 1].ran
            BY <1>6, <1>10, <3>2
      <4>6. LastRan(done, n + 2, k)
        <5>1. n \in Nat
              BY <1>10
        <5> QED BY <5>1, <4>3, <4>5, StaysLast, Zenon
      <4>7. status = done[k].status
            BY <3>2, <4>2, <4>3 DEF top
      <4>8. next = Decided(done[n + 1].op, done[k].status)
            BY <1>6, <1>10, <4>7 DEF next
      <4> QED BY <4>3, <4>6, <4>7, <4>8
    <3> QED BY <3>1, <3>2
  <2>2. done # <<>> /\ (n + 1) + 1 = n + 2
    <3>1. done = <<>> => Len(done) = 0
          OBVIOUS
    <3> QED BY <1>10, <3>1
  <2> QED BY <1>8, <1>10, <2>1, <2>2 DEF Undecided
<1>18. Clean(g) => Clean(top) /\ (ran = TRUE \/ Head(top.rest).cmd.docs = <<>>)
  <2>1. SUFFICES ASSUME \A k \in 1..(n + 1) : done[k].ran \/ done[k].docs = <<>>
                 PROVE  Clean(top) /\ (ran = TRUE \/ Head(top.rest).cmd.docs = <<>>)
        BY <1>8, <1>10 DEF Clean
  <2>2. \A k \in 1..n : k \in 1..(n + 1) /\ done[k] = top.done[k]
        BY <1>10
  <2>3. Clean(top)
        BY <1>10, <2>1, <2>2 DEF Clean
  <2>4. n + 1 \in 1..(n + 1)
        BY <1>10
  <2> QED BY <1>6, <1>10, <2>1, <2>3, <2>4
<1>19. Served(done)
  <2>1. ASSUME NEW i \in 1..n, done[i].ran, \A k \in 1..i : done[k].ran \/ done[k].docs = <<>>
        PROVE  done[i].got = done[i].docs
    <3>1. \A k \in 1..i : k \in 1..n /\ done[k] = top.done[k]
          BY <1>10
    <3>2. done[i] = top.done[i]
          BY <1>10
    <3> QED BY <1>11, <2>1, <3>1, <3>2 DEF Served, n
  <2>2. ASSUME done[n + 1].ran, \A k \in 1..(n + 1) : done[k].ran \/ done[k].docs = <<>>
        PROVE  done[n + 1].got = done[n + 1].docs
    <3>1. Clean(top)
          BY <1>8, <1>10, <1>18, <2>2 DEF Clean
    <3>2. ran = TRUE
          BY <1>6, <1>10, <2>2
    <3>3. top.got = Head(top.rest).cmd.docs
          BY <3>1, <3>2 DEF AtWork, top
    <3> QED BY <1>6, <1>10, <3>3
  <2> QED BY <1>10, <1>14, <2>1, <2>2 DEF Served
<1>20. Ready(g)
  <2>1. CASE ran = TRUE
    <3>1. Stored(top.bodies, Tail(top.rest), Clean(top))
          BY <2>1 DEF AtWork, top
    <3> QED BY <1>8, <1>18, <3>1 DEF Ready, Stored
  <2>2. CASE ran = FALSE
    <3> DEFINE d == Head(top.rest).cmd.docs
               o == Owed(Tail(top.rest))
    <3>1. PICK x \in Seq(Doc) : top.bodies = x \o Owed(top.rest) /\ (Clean(top) => x = <<>>)
          BY <2>2 DEF Ready, Stored, top
    <3>2. Owed(top.rest) = d \o o /\ o \in Seq(Doc) /\ d \in Seq(Doc)
          BY <1>1, <1>3, <1>4, OwedParts
    <3> HIDE DEF d, o
    <3>3. top.bodies = (x \o d) \o o /\ x \o d \in Seq(Doc)
      <4>1. JoinsEitherWay(x, d, o)
            BY <3>2, JoinedEitherWay, Zenon
      <4>2. x \o d \in Seq(Doc)
            BY <3>2
      <4>3. top.bodies = (x \o d) \o o
            BY <3>1, <3>2, <4>1, Zenon DEF JoinsEitherWay
      <4> QED BY <4>2, <4>3, Zenon
    <3>4. Clean(g) => x \o d = <<>>
      <4>1. Clean(g) => x = <<>> /\ d = <<>>
            BY <1>18, <2>2, <3>1 DEF d
      <4> QED BY <4>1
    <3> QED BY <1>8, <3>3, <3>4 DEF Ready, Stored, o
  <2> QED BY <2>1, <2>2
<1>21. Chained(g)
      BY <1>8, <1>16, <1>17, <1>19 DEF Chained
<1> QED BY <1>2, <1>9, <1>20, <1>21 DEF g

----------------------------------------------------------------------------
(* Every step keeps the second invariant.                                   *)

\* The results.
LEMMA ResultsAre ==
    /\ \A n \in Int : Status(n) \in Results /\ Exit(n) \in Results
    /\ \A n \in Int : /\ Status(n).kind = "status" /\ Status(n) # Running
                      /\ Exit(n).kind = "exit" /\ Exit(n) # Running
    /\ {Running, OSErr, ValueErr, Err, Stopped} \subseteq Results
    /\ \A r \in {OSErr, ValueErr, Err, Stopped} : r # Running /\ r.kind # "status"
    /\ Running.kind = "none"
BY DEF Status, Exit, Running, OSErr, ValueErr, Err, Stopped, Results

\* A result for calls of which the innermost is at work, or is not a chain.
LEMMA ResultArrives ==
    ASSUME NEW s, NEW r, Calls(s, r), NEW r2, r2 # Running,
           s # <<>> /\ Executes(s[Len(s)]) => AtWork(s[Len(s)])
    PROVE  Calls(s, r2)
BY DEF Calls

\* A chain that has taken the bodies for its first command is at work.
LEMMA BodiesTakenIs ==
    ASSUME Top \in ExecuteFrame, Top.rest # <<>>, Top.run = TRUE, Ready(Top), Chained(Top)
    PROVE  BodiesTaken \in ExecuteFrame /\ Chained(BodiesTaken) /\ AtWork(BodiesTaken)
<1> DEFINE top == Top
           d == Head(top.rest).cmd.docs
           n == Len(d)
           got == SubSeq(top.bodies, 1, n)
           left == SubSeq(top.bodies, n + 1, Len(top.bodies))
           g == [top EXCEPT !.got = got, !.bodies = left]
<1>1. BodiesTaken = g
      BY DEF BodiesTaken, Current
<1>2. top \in ExecuteFrame /\ top.rest # <<>> /\ top.run = TRUE /\ Ready(top) /\ Chained(top)
      OBVIOUS
<1> HIDE DEF top
<1>3. /\ top.rest \in Seq(Element) /\ top.status \in Int /\ top.got \in Seq(Doc)
      /\ top.bodies \in Seq(Doc) /\ top.done \in Seq(Done) /\ top.call = "execute"
      BY <1>2 DEF ExecuteFrame
<1>4. d \in Seq(Doc) /\ Owed(Tail(top.rest)) \in Seq(Doc) /\ Owed(top.rest) = d \o Owed(Tail(top.rest))
      BY <1>2, <1>3, ElementParts, OwedParts
<1>5. PICK x \in Seq(Doc) : top.bodies = x \o Owed(top.rest) /\ (Clean(top) => x = <<>>)
      BY <1>2 DEF Ready, Stored
<1> HIDE DEF d
<1>6. /\ got \in Seq(Doc) /\ left \in Seq(Doc)
      /\ \E y \in Seq(Doc) : left = y \o Owed(Tail(top.rest)) /\ (x = <<>> => y = <<>>)
      /\ x = <<>> => got = d
  <2> DEFINE o == Owed(Tail(top.rest))
             s == top.bodies
  <2>1. /\ x \in Seq(Doc) /\ d \in Seq(Doc) /\ o \in Seq(Doc)
        /\ s = x \o (d \o o) /\ n = Len(d)
        BY <1>4, <1>5
  <2> HIDE DEF o, n, s
  <2>2. /\ got \in Seq(Doc) /\ left \in Seq(Doc)
        /\ \E y \in Seq(Doc) : left = y \o o /\ (x = <<>> => y = <<>>)
        /\ x = <<>> => got = d
    <3> DEFINE a == SubSeq(s, 1, n)
               b == SubSeq(s, n + 1, Len(s))
    <3>1. Split(Doc, x, d, o, a, b)
          BY <2>1, Parted, Zenon
    <3> QED BY <3>1 DEF Split, s
  <2> QED BY <2>2 DEF o
<1> HIDE DEF got, left
<1>7. /\ g.call = "execute" /\ g.rest = top.rest /\ g.status = top.status /\ g.run = TRUE
      /\ g.got = got /\ g.bodies = left /\ g.done = top.done
      BY <1>2, <1>3 DEF ExecuteFrame
<1>8. g \in ExecuteFrame
      BY <1>2, <1>6 DEF ExecuteFrame
<1> HIDE DEF g
<1>9. Chained(g)
      BY <1>2, <1>3, <1>7 DEF Chained, Executes, Undecided
<1>10. Clean(g) <=> Clean(top)
      BY <1>7 DEF Clean
<1>11. AtWork(g)
      BY <1>2, <1>5, <1>6, <1>7, <1>10 DEF AtWork, Stored, d
<1> QED BY <1>1, <1>8, <1>9, <1>11

\* A chain that begins has obeyed so far.
LEMMA ChainBegins ==
    ASSUME NEW l \in Line, l.kind = "chain"
    PROVE  ExecuteCall(l) \in ExecuteFrame /\ Chained(ExecuteCall(l)) /\ Ready(ExecuteCall(l))
<1> DEFINE x == ExecuteCall(l)
           o == Owed(l.elems)
<1>1. l.elems \in Seq(Element)
      BY DEF Line
<1>2. o \in Seq(Doc) /\ <<>> \in Seq(Doc)
      BY <1>1, OwedParts
<1>3. x = [call |-> "execute", rest |-> l.elems, status |-> 0, run |-> TRUE, got |-> <<>>,
           bodies |-> o, done |-> <<>>]
      BY DEF ExecuteCall, Owed
<1>4. o = <<>> \o o
      BY <1>2
<1> HIDE DEF x, o
<1>5. x \in ExecuteFrame
      BY <1>1, <1>2, <1>3 DEF ExecuteFrame
<1>6. x.done = <<>> /\ x.run = TRUE /\ x.got = <<>> /\ x.bodies = o /\ x.rest = l.elems
      BY <1>3
<1>7. Chained(x)
      BY <1>6 DEF Chained, Undecided, Obeyed, Served
<1>8. Ready(x)
      BY <1>2, <1>4, <1>6 DEF Ready, Stored, o
<1> QED BY <1>5, <1>7, <1>8 DEF x

\* What is not a chain.
LEMMA NoChain ==
    ASSUME NEW f, f.call # "execute" PROVE ~Executes(f) /\ Chained(f)
BY DEF Executes, Chained

\* execute, called by the innermost of calls that is none itself.
LEMMA ExecuteCalls ==
    ASSUME NEW c, NEW r, Calls(c, r), c # <<>> => ~Executes(c[Len(c)]), NEW l \in Line, Execute(c, l)
    PROVE  Calls(stack', result') /\ result' \in Results
<1>1. Len(c) \in Nat
      BY StackLength DEF Calls
<1>2. CASE Len(c) >= MaxDepth
      BY <1>2, ResultsAre, ResultChanges DEF Execute
<1>3. CASE Len(c) < MaxDepth /\ l.kind = "chain"
  <2> DEFINE x == ExecuteCall(l)
  <2>1. stack' = Append(c, x) /\ result' = Running
        BY <1>1, <1>3, BoundAssumption DEF Execute
  <2>2. x \in ExecuteFrame /\ Chained(x) /\ Ready(x)
        BY <1>3, ChainBegins
  <2> HIDE DEF x
  <2>3. FrameAt(x, Len(c) + 1)
        BY <1>1, <1>3, <2>2, BoundAssumption DEF FrameAt
  <2>4. Calls(Append(c, x), Running)
        BY <2>2, <2>3, CallAdded
  <2> QED BY <2>1, <2>4, ResultsAre
<1>4. CASE Len(c) < MaxDepth /\ l.kind # "chain"
  <2>1. l.code \in Int
        BY <1>4 DEF Line
  <2>2. stack' = c /\ result' = Status(l.code)
        BY <1>1, <1>4, BoundAssumption DEF Execute
  <2> QED BY <2>1, <2>2, ResultsAre, ResultArrives
<1> QED BY <1>1, <1>2, <1>3, <1>4, BoundAssumption

\* A file that begins is called where execute may be called next.
LEMMA FileCallIs ==
    ASSUME Calls(stack, result), result = Running, Len(stack) <= MaxDepth + 1,
           stack # <<>> => ~Executes(stack[Len(stack)]),
           NEW how \in FileKind, NEW f \in File, NEW lines \in Seq(Line),
           NEW a \in File \union {None}, NEW b \in File \union {None}
    PROVE  Calls(Append(stack, FileCall(how, f, lines, a, b)), Running)
<1> DEFINE x == FileCall(how, f, lines, a, b)
<1>1. x \in FileFrame /\ x.call = how
      BY DEF FileCall, FileFrame, FileKind
<1> HIDE DEF x
<1>2. Len(stack) \in Nat
      BY StackLength DEF Calls
<1>3. FrameAt(x, Len(stack) + 1)
      BY <1>1, <1>2, BoundAssumption DEF FrameAt
<1>4. ~Executes(x) /\ Chained(x)
      BY <1>1, NoChain DEF FileKind
<1>5. Calls(Append(stack, x), Running)
      BY <1>3, <1>4, CallAdded
<1> QED BY <1>5 DEF x

\* A chain goes to its next element, or ends.
LEMMA ChainMoves ==
    ASSUME CInv, SkipElement \/ ElementDone \/ LineEnds \/ LineUnwinds PROVE CInv'
<1>1. Calls(stack, result) /\ Values /\ stack # <<>> /\ In({"execute"}) /\ Top.call = "execute"
      BY DEF CInv, SkipElement, ElementDone, LineEnds, LineUnwinds, In
<1>2. /\ Top \in ExecuteFrame /\ Executes(Top) /\ Len(stack) <= MaxDepth
      /\ result = Running => Ready(Top)
      /\ result.kind = "status" => AtWork(Top)
      BY <1>1, TopKnown DEF Executes
<1>3. Top.run \in BOOLEAN /\ Top.status \in Int
      BY <1>2 DEF ExecuteFrame
<1>4. ASSUME NEW g, g \in ExecuteFrame, Chained(g), Ready(g) PROVE Calls(With(g), Running)
  <2>1. FrameAt(g, Len(stack))
        BY <1>2, <1>4 DEF FrameAt
  <2>2. Running.kind # "status"
        BY ResultsAre
  <2> QED BY <1>1, <1>4, <2>1, <2>2, CallGoesOn
<1>5. CASE SkipElement
  <2>1. /\ Top.rest # <<>> /\ Top.run = FALSE /\ result = Running /\ stack' = Past(FALSE, Top.status)
        /\ UNCHANGED <<result, lastStatus, script, paste, streams, outside>>
        BY <1>3, <1>5 DEF SkipElement
  <2>2. \E g : Past(FALSE, Top.status) = With(g) /\ g \in ExecuteFrame /\ Chained(g) /\ Ready(g)
    <3>1. FALSE \in BOOLEAN /\ FALSE = Top.run /\ ~(FALSE = TRUE)
          BY <2>1
    <3> QED BY <1>1, <1>2, <1>3, <2>1, <3>1, ElementOver
  <2>3. Calls(stack', result')
        BY <1>4, <2>1, <2>2
  <2>4. Values'
        BY <1>1, <2>1 DEF Values, script, paste, streams, outside
  <2> QED BY <2>3, <2>4 DEF CInv
<1>6. CASE ElementDone
  <2>1. /\ result.kind = "status" /\ stack' = Past(TRUE, result.code) /\ lastStatus' = result.code
        /\ result' = Running /\ UNCHANGED <<script, paste, streams, outside>>
        BY <1>6 DEF ElementDone
  <2>2. AtWork(Top) /\ Top.rest # <<>> /\ Top.run = TRUE
        BY <1>2, <2>1 DEF AtWork
  <2>3. result.code \in Int /\ Running \in Results
        BY <1>1, ResultsAre DEF Values, Results
  <2>4. \E g : Past(TRUE, result.code) = With(g) /\ g \in ExecuteFrame /\ Chained(g) /\ Ready(g)
    <3>1. TRUE \in BOOLEAN /\ TRUE = Top.run /\ ~(TRUE = FALSE)
          BY <2>2
    <3> QED BY <1>1, <2>2, <2>3, <3>1, ElementOver
  <2>5. Calls(stack', result')
        BY <1>4, <2>1, <2>4
  <2>6. Values'
        BY <1>1, <2>1, <2>3 DEF Values, script, paste, streams, outside
  <2> QED BY <2>5, <2>6 DEF CInv
<1>7. CASE LineEnds
  <2>1. /\ stack' = Front(stack) /\ result' = Status(Top.status)
        /\ UNCHANGED <<lastStatus, script, paste, streams, outside>>
        BY <1>7 DEF LineEnds, Callers
  <2>2. result' \in Results /\ result' # Running
        BY <1>3, <2>1, ResultsAre
  <2>3. Calls(stack', result')
        BY <1>1, <2>1, <2>2, CallEnds
  <2>4. Values'
        BY <1>1, <2>1, <2>2 DEF Values, script, paste, streams, outside
  <2> QED BY <2>3, <2>4 DEF CInv
<1>8. CASE LineUnwinds
  <2>1. /\ stack' = Front(stack) /\ Raised
        /\ UNCHANGED <<result, lastStatus, script, paste, streams, outside>>
        BY <1>8 DEF LineUnwinds, Callers
  <2>2. result # Running
        BY <2>1, ResultsAre DEF Raised
  <2>3. Calls(stack', result')
        BY <1>1, <2>1, <2>2, CallEnds
  <2>4. Values'
        BY <1>1, <2>1 DEF Values, script, paste, streams, outside
  <2> QED BY <2>3, <2>4 DEF CInv
<1> QED BY <1>5, <1>6, <1>7, <1>8

\* The bodies for a command are taken, whatever the command gives then.
Supplied ==
    \A r \in Results : r # Running =>
        /\ Calls(With(BodiesTaken), r) /\ Len(With(BodiesTaken)) = Len(stack)
        /\ With(BodiesTaken) # <<>> /\ AtWork(With(BodiesTaken)[Len(stack)])

\* A chain that starts its next command is at work, and keeps that.
LEMMA CommandStarts ==
    ASSUME CInv, NEW does, Starts(does)
    PROVE  /\ stack # <<>> /\ Len(stack) \in Nat /\ Len(stack) <= MaxDepth
           /\ Current.cmd \in Command /\ Current.cmd.does \in does
           /\ Ready(Top) /\ Top \in ExecuteFrame /\ Top.rest # <<>> /\ Top.run = TRUE
           /\ Supplied
<1>1. /\ Calls(stack, result) /\ stack # <<>> /\ Top.call = "execute" /\ result = Running
      /\ Top.rest # <<>> /\ Current.cmd.does \in does /\ Top.run
      BY DEF CInv, Starts, In
<1>2. /\ Top \in ExecuteFrame /\ Executes(Top) /\ Len(stack) <= MaxDepth /\ Ready(Top) /\ Chained(Top)
      /\ Len(stack) \in Nat
      BY <1>1, TopKnown DEF Executes
<1>3. Top.run = TRUE /\ Top.rest \in Seq(Element)
      BY <1>1, <1>2 DEF ExecuteFrame
<1>4. Current.cmd \in Command
      BY <1>1, <1>3, ElementParts DEF Current
<1>5. BodiesTaken \in ExecuteFrame /\ Chained(BodiesTaken) /\ AtWork(BodiesTaken)
      BY <1>1, <1>2, <1>3, BodiesTakenIs
<1>6. FrameAt(BodiesTaken, Len(stack))
      BY <1>2, <1>5 DEF FrameAt
<1>7. ASSUME NEW r2 \in Results, r2 # Running
      PROVE  /\ Calls(With(BodiesTaken), r2) /\ Len(With(BodiesTaken)) = Len(stack)
             /\ With(BodiesTaken) # <<>> /\ AtWork(With(BodiesTaken)[Len(stack)])
      BY <1>1, <1>5, <1>6, <1>7, CallGoesOn
<1> QED BY <1>1, <1>2, <1>3, <1>4, <1>7 DEF Supplied

\* Commands that are no builtins.
LEMMA CommandRuns ==
    ASSUME CInv, BrokenElement \/ RunCommand PROVE CInv'
<1>1. Calls(stack, result) /\ Values
      BY DEF CInv
<1>2. CASE BrokenElement
  <2>1. /\ Starts({"broken"}) /\ stack' = stack /\ result' = Status(2)
        /\ UNCHANGED <<lastStatus, script, paste, streams, outside>>
        BY <1>2 DEF BrokenElement
  <2>2. /\ stack # <<>> /\ Current.cmd \in Command /\ Current.cmd.does = "broken"
        /\ Ready(Top) /\ Top \in ExecuteFrame /\ Top.rest # <<>> /\ Top.run = TRUE
    <3>1. Current.cmd.does \in {"broken"}
          BY <2>1, CommandStarts, Zenon
    <3> QED BY <2>1, <3>1, CommandStarts, Zenon
  <2>3. Head(Top.rest).cmd.docs = <<>>
        BY <2>2, CommandParts DEF Current
  <2>4. AtWork(Top)
    <3>1. PICK x \in Seq(Doc) : Top.bodies = x \o Owed(Top.rest) /\ (Clean(Top) => x = <<>>)
          BY <2>2 DEF Ready, Stored
    <3>2. Top.rest \in Seq(Element)
          BY <2>2 DEF ExecuteFrame
    <3>3. /\ Owed(Top.rest) = Head(Top.rest).cmd.docs \o Owed(Tail(Top.rest))
          /\ Owed(Tail(Top.rest)) \in Seq(Doc)
          BY <2>2, <3>2, ElementParts, OwedParts
    <3>4. <<>> \o Owed(Tail(Top.rest)) = Owed(Tail(Top.rest))
          BY <3>3
    <3>5. Top.bodies = x \o Owed(Tail(Top.rest))
          BY <2>3, <3>1, <3>3, <3>4
    <3> QED BY <2>2, <2>3, <3>1, <3>5 DEF AtWork, Ready, Stored
  <2>5. result' \in Results /\ result' # Running
        BY <2>1, ResultsAre
  <2>6. Calls(stack', result')
        BY <1>1, <2>1, <2>4, <2>5, ResultArrives DEF Top
  <2>7. Values'
        BY <1>1, <2>1, <2>5 DEF Values, script, paste, streams, outside
  <2> QED BY <2>6, <2>7 DEF CInv
<1>3. CASE RunCommand
  <2>1. /\ Starts({"run", "clear"}) /\ stack' = With(BodiesTaken)
        /\ result' = IF gone THEN OSErr ELSE Status(Current.cmd.code)
        /\ UNCHANGED <<lastStatus, script, paste, streams, outside>>
        BY <1>3 DEF RunCommand
  <2>2. Current.cmd \in Command
        BY <2>1, CommandStarts
  <2>3. Current.cmd.code \in Int
        BY <2>2, CommandParts
  <2>4. result' \in Results /\ result' # Running
        BY <2>1, <2>3, ResultsAre
  <2>5. Calls(stack', result')
    <3>1. Supplied
          BY <2>1, CommandStarts, Zenon
    <3> QED BY <2>1, <2>4, <3>1 DEF Supplied
  <2>6. Values'
        BY <1>1, <2>1, <2>4 DEF Values, script, paste, streams, outside
  <2> QED BY <2>5, <2>6 DEF CInv
<1> QED BY <1>2, <1>3

\* A builtin begins, or its redirections fail.
LEMMA BuiltinStarts ==
    ASSUME CInv, BeginBuiltin \/ RedirectionFails PROVE CInv'
<1> DEFINE cmd == Current.cmd
           s == With(BodiesTaken)
           x == BuiltinCall(cmd)
<1>1. Values /\ Starts(Builtin)
      BY DEF CInv, BeginBuiltin, RedirectionFails
<1>2. /\ cmd \in Command /\ stack # <<>> /\ Len(stack) \in Nat /\ Len(stack) <= MaxDepth
      /\ \A r \in Results : r # Running =>
             Calls(s, r) /\ Len(s) = Len(stack) /\ s # <<>> /\ AtWork(s[Len(stack)])
  <2>1. /\ cmd \in Command /\ stack # <<>> /\ Len(stack) \in Nat /\ Len(stack) <= MaxDepth
        /\ Supplied
        BY <1>1, CommandStarts, Zenon
  <2> QED BY <2>1, Zenon DEF Supplied
<1>3. fds \in [Fd -> Device] /\ cmd.spec \in Seq(Action)
      BY <1>1, <1>2, CommandParts DEF Values
<1>4. /\ OSErr \in Results /\ Status(1) \in Results /\ OSErr # Running /\ Status(1) # Running
      BY ResultsAre
<1>5. x \in BuiltinFrame /\ x.call = "builtin"
      BY <1>2, <1>3 DEF BuiltinCall, BuiltinFrame
<1>6. CASE BeginBuiltin
  <2>1. \/ /\ stack' = s /\ result' \in {OSErr, Status(1)} /\ UNCHANGED streams
        \/ /\ stack' = Append(s, x)
           /\ fds' = (IF cmd.spec = <<>> THEN fds ELSE Applied(cmd.spec, fds))
           /\ UNCHANGED <<result, stuck>>
        BY <1>6 DEF BeginBuiltin
  <2>2. UNCHANGED <<lastStatus, script, paste, outside>> /\ result = Running
        BY <1>1, <1>6 DEF BeginBuiltin, Starts
  <2> HIDE DEF cmd, s, x
  <2>3. CASE stack' = s /\ result' \in {OSErr, Status(1)} /\ UNCHANGED streams
    <3>1. Calls(stack', result') /\ result' \in Results
          BY <1>2, <1>4, <2>3
    <3>2. Values'
          BY <1>1, <2>2, <2>3, <3>1 DEF Values, script, paste, streams, outside
    <3> QED BY <3>1, <3>2 DEF CInv
  <2>4. CASE /\ stack' = Append(s, x)
             /\ fds' = (IF cmd.spec = <<>> THEN fds ELSE Applied(cmd.spec, fds))
             /\ UNCHANGED <<result, stuck>>
    <3>1. fds' \in [Fd -> Device]
          BY <1>3, <2>4, AppliedType
    <3>2. Calls(s, OSErr) /\ Len(s) = Len(stack) /\ AtWork(s[Len(s)])
          BY <1>2, <1>4
    <3>3. FrameAt(x, Len(s) + 1) /\ Chained(x) /\ ~Executes(x)
          BY <1>2, <1>5, <3>2, BoundAssumption, NoChain DEF FrameAt
    <3>4. Calls(Append(s, x), Running)
          BY <3>2, <3>3, CallAdded
    <3>5. Values'
          BY <1>1, <2>2, <2>4, <3>1 DEF Values, script, paste, streams, outside
    <3> QED BY <2>2, <2>4, <3>4, <3>5 DEF CInv
  <2> QED BY <2>1, <2>3, <2>4
<1>7. CASE RedirectionFails
  <2>1. /\ stack' = s /\ result' = Status(1) /\ fds' = fds /\ faults < MaxFaults /\ faults' = faults + 1
        /\ UNCHANGED <<lastStatus, script, paste, stuck, interactive, gone>>
        BY <1>7 DEF RedirectionFails, Restored
  <2> HIDE DEF cmd, s, x
  <2>2. Calls(stack', result')
        BY <1>2, <1>4, <2>1
  <2>3. faults' \in 0..MaxFaults
        BY <1>1, <2>1, BoundAssumption DEF Values
  <2>4. Values'
        BY <1>1, <1>4, <2>1, <2>3 DEF Values, script, paste
  <2> QED BY <2>2, <2>4 DEF CInv
<1> QED BY <1>6, <1>7

\* A builtin that is running, as it is known.
LEMMA BuiltinKnown ==
    ASSUME CInv, In({"builtin"})
    PROVE  /\ Calls(stack, result) /\ Values /\ stack # <<>> /\ Len(stack) \in Nat
           /\ Len(stack) <= MaxDepth + 1 /\ Top = stack[Len(stack)] /\ ~Executes(Top)
           /\ Top.cmd \in Command /\ Top.saved \in [Fd -> Device]
<1>1. Calls(stack, result) /\ Values /\ stack # <<>> /\ Top.call = "builtin"
      BY DEF CInv, In
<1>2. Top \in BuiltinFrame /\ Len(stack) <= MaxDepth + 1 /\ Len(stack) \in Nat /\ Top = stack[Len(stack)]
      BY <1>1, TopKnown
<1>3. ~Executes(Top) /\ Top.cmd \in Command /\ Top.saved \in [Fd -> Device]
      BY <1>1, <1>2 DEF Executes, BuiltinFrame
<1> QED BY <1>1, <1>2, <1>3

\* A builtin gives a result and leaves the calls alone.
LEMMA BuiltinAnswers ==
    ASSUME CInv, In({"builtin"}), UNCHANGED stack, result' \in Results, Values'
    PROVE  CInv'
<1>1. Calls(stack, result') 
      BY BuiltinKnown, ResultChanges
<1> QED BY <1>1 DEF CInv, Calls

\* What Answer does to the result and to sys.stdout.
LEMMA AnswerIs ==
    ASSUME Values, NEW n \in Int, Answer(n)
    PROVE  result' \in Results /\ stuck' \in BOOLEAN /\ fds' = fds /\ result' # Running
BY ResultsAre DEF Answer, Values

\* A builtin that starts no file.
LEMMA BuiltinGives ==
    ASSUME CInv, PrintText \/ ExitBuiltin \/ PasteCancel \/ PasteShow \/ PasteEdit
    PROVE  CInv'
<1>1. In({"builtin"}) /\ UNCHANGED stack
      BY DEF PrintText, ExitBuiltin, PasteCancel, PasteShow, PasteEdit, Does
<1>2. Values /\ Top.cmd \in Command
      BY <1>1, BuiltinKnown
<1>3. Top.cmd.code \in Int
      BY <1>2, CommandParts
<1>4. CASE ExitBuiltin
  <2>1. result' \in Results
        BY <1>3, <1>4, ResultsAre DEF ExitBuiltin
  <2>2. Values'
        BY <1>2, <1>4, <2>1 DEF ExitBuiltin, Values, script, paste, streams, outside
  <2> QED BY <1>1, <2>1, <2>2, BuiltinAnswers
<1>5. CASE PrintText
  <2>1. result' \in Results /\ stuck' \in BOOLEAN /\ fds' = fds
        BY <1>2, <1>3, <1>5, AnswerIs DEF PrintText
  <2>2. Values'
        BY <1>2, <1>5, <2>1 DEF PrintText, Values, script, paste, outside
  <2> QED BY <1>1, <2>1, <2>2, BuiltinAnswers
<1>6. CASE PasteCancel
  <2>1. result' \in Results /\ stuck' \in BOOLEAN /\ fds' = fds
        BY <1>2, <1>6, AnswerIs DEF PasteCancel
  <2>2. staged' \in Paste \union {None} /\ pasting' \in BOOLEAN
        BY <1>2, <1>6 DEF PasteCancel, paste, Values
  <2>3. Values'
        BY <1>2, <1>6, <2>1, <2>2 DEF PasteCancel, Values, script, outside
  <2> QED BY <1>1, <2>1, <2>3, BuiltinAnswers
<1>7. CASE PasteShow
  <2>1. result' \in Results /\ stuck' \in BOOLEAN /\ fds' = fds
        BY <1>2, <1>7, AnswerIs DEF PasteShow
  <2>2. Values'
        BY <1>2, <1>7, <2>1 DEF PasteShow, Values, script, paste, outside
  <2> QED BY <1>1, <2>1, <2>2, BuiltinAnswers
<1>8. CASE PasteEdit
  <2>1. \E n \in {0, 1, 2, 130} : Answer(n)
        BY <1>8 DEF PasteEdit
  <2>2. result' \in Results /\ stuck' \in BOOLEAN /\ fds' = fds
        BY <1>2, <2>1, AnswerIs
  <2>3. staged' \in Paste \union {None}
        BY <1>2, <1>8 DEF PasteEdit, Values
  <2>4. Values'
        BY <1>2, <1>8, <2>2, <2>3 DEF PasteEdit, Values, script, outside
  <2> QED BY <1>1, <2>2, <2>4, BuiltinAnswers
<1> QED BY <1>4, <1>5, <1>6, <1>7, <1>8

\* A builtin ends.
LEMMA BuiltinLeaves ==
    ASSUME CInv, EndBuiltin PROVE CInv'
<1>1. /\ In({"builtin"}) /\ result # Running /\ stack' = Front(stack)
      /\ result' \in {result, Status(1)} /\ fds' \in {fds, Top.saved} /\ stuck' = stuck
      /\ UNCHANGED <<lastStatus, script, paste, outside>>
      BY DEF EndBuiltin, Callers, streams, Restored
<1>2. Calls(stack, result) /\ Values /\ stack # <<>> /\ Top.saved \in [Fd -> Device]
      BY <1>1, BuiltinKnown
<1>3. result' \in Results /\ result' # Running
      BY <1>1, <1>2, ResultsAre DEF Values
<1>4. Calls(stack', result')
      BY <1>1, <1>2, <1>3, CallEnds
<1>5. Values'
      BY <1>1, <1>2, <1>3 DEF Values, script, paste, outside
<1> QED BY <1>4, <1>5 DEF CInv

\* The files that can be executed.
LEMMA FilesAre ==
    /\ \A f \in File : Content[f] \in Seq(Line) /\ RcLines(f) \in Seq(Line)
    /\ \A f \in Paste : f \in File
BY TextAssumption DEF RcLines

\* source and run_script_file.
LEMMA FilesBegin ==
    ASSUME CInv, Source \/ RunScript PROVE CInv'
<1> DEFINE f == Top.cmd.file
<1>1. In({"builtin"}) /\ result = Running /\ Top.cmd.does \in {"source", "run_script"}
      BY DEF Source, RunScript, Does
<1>2. /\ Calls(stack, result) /\ Values /\ stack # <<>> /\ Len(stack) <= MaxDepth + 1
      /\ ~Executes(stack[Len(stack)]) /\ Top.cmd \in Command
      BY <1>1, BuiltinKnown
<1>3. f \in File /\ Content[f] \in Seq(Line) /\ RcLines(f) \in Seq(Line)
      BY <1>1, <1>2, CommandParts, FilesAre
<1>4. name \in File \union {None} /\ context \in File \union {None}
      BY <1>2 DEF Values
<1>5. CASE Source
  <2>1. /\ stack' = Append(stack, FileCall("rc", f, RcLines(f), name, context))
        /\ UNCHANGED <<result, lastStatus, script, paste, streams, outside>>
        BY <1>5 DEF Source
  <2> HIDE DEF f
  <2>2. Calls(stack', Running)
        BY <1>1, <1>2, <1>3, <1>4, <2>1, FileCallIs DEF FileKind
  <2>3. Values'
        BY <1>2, <2>1 DEF Values, script, paste, streams, outside
  <2> QED BY <1>1, <2>1, <2>2, <2>3 DEF CInv
<1>6. CASE RunScript
  <2>1. \/ RunInterpreted \/ RunNative(f)
        BY <1>6 DEF RunScript
  <2>2. UNCHANGED <<paste, streams, outside>>
        BY <1>6 DEF RunScript
  <2> HIDE DEF f
  <2>3. ASSUME NEW n \in Int, result' = Status(n), lastStatus' = n, UNCHANGED <<stack, script>>
        PROVE  CInv'
    <3>1. result' \in Results
          BY <2>3, ResultsAre
    <3>2. Values'
          BY <1>2, <2>2, <2>3, <3>1 DEF Values, script, paste, streams, outside
    <3> QED BY <1>1, <2>3, <3>1, <3>2, BuiltinAnswers
  <2>4. CASE RunInterpreted
    <3>1. \E n \in Int : result' = Status(n) /\ lastStatus' = n /\ UNCHANGED <<stack, script>>
          BY <2>4 DEF RunInterpreted, ForeignStatus
    <3> QED BY <2>3, <3>1
  <2>5. CASE RunNative(f) /\ f \in Malformed
    <3>1. 2 \in Int /\ result' = Status(2) /\ lastStatus' = 2 /\ UNCHANGED <<stack, script>>
          BY <2>5 DEF RunNative
    <3> QED BY <2>3, <3>1
  <2>6. CASE RunNative(f) /\ f \notin Malformed
    <3>1. /\ stack' = Append(stack, FileCall("script", f, Content[f], name, context))
          /\ name' = f /\ context' = None /\ UNCHANGED <<result, lastStatus>>
          BY <2>6 DEF RunNative
    <3>2. Calls(stack', Running)
          BY <1>1, <1>2, <1>3, <1>4, <3>1, FileCallIs DEF FileKind
    <3>3. Values'
          BY <1>2, <1>3, <2>2, <3>1 DEF Values, paste, streams, outside
    <3> QED BY <1>1, <3>1, <3>2, <3>3 DEF CInv
  <2> QED BY <2>1, <2>4, <2>5, <2>6
<1> QED BY <1>5, <1>6

\* A paste that is run, from a builtin or the prompt.
LEMMA PasteStarts ==
    ASSUME CInv, staged # None, result = Running, Len(stack) <= MaxDepth + 1,
           stack # <<>> => ~Executes(stack[Len(stack)]), RunPaste(stack)
    PROVE  CInv'
<1>1. Calls(stack, result) /\ Values
      BY DEF CInv
<1>2. /\ staged \in File /\ Content[staged] \in Seq(Line)
      /\ name \in File \union {None} /\ context \in File \union {None}
      BY <1>1, FilesAre DEF Values
<1>3. staged' = None /\ UNCHANGED outside
      BY DEF RunPaste
<1>4. CASE fds[1] \in Full
  <2>1. Answer(0) /\ UNCHANGED <<lastStatus, script, pasting, stack>>
        BY <1>4 DEF RunPaste
  <2>2. result' \in Results /\ result' # Running /\ stuck' \in BOOLEAN /\ fds' = fds
        BY <1>1, <2>1, AnswerIs
  <2>3. Calls(stack, result')
        BY <1>1, <2>2, ResultArrives
  <2>4. Values'
        BY <1>1, <1>3, <2>1, <2>2 DEF Values, script, outside
  <2> QED BY <2>1, <2>3, <2>4 DEF CInv, Calls
<1>5. CASE fds[1] \notin Full /\ staged \in Malformed
  <2>1. /\ result' = Status(2) /\ lastStatus' = 2 /\ pasting' = FALSE /\ UNCHANGED <<script, streams, stack>>
        BY <1>5 DEF RunPaste
  <2>2. result' \in Results /\ result' # Running
        BY <2>1, ResultsAre
  <2>3. Calls(stack, result')
        BY <1>1, <2>2, ResultArrives
  <2>4. lastStatus' \in Int /\ staged' \in Paste \union {None} /\ pasting' \in BOOLEAN
    <3>1. lastStatus' = 2 /\ staged' = None
          BY <1>3, <2>1
    <3>2. pasting' \in BOOLEAN
          BY <2>1, Zenon
    <3> QED BY <3>1, <3>2
  <2>5. Values'
        BY <1>1, <1>3, <2>1, <2>2, <2>4 DEF Values, script, streams, outside
  <2> QED BY <2>1, <2>3, <2>5 DEF CInv, Calls
<1>6. CASE fds[1] \notin Full /\ staged \notin Malformed
  <2> DEFINE lines == Content[staged]
  <2>1. /\ stack' = Append(stack, FileCall("paste", staged, lines, name, context))
        /\ pasting' = TRUE /\ context' = None /\ UNCHANGED <<result, lastStatus, name, streams>>
        BY <1>6 DEF RunPaste
  <2> HIDE DEF lines
  <2>2. Calls(stack', Running)
        BY <1>1, <1>2, <2>1, FileCallIs DEF FileKind, lines
  <2>3. Values'
        BY <1>1, <1>3, <2>1 DEF Values, streams, outside
  <2> QED BY <2>1, <2>2, <2>3 DEF CInv
<1> QED BY <1>4, <1>5, <1>6

\* paste_run.
LEMMA PasteRuns ==
    ASSUME CInv, PasteRun PROVE CInv'
<1>1. In({"builtin"}) /\ result = Running
      BY DEF PasteRun, Does
<1>2. Values /\ stack # <<>> /\ Len(stack) <= MaxDepth + 1 /\ ~Executes(stack[Len(stack)])
      BY <1>1, BuiltinKnown
<1>3. CASE staged = None
  <2>1. Answer(2) /\ UNCHANGED <<stack, lastStatus, script, paste, outside>>
        BY <1>3 DEF PasteRun
  <2>2. result' \in Results /\ stuck' \in BOOLEAN /\ fds' = fds
        BY <1>2, <2>1, AnswerIs
  <2>3. Values'
        BY <1>2, <2>1, <2>2 DEF Values, script, paste, outside
  <2> QED BY <1>1, <2>1, <2>2, <2>3, BuiltinAnswers
<1>4. CASE staged # None
      BY <1>1, <1>2, <1>4, PasteStarts DEF PasteRun
<1> QED BY <1>3, <1>4

\* A file that is being executed, as it is known.
LEMMA FileKnown ==
    ASSUME CInv, InFile
    PROVE  /\ Calls(stack, result) /\ Values /\ stack # <<>> /\ ~Executes(Top)
           /\ Top = stack[Len(stack)] /\ Top \in FileFrame /\ Len(stack) <= MaxDepth + 2
<1>1. Calls(stack, result) /\ Values /\ stack # <<>> /\ Top.call \in FileKind
      BY DEF CInv, InFile, In, FileKind
<1>2. Top \in FileFrame /\ Len(stack) <= MaxDepth + 2 /\ Top = stack[Len(stack)]
      BY <1>1, TopKnown
<1> QED BY <1>1, <1>2 DEF Executes, FileKind

\* The file's call goes on.
LEMMA FileCallGoesOn ==
    ASSUME CInv, InFile, NEW f, f \in FileFrame, NEW r
    PROVE  Calls(With(f), r) /\ With(f) # <<>> /\ ~Executes(With(f)[Len(With(f))])
<1>1. Calls(stack, result) /\ stack # <<>> /\ Len(stack) <= MaxDepth + 2
      BY FileKnown
<1>2. ~Executes(f) /\ Chained(f)
      BY NoChain DEF FileFrame
<1>3. FrameAt(f, Len(stack))
      BY <1>1 DEF FrameAt
<1>4. ~Executes(stack[Len(stack)])
      BY FileKnown, Zenon
<1>5. Calls(stack, r)
  <2>1. stack # <<>> /\ Executes(stack[Len(stack)]) => r # Running /\ r.kind # "status"
        BY <1>4
  <2> QED BY <1>1, <1>4, Zenon DEF Calls
<1> QED BY <1>1, <1>2, <1>3, <1>5, CallGoesOn

\* The line that a file has come to.
LEMMA LineKnown ==
    ASSUME CInv, AtLine
    PROVE  /\ Top \in FileFrame /\ Top.rest # <<>> /\ result = Running /\ Head(Top.rest) \in Line
           /\ [Top EXCEPT !.rest = Tail(@)] \in FileFrame
           /\ \A b \in BOOLEAN : [Top EXCEPT !.rest = Tail(@), !.guarded = b] \in FileFrame
<1>1. Top \in FileFrame /\ Top.rest # <<>> /\ result = Running
      BY FileKnown DEF AtLine
<1>2. Top.rest \in Seq(Line)
      BY <1>1 DEF FileFrame
<1>3. Head(Top.rest) \in Line /\ Tail(Top.rest) \in Seq(Line)
      BY <1>1, <1>2, Tailed
<1> QED BY <1>1, <1>3 DEF FileFrame

\* A line is left out, or handed to execute.
LEMMA LineTaken ==
    ASSUME CInv, SkipLine \/ NextLine PROVE CInv'
<1>1. InFile /\ AtLine
      BY DEF SkipLine, NextLine, AtLine
<1>2. Calls(stack, result) /\ Values /\ Top \in FileFrame
      BY <1>1, FileKnown
<1>3. CASE SkipLine
  <2> DEFINE f == [Top EXCEPT !.rest = Tail(@)]
  <2>1. stack' = With(f) /\ UNCHANGED <<result, lastStatus, script, paste, streams, outside>>
        BY <1>3 DEF SkipLine
  <2>2. f \in FileFrame
        BY <1>1, LineKnown
  <2> HIDE DEF f
  <2>3. Calls(stack', result')
        BY <1>1, <2>1, <2>2, FileCallGoesOn
  <2>4. Values'
        BY <1>2, <2>1 DEF Values, script, paste, streams, outside
  <2> QED BY <2>3, <2>4 DEF CInv
<1>4. CASE NextLine
  <2> DEFINE l == Head(Top.rest)
             f == [Top EXCEPT !.rest = Tail(@), !.guarded = Guarded(l)]
  <2>1. /\ Execute(With(f), l)
        /\ context' = IF Top.call \in {"script", "paste"} THEN Top.file ELSE context
        /\ UNCHANGED <<lastStatus, name, paste, streams, outside>>
        BY <1>4 DEF NextLine
  <2>2. f \in FileFrame /\ l \in Line
    <3>1. Guarded(l) \in BOOLEAN
          BY DEF Guarded
    <3> QED BY <1>1, <3>1, LineKnown
  <2> HIDE DEF f, l
  <2>3. Calls(With(f), Running) /\ With(f) # <<>> /\ ~Executes(With(f)[Len(With(f))])
        BY <1>1, <2>2, FileCallGoesOn
  <2>4. Calls(stack', result') /\ result' \in Results
        BY <2>1, <2>2, <2>3, ExecuteCalls
  <2>5. context' \in File \union {None}
        BY <1>2, <2>1 DEF FileFrame, Values
  <2>6. Values'
        BY <1>2, <2>1, <2>4, <2>5 DEF Values, paste, streams, outside
  <2> QED BY <2>4, <2>6 DEF CInv
<1> QED BY <1>3, <1>4

\* A file that goes on after a line.
LEMMA FileContinues ==
    ASSUME CInv, InFile, NEW code \in Int, Continue(code) PROVE CInv'
<1> DEFINE f == [Top EXCEPT !.status = code]
<1>1. Values /\ Top \in FileFrame
      BY FileKnown
<1>2. /\ stack' = With(f) /\ result' = Running
      /\ UNCHANGED <<lastStatus, script, paste, streams, outside>>
      BY DEF Continue
<1>3. f \in FileFrame
      BY <1>1 DEF FileFrame
<1> HIDE DEF f
<1>4. Calls(stack', result')
      BY <1>2, <1>3, FileCallGoesOn
<1>5. Values'
      BY <1>1, <1>2, ResultsAre DEF Values, script, paste, streams, outside
<1> QED BY <1>4, <1>5 DEF CInv

\* A file that ends.
LEMMA FileLeaves ==
    ASSUME CInv, InFile, NEW r \in Results, r # Running, EndFile(r) PROVE CInv'
<1>1. Calls(stack, result) /\ Values /\ stack # <<>> /\ Top \in FileFrame
      BY FileKnown
<1>2. /\ stack' = Front(stack) /\ result' = r /\ lastStatus' \in {r.code, lastStatus}
      /\ context' \in {Top.oldContext, context} /\ name' \in {Top.oldName, name}
      /\ (staged' = None /\ pasting' = FALSE) \/ UNCHANGED paste
      /\ UNCHANGED <<streams, outside>>
      BY DEF EndFile, Callers
<1>3. Calls(stack', result')
      BY <1>1, <1>2, CallEnds
<1>4. staged' \in Paste \union {None} /\ pasting' \in BOOLEAN
  <2>1. CASE staged' = None /\ pasting' = FALSE
        BY <2>1, Zenon
  <2>2. CASE UNCHANGED paste
        BY <1>1, <2>2 DEF paste, Values
  <2> QED BY <1>2, <2>1, <2>2
<1>5. /\ lastStatus' \in Int /\ context' \in File \union {None} /\ name' \in File \union {None}
  <2>1. r.code \in Int /\ lastStatus \in Int
        BY <1>1 DEF Results, Values
  <2>2. Top.oldContext \in File \union {None} /\ Top.oldName \in File \union {None}
        BY <1>1 DEF FileFrame
  <2>3. context \in File \union {None} /\ name \in File \union {None}
        BY <1>1 DEF Values
  <2> QED BY <1>2, <2>1, <2>2, <2>3
<1>6. Values'
      BY <1>1, <1>2, <1>4, <1>5 DEF Values, streams, outside
<1> QED BY <1>3, <1>6 DEF CInv

\* The lines of a file.
LEMMA FileMoves ==
    ASSUME CInv, SkipLine \/ NextLine \/ BlockNeverEnds \/ LineDone \/ LineRaises \/ FileEnds
    PROVE  CInv'
<1>1. CASE SkipLine \/ NextLine
      BY <1>1, LineTaken
<1>2. CASE BlockNeverEnds
      BY <1>2, FileLeaves, ResultsAre DEF BlockNeverEnds, AtLine
<1>3. CASE LineDone
  <2>1. InFile /\ result.kind = "status" /\ (EndFile(result) \/ Continue(result.code))
        BY <1>3 DEF LineDone
  <2>2. result \in Results /\ result.code \in Int /\ result # Running
        BY <2>1, ResultsAre DEF CInv, Values, Results
  <2> QED BY <2>1, <2>2, FileLeaves, FileContinues
<1>4. CASE LineRaises
  <2>1. /\ InFile /\ Raised
        /\ \/ Continue(1) \/ EndFile(Status(result.code)) \/ EndFile(Status(2)) \/ EndFile(result)
        BY <1>4 DEF LineRaises
  <2>2. result \in Results /\ result.code \in Int /\ result # Running
        BY <2>1, ResultsAre DEF CInv, Values, Results, Raised
  <2>3. /\ Status(result.code) \in Results /\ Status(result.code) # Running
        /\ Status(2) \in Results /\ Status(2) # Running
        BY <2>2, ResultsAre
  <2> QED BY <2>1, <2>2, <2>3, FileLeaves, FileContinues
<1>5. CASE FileEnds
  <2>1. InFile /\ EndFile(IF Top.call = "batch" /\ Top.file \in Malformed THEN Status(2) ELSE Status(Top.status))
        BY <1>5 DEF FileEnds
  <2>2. Top.status \in Int
        BY <2>1, FileKnown DEF FileFrame
  <2>3. \E n \in Int : EndFile(Status(n))
        BY <2>1, <2>2
  <2> QED BY <2>1, <2>3, FileLeaves, ResultsAre
<1> QED BY <1>1, <1>2, <1>3, <1>4, <1>5

\* The prompt.
LEMMA PromptMoves ==
    ASSUME CInv,
           \/ \E l \in Typed : TypeLine(l)
           \/ \E p \in Paste : CapturePaste(p)
           \/ TypeEnter \/ CtrlC \/ EndOfInput \/ PromptFails \/ PromptReturns
    PROVE  CInv'
<1>1. Calls(stack, result) /\ Values /\ stack = <<>>
      BY DEF CInv, TypeLine, CapturePaste, TypeEnter, CtrlC, EndOfInput, PromptFails, PromptReturns, AtPrompt
<1>2. ASSUME NEW r PROVE Calls(stack, r)
      BY <1>1 DEF Calls
<1>3. Len(stack) = 0
      BY <1>1
<1>4. CASE \E l \in Typed : TypeLine(l)
  <2>1. PICK l \in Typed : TypeLine(l)
        BY <1>4
  <2>2. CASE Execute(stack, l)
    <3>1. Calls(stack', result') /\ result' \in Results
          BY <1>1, <2>2, ExecuteCalls, TextAssumption
    <3>2. UNCHANGED <<script, streams, outside>> /\ lastStatus' \in {2, lastStatus}
          BY <2>1 DEF TypeLine
    <3>3. (staged' = None /\ pasting' = FALSE) \/ UNCHANGED paste
          BY <2>1 DEF TypeLine
    <3>4. staged' \in Paste \union {None} /\ pasting' \in BOOLEAN
      <4>1. CASE staged' = None /\ pasting' = FALSE
            BY <4>1, Zenon
      <4>2. CASE UNCHANGED paste
            BY <1>1, <4>2 DEF paste, Values
      <4> QED BY <3>3, <4>1, <4>2
    <3>5. Values'
          BY <1>1, <3>1, <3>2, <3>4 DEF Values, script, streams, outside
    <3> QED BY <3>1, <3>5 DEF CInv
  <2>3. CASE lastStatus' = 2 /\ UNCHANGED <<stack, result, paste>>
    <3>1. UNCHANGED <<script, streams, outside>>
          BY <2>1 DEF TypeLine
    <3>2. Values'
          BY <1>1, <2>3, <3>1 DEF Values, script, paste, streams, outside
    <3> QED BY <1>1, <2>3, <3>2 DEF CInv, Calls
  <2> QED BY <2>1, <2>2, <2>3 DEF TypeLine
<1>5. CASE TypeEnter
      BY <1>1, <1>3, <1>5, PasteStarts, BoundAssumption DEF TypeEnter, AtPrompt
<1>6. CASE \E p \in Paste : CapturePaste(p)
  <2>1. /\ UNCHANGED <<stack, result, lastStatus, script, pasting, streams, outside>>
        /\ staged' \in Paste
        BY <1>6 DEF CapturePaste
  <2>2. Values'
        BY <1>1, <2>1 DEF Values, script, streams, outside
  <2> QED BY <1>1, <2>1, <2>2 DEF CInv, Calls
<1>7. CASE CtrlC
  <2>1. /\ UNCHANGED <<stack, result, script, streams, outside>> /\ staged' = None /\ lastStatus' = 130
        BY <1>7 DEF CtrlC
  <2>2. pasting' \in BOOLEAN
        BY <1>7, Zenon DEF CtrlC
  <2>3. Values'
        BY <1>1, <2>1, <2>2 DEF Values, script, streams, outside
  <2> QED BY <1>1, <2>1, <2>3 DEF CInv, Calls
<1>8. CASE EndOfInput \/ PromptFails
  <2>1. result' \in {Exit(0), OSErr} /\ UNCHANGED <<stack, lastStatus, script, paste, streams, outside>>
        BY <1>8 DEF EndOfInput, PromptFails
  <2>2. result' \in Results
        BY <2>1, ResultsAre
  <2>3. Values'
        BY <1>1, <2>1, <2>2 DEF Values, script, paste, streams, outside
  <2> QED BY <1>1, <2>1, <2>3 DEF CInv, Calls
<1>9. CASE PromptReturns
  <2>1. /\ result' = Running /\ lastStatus' = result.code
        /\ UNCHANGED <<stack, script, paste, streams, outside>>
        BY <1>9 DEF PromptReturns
  <2>2. lastStatus' \in Int /\ result' \in Results
        BY <1>1, <2>1, ResultsAre DEF Values, Results
  <2>3. Values'
        BY <1>1, <2>1, <2>2 DEF Values, script, paste, streams, outside
  <2> QED BY <1>1, <2>1, <2>3 DEF CInv, Calls
<1> QED BY <1>4, <1>5, <1>6, <1>7, <1>8, <1>9

\* Ctrl+C and the working directory.
LEMMA OutsideMoves ==
    ASSUME CInv, Interrupt \/ Vanish PROVE CInv'
<1>1. Calls(stack, result) /\ Values
      BY DEF CInv
<1>2. CASE Interrupt
  <2>1. /\ faults < MaxFaults /\ faults' = faults + 1 /\ result' = Stopped
        /\ UNCHANGED <<stack, lastStatus, script, paste, streams, interactive, gone>>
        BY <1>2 DEF Interrupt
  <2>2. faults' \in 0..MaxFaults
        BY <1>1, <2>1, BoundAssumption DEF Values
  <2>3. Calls(stack, Stopped) /\ Stopped \in Results
        BY <1>1, ResultsAre, ResultChanges
  <2>4. Values'
        BY <1>1, <2>1, <2>2, <2>3 DEF Values, script, paste, streams
  <2> QED BY <2>1, <2>3, <2>4 DEF CInv
<1>3. CASE Vanish
  <2>1. /\ gone' = TRUE /\ UNCHANGED <<stack, result, lastStatus, script, paste, streams, interactive, faults>>
        BY <1>3 DEF Vanish
  <2>2. gone' \in BOOLEAN
        BY <2>1, Zenon
  <2>3. Values'
        BY <1>1, <2>1, <2>2 DEF Values, script, paste, streams
  <2> QED BY <1>1, <2>1, <2>3 DEF CInv, Calls
<1> QED BY <1>2, <1>3

\* At the start nothing has been executed.
LEMMA ChainBase == Init => CInv
<1> SUFFICES ASSUME Init PROVE CInv
    OBVIOUS
<1>1. Values
  <2>1. /\ result = Running /\ lastStatus = 0 /\ context = None /\ staged = None
        /\ fds = Own /\ faults = 0 /\ name \in File \union {None}
        BY DEF Init
  <2>2. pasting \in BOOLEAN /\ stuck \in BOOLEAN /\ gone \in BOOLEAN /\ interactive \in BOOLEAN
        BY Zenon DEF Init
  <2>3. fds \in [Fd -> Device] /\ faults \in 0..MaxFaults /\ Running \in Results
        BY <2>1, TextAssumption, BoundAssumption, ResultsAre DEF Own
  <2> QED BY <2>1, <2>2, <2>3 DEF Values
<1>2. CASE stack = <<>>
  <2>1. IsStack(stack) /\ Len(stack) = 0 /\ \A i \in 1..Len(stack) : FALSE
    <3>1. stack \in Seq({}) /\ Len(stack) = 0
          BY <1>2
    <3> QED BY <3>1 DEF IsStack
  <2> QED BY <1>1, <1>2, <2>1 DEF CInv, Calls
<1>3. ASSUME NEW f \in File, NEW how \in {"batch", "script"},
             stack = <<FileCall(how, f, Content[f], None, None)>>
      PROVE  CInv
  <2> DEFINE x == FileCall(how, f, Content[f], None, None)
  <2>1. Content[f] \in Seq(Line)
        BY FilesAre
  <2>2. x \in FileFrame /\ x.call = how
        BY <2>1 DEF FileCall, FileFrame
  <2> HIDE DEF x
  <2>3. stack = <<x>> /\ Len(stack) = 1 /\ stack[1] = x /\ stack \in Seq({x})
        BY <1>3 DEF x
  <2>4. IsStack(stack)
        BY <2>3 DEF IsStack
  <2>5. FrameAt(x, 1) /\ Chained(x) /\ ~Executes(x)
        BY <2>2, NoChain, BoundAssumption DEF FrameAt
  <2>6. /\ \A i \in 1..Len(stack) : i = 1
        /\ \A i \in 1..(Len(stack) - 1) : FALSE
        BY <2>3
  <2>7. Calls(stack, result)
        BY <2>3, <2>4, <2>5, <2>6 DEF Calls
  <2> QED BY <1>1, <2>7 DEF CInv
<1>4. \/ stack = <<>>
      \/ \E f \in File : stack = <<FileCall("batch", f, Content[f], None, None)>>
      \/ \E f \in File : stack = <<FileCall("script", f, Content[f], None, None)>>
      BY DEF Init
<1> QED BY <1>2, <1>3, <1>4

\* Every step keeps the invariant.
LEMMA ChainInduction == CInv /\ [Next]_vars => CInv'
<1> SUFFICES ASSUME CInv, [Next]_vars PROVE CInv'
    OBVIOUS
<1>1. CASE UNCHANGED vars
  <2>1. UNCHANGED <<stack, result, lastStatus, script, paste, streams, outside>>
        BY <1>1 DEF vars
  <2> QED BY <2>1 DEF CInv, Calls, Values, script, paste, streams, outside
<1>2. CASE SkipElement \/ ElementDone \/ LineEnds \/ LineUnwinds
      BY <1>2, ChainMoves
<1>3. CASE BrokenElement \/ RunCommand
      BY <1>3, CommandRuns
<1>4. CASE BeginBuiltin \/ RedirectionFails
      BY <1>4, BuiltinStarts
<1>5. CASE PrintText \/ ExitBuiltin \/ PasteCancel \/ PasteShow \/ PasteEdit
      BY <1>5, BuiltinGives
<1>6. CASE EndBuiltin
      BY <1>6, BuiltinLeaves
<1>7. CASE Source \/ RunScript
      BY <1>7, FilesBegin
<1>8. CASE PasteRun
      BY <1>8, PasteRuns
<1>9. CASE SkipLine \/ NextLine \/ BlockNeverEnds \/ LineDone \/ LineRaises \/ FileEnds
      BY <1>9, FileMoves
<1>10. CASE \/ \E l \in Typed : TypeLine(l)
            \/ \E p \in Paste : CapturePaste(p)
            \/ TypeEnter \/ CtrlC \/ EndOfInput \/ PromptFails \/ PromptReturns
      BY <1>10, PromptMoves
<1>11. CASE Interrupt \/ Vanish
      BY <1>11, OutsideMoves
<1> QED BY <1>1, <1>2, <1>3, <1>4, <1>5, <1>6, <1>7, <1>8, <1>9, <1>10, <1>11 DEF Next, Step

\* The invariant holds throughout.
LEMMA ChainInvariance == Spec => []CInv
<1> QED BY ChainBase, ChainInduction, PTL DEF Spec

\* What is known of a chain among the calls.
LEMMA ChainAmong ==
    ASSUME CInv, NEW f \in Range(stack), f.call = "execute"
    PROVE  /\ Obeyed(f.done) /\ Served(f.done)
           /\ f.done \in Seq(Done) /\ DOMAIN f.done = 1..Len(f.done) /\ Len(f.done) \in Nat
<1>1. PICK i \in 1..Len(stack) : f = stack[i]
      BY StackLength DEF CInv, Calls, Range
<1>2. FrameAt(f, i) /\ Chained(f)
      BY <1>1 DEF CInv, Calls
<1>3. f \in ExecuteFrame /\ Executes(f)
      BY <1>2, FrameCall DEF Executes
<1>4. f.done \in Seq(Done)
      BY <1>3 DEF ExecuteFrame
<1>5. DOMAIN f.done = 1..Len(f.done) /\ Len(f.done) \in Nat
      BY <1>4
<1> QED BY <1>2, <1>3, <1>4, <1>5 DEF Chained

\* The variables have their types.
LEMMA Types == ASSUME CInv PROVE TypeOK
<1> DEFINE F == ExecuteFrame \union BuiltinFrame \union FileFrame
<1>1. Calls(stack, result) /\ Values /\ Len(stack) \in Nat /\ DOMAIN stack = 1..Len(stack)
      BY StackLength DEF CInv, Calls
<1>2. \A i \in 1..Len(stack) : stack[i] \in F
      BY <1>1 DEF Calls, FrameAt
<1> HIDE DEF F
<1>3. stack \in Seq(F)
  <2>1. PICK S : stack \in Seq(S)
        BY <1>1 DEF Calls, IsStack
  <2> QED BY <1>1, <1>2, <2>1
<1>4. Len(stack) <= MaxDepth + 2
  <2>1. CASE Len(stack) = 0
        BY <2>1, BoundAssumption
  <2>2. CASE Len(stack) # 0
    <3>1. FrameAt(stack[Len(stack)], Len(stack))
          BY <1>1, <2>2 DEF Calls
    <3> QED BY <1>1, <3>1, BoundAssumption DEF FrameAt
  <2> QED BY <2>1, <2>2
<1> QED BY <1>1, <1>3, <1>4, Zenon DEF TypeOK, Values, Results, F

\* Every element of a chain runs exactly when the operators before it say so.
LEMMA Rule == ASSUME CInv PROVE ChainRule
<1>1. ASSUME NEW f \in Range(stack), f.call = "execute", NEW i \in DOMAIN f.done
      PROVE  IF i = 1 THEN f.done[i].ran
             ELSE \E k \in 1..(i - 1) :
                      /\ f.done[k].ran
                      /\ \A m \in (k + 1)..(i - 1) : ~f.done[m].ran
                      /\ f.done[i].ran = CASE f.done[i - 1].op = "&&" -> f.done[k].status = 0
                                           [] f.done[i - 1].op = "||" -> f.done[k].status # 0
                                           [] OTHER -> TRUE
  <2>1. Obeyed(f.done) /\ i \in 1..Len(f.done)
        BY <1>1, ChainAmong
  <2>2. CASE i = 1
        BY <2>1, <2>2, Zenon DEF Obeyed
  <2>3. CASE i # 1
    <3>1. PICK k \in 1..(i - 1) : LastRan(f.done, i, k) /\ f.done[i].ran = Decided(f.done[i - 1].op, f.done[k].status)
          BY <2>1, <2>3, Zenon DEF Obeyed
    <3>2. f.done[k].ran
          BY <3>1, Zenon DEF LastRan
    <3>3. \A m \in (k + 1)..(i - 1) : ~f.done[m].ran
          BY <3>1, Zenon DEF LastRan
    <3>4. f.done[i].ran = CASE f.done[i - 1].op = "&&" -> f.done[k].status = 0
                            [] f.done[i - 1].op = "||" -> f.done[k].status # 0
                            [] OTHER -> TRUE
          BY <3>1, Zenon DEF Decided
    <3> QED BY <2>3, <3>2, <3>3, <3>4, Zenon
  <2> QED BY <2>2, <2>3
<1> QED BY <1>1, Types, Zenon DEF ChainRule

\* The variables have their types and the calls in progress stay under Python's limit; each
\* element of a chain runs exactly if the operators and statuses before it say so, whatever
\* the elements in between did, of however many and at any depth (_execute_impl).
THEOREM ChainIsObeyed == Spec => []ChainRule
  BY ChainInvariance, Rule, PTL

\* Each command reads its own here-documents, unless an element with one was skipped before
\* it (collect_heredoc_bodies, parse_redirections).
THEOREM DocumentsReachTheirCommand == Spec => []OwnDocs
<1>1. ASSUME CInv PROVE OwnDocs
  <2>1. ASSUME NEW f \in Range(stack), f.call = "execute", NEW i \in DOMAIN f.done, f.done[i].ran,
               \A k \in 1..i : f.done[k].ran \/ f.done[k].docs = <<>>
        PROVE  f.done[i].got = f.done[i].docs
    <3>1. Served(f.done) /\ i \in 1..Len(f.done)
          BY <1>1, <2>1, ChainAmong
    <3> QED BY <2>1, <3>1, Zenon DEF Served
  <2> QED BY <2>1, Zenon DEF OwnDocs
<1> QED BY <1>1, ChainInvariance, PTL

=============================================================================
