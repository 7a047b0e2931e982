---------------------------- MODULE HooksProofs ----------------------------
(***************************************************************************)
(* The hooks of the plugins in a session: they run once and in turn, and   *)
(* none of them ends it, whoever the user is.                              *)
(*                                                                         *)
(* The invariant, Course, says for each stage of a session what work       *)
(* consists of.  Lists that are Sheltered are those in which whatever      *)
(* raises has the end of a plugin's frame behind it.                       *)
(***************************************************************************)
EXTENDS SessionProofs

(***************************************************************************)
(* The calls that wait for the startup hooks of the plugins, and others.   *)
(***************************************************************************)
\* A quiet call runs no hook and ends no line.
LEMMA QuietPrior == ASSUME NEW c, Quiet(c) PROVE Prior(c) /\ Untyped(c)
<1>1. c.do \in QuietDo /\ (c.do = "end" => c.frame \in QuietFrames)
      BY QuietDoes, Zenon
<1>2. c.do \notin {"run", "save"} /\ c.do # "phase"
      BY <1>1 DEF QuietDo
<1>3. c.do = "end" => c.frame \notin {"typed", "prompt"} /\ c.frame # "typed"
      BY <1>1 DEF QuietFrames
<1> QED BY <1>2, <1>3, Zenon DEF Prior, Untyped

\* The two levels are just that.
LEMMA FitsPrior ==
    ASSUME NEW c
    PROVE  (Fits(c, PriorWork) <=> Prior(c)) /\ (Fits(c, UntypedWork) <=> Untyped(c))
<1>1. /\ PriorWork # LateWork /\ PriorWork # KnownWork /\ PriorWork # UntypedWork
      /\ UntypedWork # LateWork /\ UntypedWork # KnownWork
      /\ \A m : PriorWork # EarlyWork(m) /\ UntypedWork # EarlyWork(m)
      BY Levels, Zenon
<1> QED BY <1>1, QuietPrior, Zenon DEF Fits

\* What waits for the startup hooks ends no line.
LEMMA ListUntyped ==
    ASSUME NEW x, List(x, PriorWork) PROVE List(x, UntypedWork)
<1>1. \A c : Prior(c) => Untyped(c)
      BY DEF Prior, Untyped
<1> QED BY <1>1, FitsPrior, Zenon DEF List

\* What the head of the work may be.
HeadKind ==
    \/ Quiet(This) /\ Served
    \/ Early(This, Ours)
    \/ This = Phase("discover")
    \/ \E i \in DOMAIN user.files : This = LoadCall(i)
    \/ This.do \in {"stage", "validate", "publish"}
    \/ \E i, raised : This = RegisterEnd(i, raised)
    \/ Late(This)

\* What fits quiet, early or late work.
LEMMA FitsKinds ==
    ASSUME NEW c
    PROVE  /\ Fits(c, QuietWork) => Quiet(c)
           /\ Fits(c, EarlyWork(Ours)) => Quiet(c) \/ Early(c, Ours)
           /\ Fits(c, LateWork) => Quiet(c) \/ Late(c)
<1>1. /\ \A level \in {QuietWork, LateWork} : /\ level # KnownWork /\ level # PriorWork /\ level # UntypedWork
                                             /\ \A m : level # EarlyWork(m)
      /\ QuietWork # LateWork
      BY Levels, Zenon
<1>2. /\ \A m : EarlyWork(Ours) = EarlyWork(m) => m = Ours
      /\ EarlyWork(Ours) # LateWork /\ EarlyWork(Ours) # KnownWork
      /\ EarlyWork(Ours) # PriorWork /\ EarlyWork(Ours) # UntypedWork
      BY Levels, Zenon
<1>3. Fits(c, QuietWork) => Quiet(c)
      BY <1>1, Zenon DEF Fits
<1>4. Fits(c, LateWork) => Quiet(c) \/ Late(c)
      BY <1>1, Zenon DEF Fits
<1>5. Fits(c, EarlyWork(Ours)) => Quiet(c) \/ Early(c, Ours)
      BY <1>2, Zenon DEF Fits
<1> QED BY <1>3, <1>4, <1>5, Zenon

\* The head is of one of the kinds.
LEMMA HeadKinds == ASSUME IInv, work # <<>> PROVE HeadKind
<1>1. user \in Users /\ Phases
      BY Zenon DEF IInv
<1>2. ASSUME NEW q, Awaiting(q) PROVE HeadKind
  <2>1. List(q, EarlyWork(Ours)) /\ work = q \o Discovery /\ IsList(q) /\ IsList(Discovery)
        BY <1>2, DiscoveryUnwinds, Zenon DEF Awaiting, List
  <2>s. Served
        BY <1>2, NoSlotsServed, Zenon DEF Awaiting
  <2>2. CASE q = <<>>
    <3>1. work = <<Phase("discover")>> \o After
          BY <2>1, <2>2, Joins, Zenon DEF Discovery
    <3>2. This = Phase("discover")
          BY <1>1, <3>1, PartsAreLists, HeadOf, Zenon
    <3> QED BY <3>2, Zenon DEF HeadKind
  <2>3. CASE q # <<>>
    <3>1. Head(q \o Discovery) = Head(q)
          BY <2>1, <2>3, Ends, Zenon
    <3>2. This = Head(q)
          BY <2>1, <3>1, Zenon DEF This
    <3>3. Fits(Head(q), EarlyWork(Ours))
          BY <2>1, <2>3, ListHead, Zenon
    <3>4. Quiet(This) \/ Early(This, Ours)
          BY <3>2, <3>3, FitsKinds, Zenon
    <3> QED BY <2>s, <3>4, Zenon DEF HeadKind
  <2> QED BY <2>2, <2>3
<1>3. ASSUME Finished PROVE HeadKind
  <2>1. Fits(This, LateWork)
        BY <1>3, ListHead, Zenon DEF Finished, This
  <2>2. Quiet(This) \/ Late(This)
        BY <2>1, FitsKinds, Zenon
  <2>3. Served
        BY <1>1, <1>3, FinishedServed, Zenon
  <2> QED BY <2>2, <2>3, Zenon DEF HeadKind
<1>4. ASSUME NEW i, Due(i) PROVE HeadKind
  <2>1. This = LoadCall(i)
        BY <1>1, <1>4, DueHead, Zenon
  <2>2. i \in DOMAIN user.files
        BY <1>4, Zenon DEF Due, IsNext
  <2> QED BY <2>1, <2>2, Zenon DEF HeadKind
<1>5. ASSUME NEW m, Between(m) PROVE HeadKind
      BY <1>1, <1>3, <1>4, <1>5, BetweenIs, Zenon
<1>6. ASSUME NEW m, NEW k, NEW q, Registering(m, k, q) PROVE HeadKind
  <2>1. /\ m \in DOMAIN user.files /\ k \in 0..Len(Register(m)) /\ List(q, QuietWork) /\ IsList(q)
        /\ IsList(Rest(Register(m), k) \o Committal(m)) /\ Served
        /\ work = q \o (Rest(Register(m), k) \o Committal(m))
        BY <1>1, <1>6, RegisteringIs, Zenon
  <2>2. CASE q # <<>>
    <3>1. This = Head(q)
          BY <2>1, <2>2, Ends, Zenon DEF This
    <3>2. Quiet(This)
          BY <2>1, <2>2, <3>1, ListHead, FitsKinds, Zenon
    <3> QED BY <2>1, <3>2, Zenon DEF HeadKind
  <2>3. CASE q = <<>> /\ k < Len(Register(m))
    <3> DEFINE c == Register(m)[k + 1]
    <3>1. This = c /\ k + 1 \in 1..Len(Register(m))
          BY <1>1, <1>6, <2>3, RegisteringNext, Zenon
    <3>2. c.do = "stage" \/ Fits(c, QuietWork)
          BY <1>1, <2>1, <3>1, RegisterIs, Zenon
    <3> HIDE DEF c
    <3>3. This.do \in {"stage", "validate", "publish"} \/ Quiet(This)
          BY <3>1, <3>2, FitsKinds
    <3> QED BY <2>1, <3>3, Zenon DEF HeadKind
  <2>4. CASE q = <<>> /\ k = Len(Register(m))
    <3>1. This = [do |-> "validate"]
          BY <1>1, <1>6, <2>4, RegisteringDone, Zenon
    <3>2. This.do \in {"stage", "validate", "publish"}
          BY <3>1
    <3> QED BY <3>2, Zenon DEF HeadKind
  <2>5. k < Len(Register(m)) \/ k = Len(Register(m))
    <3>1. Len(Register(m)) \in Nat
          BY <1>1, <2>1, RegisterIs, Zenon
    <3> QED BY <2>1, <3>1
  <2> QED BY <2>2, <2>3, <2>4, <2>5
<1>7. ASSUME NEW m, NEW j, Committing(m, j) PROVE HeadKind
  <2>1. \/ This = [do |-> "publish", key |-> KindAt(j + 1)]
        \/ This = RegisterEnd(m, FALSE)
        BY <1>1, <1>7, CommittingIs, Zenon
  <2>2. This = [do |-> "publish", key |-> KindAt(j + 1)] => This.do \in {"stage", "validate", "publish"}
        OBVIOUS
  <2> QED BY <2>1, <2>2, Zenon DEF HeadKind
<1>8. ASSUME NEW m, Abandoned(m) PROVE HeadKind
  <2>1. This = RegisterEnd(m, TRUE)
        BY <1>1, <1>8, AbandonedIs, Zenon
  <2> QED BY <2>1, Zenon DEF HeadKind
<1> QED BY <1>1, <1>2, <1>3, <1>5, <1>6, <1>7, <1>8, Zenon DEF Phases

(***************************************************************************)
(* Calls in the frame of a plugin's hook.                                  *)
(***************************************************************************)
\* What raises nothing itself.
Tame(c) == c.do \in {"put", "invoke", "end"}

Shields(c) == IsEnd(c, "plugin hook")

\* What may raise has the end of a plugin's frame behind it.
Sheltered(q) ==
    \A i \in DOMAIN q : ~Tame(q[i]) => \E j \in DOMAIN q : i <= j /\ Shields(q[j])

\* Nothing raises in an empty list, nor in a tame call.
LEMMA ShelteredOne ==
    /\ Sheltered(<<>>)
    /\ \A c : Tame(c) => Sheltered(<<c>>)
<1>1. Sheltered(<<>>)
  <2>1. DOMAIN <<>> = {}
        OBVIOUS
  <2> QED BY <2>1, Zenon DEF Sheltered
<1>2. ASSUME NEW c, Tame(c) PROVE Sheltered(<<c>>)
  <2>1. \A i \in DOMAIN <<c>> : <<c>>[i] = c
        OBVIOUS
  <2> QED BY <1>2, <2>1, Zenon DEF Sheltered
<1> QED BY <1>1, <1>2

\* The members of two lists joined.
JoinsAt(x, y) ==
    /\ Len(x) \in Nat /\ Len(y) \in Nat /\ DOMAIN x = 1..Len(x) /\ DOMAIN y = 1..Len(y)
    /\ DOMAIN (x \o y) = 1..(Len(x) + Len(y))
    /\ \A i \in 1..Len(x) : (x \o y)[i] = x[i]
    /\ \A i \in 1..Len(y) : (x \o y)[Len(x) + i] = y[i]

\* That is how lists are joined.
LEMMA JoinedAt ==
    ASSUME NEW x, NEW y, IsList(x), IsList(y) PROVE JoinsAt(x, y)
<1>1. IsList(x \o y)
      BY JoinIsList
<1> QED BY <1>1, Ends DEF JoinsAt

\* Sheltered lists, joined, are sheltered.
LEMMA ShelteredJoin ==
    ASSUME NEW x, NEW y, IsList(x), IsList(y), Sheltered(x), Sheltered(y)
    PROVE  Sheltered(x \o y)
<1>2. /\ Len(x) \in Nat /\ Len(y) \in Nat /\ DOMAIN x = 1..Len(x) /\ DOMAIN y = 1..Len(y)
      /\ DOMAIN (x \o y) = 1..(Len(x) + Len(y))
      /\ \A i \in 1..Len(x) : (x \o y)[i] = x[i]
      /\ \A i \in 1..Len(y) : (x \o y)[Len(x) + i] = y[i]
  <2>1. JoinsAt(x, y)
        BY JoinedAt
  <2> QED BY <2>1 DEF JoinsAt
<1> DEFINE z == x \o y
<1> HIDE DEF z
<1>3. /\ DOMAIN z = 1..(Len(x) + Len(y)) /\ \A i \in 1..Len(x) : z[i] = x[i]
      /\ \A i \in 1..Len(y) : z[Len(x) + i] = y[i]
      BY <1>2 DEF z
<1>4. ASSUME NEW i \in DOMAIN z, ~Tame(z[i]) PROVE \E j \in DOMAIN z : i <= j /\ Shields(z[j])
  <2>1. CASE i \in 1..Len(x)
    <3>1. ~Tame(x[i]) /\ i \in DOMAIN x
          BY <1>2, <1>3, <1>4, <2>1
    <3>2. PICK j \in DOMAIN x : i <= j /\ Shields(x[j])
          BY <3>1, Zenon DEF Sheltered
    <3>3. j \in DOMAIN z /\ z[j] = x[j]
          BY <1>2, <1>3, <3>2
    <3> QED BY <3>2, <3>3, Zenon
  <2>2. CASE i \notin 1..Len(x)
    <3>1. i - Len(x) \in DOMAIN y /\ i = Len(x) + (i - Len(x)) /\ i \in Nat
          BY <1>2, <1>3, <2>2
    <3> DEFINE k == i - Len(x)
    <3>2. k \in DOMAIN y /\ i = Len(x) + k
          BY <3>1
    <3> HIDE DEF k
    <3>3. ~Tame(y[k])
          BY <1>2, <1>3, <1>4, <3>2
    <3>4. PICK j \in DOMAIN y : k <= j /\ Shields(y[j])
          BY <3>2, <3>3, Zenon DEF Sheltered
    <3>5. Len(x) + j \in DOMAIN z /\ z[Len(x) + j] = y[j] /\ i <= Len(x) + j
          BY <1>2, <1>3, <3>2, <3>4
    <3> QED BY <3>4, <3>5, Zenon
  <2> QED BY <2>1, <2>2
<1> QED BY <1>4, Zenon DEF Sheltered, z

\* What is left of a sheltered list is sheltered.
LEMMA ShelteredRest ==
    ASSUME NEW x, IsList(x), Sheltered(x), NEW k \in 0..Len(x)
    PROVE  Sheltered(Rest(x, k))
<1> DEFINE z == Rest(x, k)
<1>1. /\ Len(x) \in Nat /\ DOMAIN x = 1..Len(x) /\ IsList(z)
      /\ DOMAIN z = 1..(Len(x) - k) /\ \A i \in 1..(Len(x) - k) : z[i] = x[k + i]
  <2>1. Len(x) \in Nat /\ DOMAIN x = 1..Len(x)
        BY Ends
  <2>2. IsList(z) /\ Len(z) = Len(x) - k /\ \A i \in 1..(Len(x) - k) : z[i] = x[k + i]
        BY RestIs
  <2>3. DOMAIN z = 1..Len(z)
        BY <2>2, Ends
  <2> QED BY <2>1, <2>2, <2>3, Zenon
<1> HIDE DEF z
<1>2. ASSUME NEW i \in DOMAIN z, ~Tame(z[i]) PROVE \E j \in DOMAIN z : i <= j /\ Shields(z[j])
  <2>1. k + i \in DOMAIN x /\ z[i] = x[k + i] /\ k \in Nat /\ i \in Nat
        BY <1>1
  <2>2. PICK j \in DOMAIN x : k + i <= j /\ Shields(x[j])
        BY <1>2, <2>1, Zenon DEF Sheltered
  <2>3. j - k \in DOMAIN z /\ k + (j - k) = j /\ i <= j - k
        BY <1>1, <2>1, <2>2
  <2>4. z[j - k] = x[j]
        BY <1>1, <2>3
  <2> QED BY <2>2, <2>3, <2>4, Zenon
<1> QED BY <1>2, Zenon DEF Sheltered, z

\* A list with the end of a plugin's frame behind it is sheltered.
LEMMA ShelteredBy ==
    ASSUME NEW x, IsList(x), NEW c, Shields(c)
    PROVE  Sheltered(x \o <<c>>)
<1> DEFINE z == x \o <<c>>
<1>1. /\ Len(x) \in Nat /\ DOMAIN z = 1..(Len(x) + 1) /\ z[Len(x) + 1] = c
  <2> DEFINE e == <<c>>
  <2>1. IsList(e) /\ Len(e) = 1 /\ e[1] = c
        BY Joins, Zenon
  <2> HIDE DEF e
  <2>2. JoinsAt(x, e)
        BY <2>1, JoinedAt, Zenon
  <2>3. Len(x) \in Nat /\ DOMAIN (x \o e) = 1..(Len(x) + 1) /\ (x \o e)[Len(x) + 1] = c
        BY <2>1, <2>2 DEF JoinsAt
  <2> QED BY <2>3, Zenon DEF e
<1> HIDE DEF z
<1>2. \A i \in DOMAIN z : i <= Len(x) + 1
      BY <1>1
<1>3. Len(x) + 1 \in DOMAIN z
      BY <1>1
<1>4. ASSUME NEW i \in DOMAIN z PROVE \E j \in DOMAIN z : i <= j /\ Shields(z[j])
      BY <1>1, <1>2, <1>3, Zenon
<1> QED BY <1>4, Zenon DEF Sheltered, z

\* The end of the frame.
LEMMA HookEndShields == Shields(EndOf("plugin hook")) /\ Tame(EndOf("dispatch"))
BY DEF EndOf, Shields, Tame, IsEnd

\* Sheltered lists, flattened, are sheltered.
LEMMA ShelteredFlat ==
    ASSUME NEW n \in Nat, NEW s, s = [i \in 1..n |-> s[i]],
           \A i \in 1..n : IsList(s[i]) /\ Sheltered(s[i])
    PROVE  Sheltered(FlattenSeq(s)) /\ IsList(FlattenSeq(s))
<1> DEFINE D == UNION {{s[i][j] : j \in DOMAIN s[i]} : i \in 1..n}
<1>1. s \in Seq(Seq(D))
      BY ListOfLists
<1>2. Len(s) = n
  <2>1. DOMAIN s = 1..n
        OBVIOUS
  <2> HIDE DEF D
  <2> QED BY <1>1, <2>1
<1> HIDE DEF D
<1>3. PICK f : /\ Sums(s, f) /\ \A k \in 0..Len(s) : f[k] \in Seq(D)
               /\ FlattenSeq(s) = f[Len(s)]
      BY <1>1, Flattening, Zenon
<1> DEFINE S == {k \in Nat : k <= n => Sheltered(f[k])}
<1>4. 0 \in S
  <2>1. f[0] = <<>>
        BY <1>3, Zenon DEF Sums
  <2>2. Sheltered(f[0])
        BY <2>1, ShelteredOne, Zenon
  <2> QED BY <2>2
<1>5. ASSUME NEW k \in Nat, k \in S PROVE k + 1 \in S
  <2>1. CASE k + 1 <= n
    <3>1. k + 1 \in 1..n /\ k \in 0..n /\ k <= n /\ (k + 1) - 1 = k
          BY <2>1
    <3>2. Sheltered(f[k]) /\ IsList(f[k])
      <4>1. Sheltered(f[k])
            BY <1>5, <3>1
      <4>2. f[k] \in Seq(D)
            BY <1>2, <1>3, <3>1
      <4> QED BY <4>1, <4>2, Zenon DEF IsList
    <3>3. IsList(s[k + 1]) /\ Sheltered(s[k + 1])
          BY <3>1, Zenon
    <3>4. f[k + 1] = f[k] \o s[k + 1]
      <4>1. \A m \in 1..Len(s) : f[m] = f[m - 1] \o s[m]
            BY <1>3, Zenon DEF Sums
      <4>2. f[k + 1] = f[(k + 1) - 1] \o s[k + 1]
            BY <1>2, <3>1, <4>1, Zenon
      <4> QED BY <3>1, <4>2
    <3>5. Sheltered(f[k + 1])
          BY <3>2, <3>3, <3>4, ShelteredJoin, Zenon
    <3> QED BY <3>5
  <2>2. CASE ~(k + 1 <= n)
        BY <2>2
  <2> QED BY <2>1, <2>2
<1>6. n \in S
  <2> HIDE DEF S
  <2> QED BY <1>4, <1>5, Numbers
<1>7. Sheltered(f[n])
      BY <1>6
<1>8. IsList(FlattenSeq(s))
      BY <1>1, FlatType, Zenon DEF IsList
<1> QED BY <1>2, <1>3, <1>7, <1>8, Zenon

\* A plugin's command is.
LEMMA ContainedSheltered ==
    ASSUME NEW body \in Program PROVE Sheltered(Contained(body)) /\ IsList(Contained(body))
<1>1. IsList(body)
      BY ListOfCode DEF List
<1>2. Sheltered(body \o <<EndOf("plugin hook")>>)
      BY <1>1, HookEndShields, ShelteredBy, Zenon
<1>3. List(Contained(body), QuietWork)
      BY ContainedQuiet
<1> QED BY <1>2, <1>3, Zenon DEF Contained, List

\* So are the notices of a changed name.
LEMMA NoticesSheltered ==
    ASSUME HookList(hooks.env), NEW n, NEW old, NEW new
    PROVE  Sheltered(Notices(n, old, new))
<1> DEFINE h == hooks.env
           s == [i \in DOMAIN h |-> (<<[do |-> "notice", hook |-> i, key |-> n, old |-> old, new |-> new]>>
                                        \o h[i].body) \o <<EndOf("plugin hook")>>]
           e == <<EndOf("dispatch")>>
<1>1. Len(h) \in Nat /\ DOMAIN h = 1..Len(h) /\ \A i \in DOMAIN h : h[i].body \in Program
      BY Ends DEF HookList
<1>2. ASSUME NEW i \in 1..Len(h) PROVE IsList(s[i]) /\ Sheltered(s[i])
  <2> DEFINE c == [do |-> "notice", hook |-> i, key |-> n, old |-> old, new |-> new]
             x == <<c>> \o h[i].body
             p == EndOf("plugin hook")
  <2>1. s[i] = x \o <<p>>
        BY <1>1, Zenon
  <2>2. h[i].body \in Program
        BY <1>1
  <2>3. IsList(h[i].body)
        BY <2>2, ListOfCode DEF List
  <2> HIDE DEF s, c
  <2>4. IsList(x)
        BY <2>3, Joins, JoinIsList, Zenon
  <2> HIDE DEF x
  <2>5. IsList(x \o <<p>>)
        BY <2>4, Joins, JoinIsList, Zenon
  <2>6. Sheltered(x \o <<p>>)
        BY <2>4, HookEndShields, ShelteredBy, Zenon
  <2> QED BY <2>1, <2>5, <2>6, Zenon
<1>3. s = [i \in 1..Len(h) |-> s[i]]
      BY <1>1, Zenon
<1>4. Notices(n, old, new) = FlattenSeq(s) \o e
      BY Zenon DEF Notices
<1>5. IsList(e) /\ Sheltered(e)
      BY HookEndShields, ShelteredOne, Joins, Zenon
<1> HIDE DEF s, e
<1>6. Sheltered(FlattenSeq(s)) /\ IsList(FlattenSeq(s))
      BY <1>1, <1>2, <1>3, ShelteredFlat
<1>8. Sheltered(FlattenSeq(s) \o e)
      BY <1>5, <1>6, ShelteredJoin, Zenon
<1> QED BY <1>4, <1>8, Zenon

(***************************************************************************)
(* The hooks of a kind that are still to be run.                           *)
(***************************************************************************)
RunItem(kind, i) == [do |-> "run", key |-> kind, of |-> i]

HookBody(kind, i) == hooks[kind][i].body \o <<EndOf("plugin hook")>>

HookRun(kind, i) == (<<RunItem(kind, i)>> \o hooks[kind][i].body) \o <<EndOf("plugin hook")>>

RunsBehind(kind, j) == [i \in DOMAIN hooks[kind] |-> IF i > j THEN HookRun(kind, i) ELSE <<>>]

RunFrom(kind, j) == FlattenSeq(RunsBehind(kind, j))

RunItems(kind) == Code \cup {RunItem(kind, i) : i \in Nat} \cup {EndOf("plugin hook")}

\* What is run for one hook.
LEMMA HookRunIs ==
    ASSUME Typed, NEW kind \in Range(HookKinds), NEW i \in DOMAIN hooks[kind]
    PROVE  /\ HookRun(kind, i) \in Seq(RunItems(kind))
           /\ IsList(HookBody(kind, i)) /\ List(HookBody(kind, i), QuietWork)
           /\ Sheltered(HookBody(kind, i))
           /\ HookRun(kind, i) = <<RunItem(kind, i)>> \o HookBody(kind, i)
<1> DEFINE b == hooks[kind][i].body
           e == EndOf("plugin hook")
           r == RunItem(kind, i)
<1>1. b \in Program /\ i \in Nat
  <2>1. HookList(hooks[kind])
        BY DEF Typed
  <2>2. IsList(hooks[kind])
        BY <2>1, Zenon DEF HookList
  <2>3. DOMAIN hooks[kind] = 1..Len(hooks[kind]) /\ Len(hooks[kind]) \in Nat
        BY <2>2, Ends
  <2>4. i \in Nat
        BY <2>3
  <2> QED BY <2>1, <2>4, Zenon DEF HookList
<1>2. b \in Seq(RunItems(kind)) /\ r \in RunItems(kind) /\ e \in RunItems(kind)
  <2>1. r \in RunItems(kind) /\ e \in RunItems(kind) /\ Code \subseteq RunItems(kind)
        BY <1>1, Zenon DEF RunItems
  <2>2. b \in Seq(Code)
        BY <1>1, Zenon DEF Program
  <2> HIDE DEF b, e, r
  <2> QED BY <2>1, <2>2
<1> HIDE DEF e, r
<1>3. (<<r>> \o b) \o <<e>> \in Seq(RunItems(kind))
      BY <1>2
<1>4. HookBody(kind, i) = Contained(b)
      BY Zenon DEF HookBody, Contained
<1>5. IsList(Contained(b)) /\ List(Contained(b), QuietWork) /\ Sheltered(Contained(b))
      BY <1>1, ContainedQuiet, ContainedSheltered
<1>6. (<<r>> \o b) \o <<e>> = <<r>> \o (b \o <<e>>)
  <2>1. IsList(<<r>>) /\ IsList(b) /\ IsList(<<e>>)
        BY <1>2, Joins, Zenon DEF IsList
  <2>2. JoinsEitherWay(<<r>>, b, <<e>>)
        BY <2>1, ThreeJoined, Zenon
  <2> HIDE DEF b
  <2> QED BY <2>2, Zenon DEF JoinsEitherWay
<1> QED BY <1>3, <1>4, <1>5, <1>6, Zenon DEF HookRun, HookBody, e, r

\* The runs behind a position.
LEMMA RunsAre ==
    ASSUME Typed, NEW kind \in Range(HookKinds), NEW j \in Nat
    PROVE  /\ RunsBehind(kind, j) \in Seq(Seq(RunItems(kind)))
           /\ Len(RunsBehind(kind, j)) = Len(hooks[kind])
           /\ Len(hooks[kind]) \in Nat /\ DOMAIN hooks[kind] = 1..Len(hooks[kind])
           /\ RunFrom(kind, j) \in Seq(RunItems(kind)) /\ IsList(RunFrom(kind, j))
<1> DEFINE n == Len(hooks[kind])
           s == RunsBehind(kind, j)
           S == Seq(RunItems(kind))
<1>1. n \in Nat /\ DOMAIN hooks[kind] = 1..n
  <2>1. IsList(hooks[kind])
        BY Zenon DEF Typed, HookList
  <2> QED BY <2>1, Ends
<1> HIDE DEF n
<1>2. \A i \in 1..n : HookRun(kind, i) \in S
      BY <1>1, HookRunIs
<1>3. <<>> \in S
      OBVIOUS
<1> HIDE DEF S
<1>4. s \in [1..n -> S]
      BY <1>1, <1>2, <1>3 DEF RunsBehind
<1> HIDE DEF s
<1>5. s \in Seq(S) /\ Len(s) = n
      BY <1>1, <1>4
<1>6. FlattenSeq(s) \in Seq(RunItems(kind))
      BY <1>5, FlatType, Zenon DEF S
<1>7. RunFrom(kind, j) \in Seq(RunItems(kind))
      BY <1>6, Zenon DEF RunFrom, s
<1> QED BY <1>1, <1>5, <1>7, Zenon DEF s, S, n, IsList

\* All of them, the next of them, and none of them.
LEMMA RunNext ==
    ASSUME Typed, NEW kind \in Range(HookKinds), NEW j \in 0..Len(hooks[kind])
    PROVE  /\ j = 0 => Run(kind) = RunFrom(kind, j)
           /\ j = Len(hooks[kind]) => RunFrom(kind, j) = <<>>
           /\ j < Len(hooks[kind]) =>
                /\ j + 1 \in DOMAIN hooks[kind] /\ j + 1 \in 0..Len(hooks[kind])
                /\ RunFrom(kind, j) = HookRun(kind, j + 1) \o RunFrom(kind, j + 1)
<1> DEFINE n == Len(hooks[kind])
<1>1. n \in Nat /\ DOMAIN hooks[kind] = 1..n /\ j \in Nat /\ j \in 0..n /\ j + 1 \in Nat
      BY RunsAre
<1>2. \A k \in Nat : \A i \in 1..n : RunsBehind(kind, k)[i] = IF i > k THEN HookRun(kind, i) ELSE <<>>
      BY <1>1, Zenon DEF RunsBehind
<1>t. \A k \in Nat : RunsBehind(kind, k) \in Seq(Seq(RunItems(kind))) /\ Len(RunsBehind(kind, k)) = n
      BY RunsAre
<1> HIDE DEF n
<1>3. ASSUME j = 0 PROVE Run(kind) = RunFrom(kind, j)
  <2>1. \A i \in DOMAIN hooks[kind] : i > j
        BY <1>1, <1>3
  <2>2. RunsBehind(kind, j) = [i \in DOMAIN hooks[kind] |-> HookRun(kind, i)]
        BY <2>1, Zenon DEF RunsBehind
  <2>3. [i \in DOMAIN hooks[kind] |-> HookRun(kind, i)]
            = [i \in DOMAIN hooks[kind] |->
                   (<<[do |-> "run", key |-> kind, of |-> i]>> \o hooks[kind][i].body) \o <<EndOf("plugin hook")>>]
        BY Zenon DEF HookRun, RunItem
  <2> QED BY <2>2, <2>3, Zenon DEF Run, RunFrom
<1>4. ASSUME j = n PROVE RunFrom(kind, j) = <<>>
  <2> DEFINE s == RunsBehind(kind, j)
  <2>1. \A i \in 1..n : ~(i > j)
        BY <1>1, <1>4
  <2>2. \A i \in 1..n : s[i] = <<>>
        BY <1>1, <1>2, <2>1, Zenon
  <2>3. s \in Seq(Seq(RunItems(kind))) /\ Len(s) = n
        BY <1>1, <1>t, Zenon
  <2> HIDE DEF s
  <2>4. FlattenSeq(s) = <<>>
        BY <2>2, <2>3, FlatEmpty, Zenon
  <2> QED BY <2>4, Zenon DEF RunFrom, s
<1>5. ASSUME j < n
      PROVE  /\ j + 1 \in 1..n /\ j + 1 \in 0..n
             /\ RunFrom(kind, j) = HookRun(kind, j + 1) \o RunFrom(kind, j + 1)
  <2> DEFINE i == j + 1
             s == RunsBehind(kind, j)
             t == RunsBehind(kind, i)
  <2>1. i \in 1..n /\ i \in 0..n /\ i \in Nat /\ i > j /\ ~(i > i)
        BY <1>1, <1>5
  <2>2. \A k \in 1..n : (k > i) <=> (k > j /\ k # i)
        BY <1>1
  <2>3. \A k \in 1..(i - 1) : k \in 1..n /\ ~(k > j)
        BY <1>1, <1>5
  <2> HIDE DEF i
  <2>4. /\ s \in Seq(Seq(RunItems(kind))) /\ Len(s) = n /\ t \in Seq(Seq(RunItems(kind))) /\ Len(t) = n
        BY <1>1, <1>t, <2>1, Zenon
  <2>5. /\ \A k \in 1..n : s[k] = IF k > j THEN HookRun(kind, k) ELSE <<>>
        /\ \A k \in 1..n : t[k] = IF k > i THEN HookRun(kind, k) ELSE <<>>
        BY <1>1, <1>2, <2>1, Zenon
  <2> HIDE DEF s, t
  <2>6. s[i] = HookRun(kind, i) /\ t[i] = <<>>
        BY <2>1, <2>5, Zenon
  <2>7. \A k \in 1..(i - 1) : s[k] = <<>>
        BY <2>3, <2>5, Zenon
  <2>8. \A k \in 1..n : k # i => t[k] = s[k]
        BY <2>2, <2>5, Zenon
  <2>9. FlattenSeq(s) = s[i] \o FlattenSeq(t)
    <3>1. i \in 1..Len(s) /\ Len(t) = Len(s) /\ \A k \in 1..Len(s) : k # i => t[k] = s[k]
          BY <2>1, <2>4, <2>8, Zenon
    <3> QED BY <2>4, <2>6, <2>7, <3>1, FlatFirst, Zenon
  <2> QED BY <2>1, <2>6, <2>9, Zenon DEF RunFrom, s, t, i
<1> QED BY <1>1, <1>3, <1>4, <1>5, Zenon DEF n

(***************************************************************************)
(* Steps of sheltered calls.                                               *)
(***************************************************************************)
\* All but the first member of a list.
LEMMA TailIsRest == ASSUME NEW x, IsList(x), x # <<>> PROVE Tail(x) = Rest(x, 1) /\ 1 \in 0..Len(x)
<1>1. PICK D : x \in Seq(D)
      BY DEF IsList
<1>2. Tail(x) = SubSeq(x, 2, Len(x)) /\ 1 \in 0..Len(x)
      BY <1>1
<1> QED BY <1>2 DEF Rest

\* The tail of a sheltered list is sheltered.
LEMMA ShelteredTail == ASSUME NEW x, IsList(x), x # <<>>, Sheltered(x) PROVE Sheltered(Tail(x))
BY TailIsRest, ShelteredRest, Zenon

\* If its head may raise, the end of a plugin's frame is behind.
LEMMA ShieldBehind ==
    ASSUME NEW x, IsList(x), x # <<>>, Sheltered(x), ~Tame(Head(x))
    PROVE  /\ \E j \in DOMAIN x : Shields(x[j])
           /\ \E j \in DOMAIN Tail(x) : Shields(Tail(x)[j])
<1>1. Len(x) \in Nat /\ DOMAIN x = 1..Len(x) /\ Head(x) = x[1] /\ Len(x) # 0
      BY Ends, Zenon
<1>2. 1 \in DOMAIN x
      BY <1>1
<1>3. PICK j \in DOMAIN x : 1 <= j /\ Shields(x[j])
      BY <1>1, <1>2, Zenon DEF Sheltered
<1>4. j # 1
  <2>1. Shields(x[j]) => Tame(x[j])
        BY DEF Shields, IsEnd, Tame
  <2> QED BY <1>1, <1>3, <2>1, Zenon
<1>5. /\ IsList(Rest(x, 1)) /\ Len(Rest(x, 1)) = Len(x) - 1
      /\ \A i \in 1..(Len(x) - 1) : Rest(x, 1)[i] = x[1 + i]
      BY TailIsRest, RestIs, Zenon
<1>6. DOMAIN Rest(x, 1) = 1..(Len(x) - 1)
      BY <1>5, Ends, Zenon
<1>7. j - 1 \in 1..(Len(x) - 1) /\ 1 + (j - 1) = j
      BY <1>1, <1>3, <1>4
<1>8. Rest(x, 1)[j - 1] = x[j]
      BY <1>5, <1>7
<1>9. j - 1 \in DOMAIN Rest(x, 1) /\ Shields(Rest(x, 1)[j - 1])
      BY <1>3, <1>6, <1>7, <1>8, Zenon
<1>10. Tail(x) = Rest(x, 1)
       BY TailIsRest, Zenon
<1> QED BY <1>3, <1>9, <1>10, Zenon

\* Before a sheltered list with such an end, whatever it is, a list is sheltered.
LEMMA ShelteredBehind ==
    ASSUME NEW x, NEW y, IsList(x), IsList(y), Sheltered(y), \E j \in DOMAIN y : Shields(y[j])
    PROVE  Sheltered(x \o y)
<1> DEFINE z == x \o y
<1>1. JoinsAt(x, y)
      BY JoinedAt
<1> HIDE DEF z
<1>2. /\ Len(x) \in Nat /\ Len(y) \in Nat /\ DOMAIN x = 1..Len(x) /\ DOMAIN y = 1..Len(y)
      /\ DOMAIN z = 1..(Len(x) + Len(y)) /\ \A i \in 1..Len(x) : z[i] = x[i]
      /\ \A i \in 1..Len(y) : z[Len(x) + i] = y[i]
      BY <1>1 DEF z, JoinsAt
<1>3. PICK k \in DOMAIN y : Shields(y[k])
      OBVIOUS
<1>4. ASSUME NEW i \in DOMAIN z, ~Tame(z[i]) PROVE \E j \in DOMAIN z : i <= j /\ Shields(z[j])
  <2>1. CASE i <= Len(x)
    <3>1. Len(x) + k \in DOMAIN z /\ z[Len(x) + k] = y[k] /\ i <= Len(x) + k
          BY <1>2, <1>3, <2>1
    <3> QED BY <1>3, <3>1, Zenon
  <2>2. CASE ~(i <= Len(x))
    <3> DEFINE m == i - Len(x)
    <3>1. m \in DOMAIN y /\ i = Len(x) + m /\ m \in Nat
          BY <1>2, <2>2
    <3> HIDE DEF m
    <3>2. ~Tame(y[m])
          BY <1>2, <1>4, <3>1
    <3>3. PICK j \in DOMAIN y : m <= j /\ Shields(y[j])
          BY <3>1, <3>2, Zenon DEF Sheltered
    <3>4. Len(x) + j \in DOMAIN z /\ z[Len(x) + j] = y[j] /\ i <= Len(x) + j
          BY <1>2, <3>1, <3>3
    <3> QED BY <3>3, <3>4, Zenon
  <2> QED BY <2>1, <2>2
<1> QED BY <1>4, Zenon DEF Sheltered, z

\* Sheltered calls of a level before the rest.
Keeps(rest, level, w) == \E new : List(new, level) /\ Sheltered(new) /\ w = new \o rest

\* An exception in front of a sheltered list: what it leaves is sheltered; it does not go
\* further than the list if the end of a plugin's frame is in it.
LEMMA ShelteredUnwinding ==
    ASSUME NEW level, NEW q, NEW rest, List(q, level), IsList(rest), Sheltered(q),
           NEW kind \in {"error", "quit"}
    PROVE  /\ \/ UnwoundIn(q \o rest, kind) = UnwoundIn(rest, kind)
              \/ Keeps(rest, level, UnwoundIn(q \o rest, kind))
           /\ (\E j \in DOMAIN q : Shields(q[j])) => Keeps(rest, level, UnwoundIn(q \o rest, kind))
<1>0. IsList(q) /\ Len(q) \in Nat /\ DOMAIN q = 1..Len(q)
  <2>1. IsList(q)
        BY DEF List
  <2> QED BY <2>1, Ends
<1>1. ASSUME Catching(q, kind) # {} PROVE Keeps(rest, level, UnwoundIn(q \o rest, kind))
  <2>1. PICK i \in Catching(q, kind) :
           UnwoundIn(q \o rest, kind) = (<<Raised(q[i])>> \o Rest(q, i)) \o rest
        BY <1>0, <1>1, UnwindsFirst
  <2>2. i \in DOMAIN q /\ q[i].do = "end" /\ i \in 0..Len(q)
        BY <1>0, <2>1 DEF Catching
  <2>3. Fits(Raised(q[i]), level) /\ Tame(Raised(q[i]))
    <3>1. Fits(q[i], level)
          BY <2>2 DEF List
    <3>2. Fits(Raised(q[i]), level)
          BY <2>2, <3>1, RaisedFits
    <3>3. Raised(q[i]).do = q[i].do
          BY DEF Raised
    <3>4. Tame(Raised(q[i]))
          BY <2>2, <3>3 DEF Tame
    <3> QED BY <3>2, <3>4
  <2> DEFINE a == <<Raised(q[i])>>
             r == Rest(q, i)
  <2>4. List(a, level) /\ Sheltered(a)
        BY <2>3, ListOne, ShelteredOne, Zenon
  <2>5. List(r, level) /\ Sheltered(r)
        BY <1>0, <2>2, ListRest, ShelteredRest, Zenon
  <2> HIDE DEF a, r
  <2>6. IsList(a) /\ IsList(r)
        BY <2>4, <2>5, Zenon DEF List
  <2>7. List(a \o r, level) /\ Sheltered(a \o r)
        BY <2>4, <2>5, <2>6, ListJoin, ShelteredJoin, Zenon
  <2>8. UnwoundIn(q \o rest, kind) = (a \o r) \o rest
        BY <2>1, Zenon DEF a, r
  <2> QED BY <2>7, <2>8, Zenon DEF Keeps
<1>2. ASSUME Catching(q, kind) = {} PROVE UnwoundIn(q \o rest, kind) = UnwoundIn(rest, kind)
      BY <1>0, <1>2, UnwindsBehind
<1>3. ASSUME NEW j \in DOMAIN q, Shields(q[j]) PROVE Catching(q, kind) # {}
  <2>2. q[j].do = "end" /\ q[j].frame = "plugin hook"
        BY <1>3 DEF Shields, IsEnd
  <2>3. kind \in Caught("plugin hook")
        BY DEF Caught
  <2>4. j \in Catching(q, kind)
        BY <2>2, <2>3 DEF Catching
  <2> QED BY <2>4
<1> QED BY <1>1, <1>2, <1>3, Zenon

\* A tame call adds sheltered calls.
LEMMA QuietTame ==
    ASSUME user \in Users, IsList(work), work # <<>>, Quiet(This), Tame(This), Typed, Served, Step
    PROVE  Keeps(Tail(work), QuietWork, work')
<1>e. List(<<>>, QuietWork) /\ Sheltered(<<>>)
      BY ListEmpty, ShelteredOne
<1>1. ASSUME PutVariable PROVE Keeps(Tail(work), QuietWork, work')
  <2>1. PICK n, v : work' = (IF Notifies(n, v) THEN Notices(n, environ[n], v) ELSE <<>>) \o Tail(work)
        BY <1>1, Zenon DEF PutVariable
  <2>2. HookList(hooks.env)
        BY Kinds DEF Typed
  <2>3. List(Notices(n, environ[n], v), QuietWork) /\ Sheltered(Notices(n, environ[n], v))
        BY <2>2, NoticesQuiet, NoticesSheltered, Zenon
  <2> DEFINE calls == IF Notifies(n, v) THEN Notices(n, environ[n], v) ELSE <<>>
  <2>4. List(calls, QuietWork) /\ Sheltered(calls)
        BY <1>e, <2>3, Zenon
  <2> QED BY <2>1, <2>4, Zenon DEF Keeps
<1>2. ASSUME InvokeCommand PROVE Keeps(Tail(work), QuietWork, work')
  <2> DEFINE own == {s \in slots : s[1] = "command" /\ s[2] = This.value}
             slot == CHOOSE s \in own : TRUE
             calls == IF own = {} THEN <<>> ELSE Contained(Handler(slot))
  <2>1. Then(calls)
        BY <1>2, Zenon DEF InvokeCommand
  <2>2. List(calls, QuietWork) /\ Sheltered(calls)
    <3>1. CASE own = {}
          BY <1>e, <3>1, Zenon
    <3>2. CASE own # {}
      <4>1. slot \in slots
            BY <3>2, Zenon
      <4> HIDE DEF slot
      <4>2. Handler(slot) \in Program
            BY <4>1, Zenon DEF Served
      <4>3. List(Contained(Handler(slot)), QuietWork) /\ Sheltered(Contained(Handler(slot)))
            BY <4>2, ContainedQuiet, ContainedSheltered
      <4> QED BY <3>2, <4>3, Zenon
    <3> QED BY <3>1, <3>2, Zenon
  <2> HIDE DEF calls
  <2> QED BY <2>1, <2>2, Zenon DEF Then, Keeps
<1>3. ASSUME EndFrame PROVE Keeps(Tail(work), QuietWork, work')
  <2>1. This.do = "end"
        BY <1>3 DEF EndFrame, Doing, This
  <2>2. This.frame \in QuietFrames
        BY <2>1, QuietDoes, Zenon
  <2>3. This.frame # "typed" /\ This.frame # "prompt"
        BY <2>2 DEF QuietFrames
  <2>4. work' = Tail(work)
        BY <1>3, <2>3, Zenon DEF EndFrame
  <2>5. Tail(work) = <<>> \o Tail(work)
        BY Ends, Joins, Zenon
  <2> QED BY <1>e, <2>4, <2>5, Zenon DEF Keeps
<1>4. PutVariable \/ InvokeCommand \/ EndFrame
  <2>1. This.do \in {"put", "invoke", "end"}
        BY DEF Tame
  <2> QED BY <2>1, Does DEF Step
<1> QED BY <1>1, <1>2, <1>3, <1>4

\* One step of sheltered calls before the rest leaves sheltered calls before the rest.
LEMMA ShelteredStep ==
    ASSUME user \in Users, Typed, Served, NEW q, NEW rest, List(q, QuietWork), Sheltered(q), q # <<>>,
           IsList(rest), work = q \o rest, Step
    PROVE  /\ Keeps(rest, QuietWork, work')
           /\ UNCHANGED <<user, plugins>> /\ startupHooks' \in Seq(Program)
<1>1. IsList(q)
      BY Zenon DEF List
<1>2. IsList(work) /\ work # <<>> /\ This = Head(q) /\ Tail(work) = Tail(q) \o rest
  <2>1. IsList(q \o rest)
        BY <1>1, JoinIsList, Zenon
  <2>2. q \o rest # <<>>
        BY <1>1, Ends
  <2>3. Head(q \o rest) = Head(q) /\ Tail(q \o rest) = Tail(q) \o rest
        BY <1>1, Ends, Zenon
  <2> QED BY <2>1, <2>2, <2>3, Zenon DEF This
<1>3. Quiet(This)
      BY <1>2, ListHead, FitsKinds, Zenon
<1>4. /\ UNCHANGED <<user, plugins>> /\ startupHooks' \in Seq(Program)
      /\ Adds(QuietWork) \/ Throws
      BY <1>2, <1>3, QuietStep, Zenon
<1>5. List(Tail(q), QuietWork) /\ Sheltered(Tail(q)) /\ IsList(Tail(q))
  <2>1. List(Tail(q), QuietWork)
        BY ListHead, Zenon
  <2> QED BY <1>1, <2>1, ShelteredTail, Zenon DEF List
<1>6. ASSUME NEW new, List(new, QuietWork), Sheltered(new \o Tail(q)), work' = new \o Tail(work)
      PROVE  Keeps(rest, QuietWork, work')
  <2>1. List(new \o Tail(q), QuietWork) /\ IsList(new)
        BY <1>5, <1>6, ListJoin, Zenon DEF List
  <2>2. JoinsEitherWay(new, Tail(q), rest)
        BY <1>5, <2>1, ThreeJoined, Zenon
  <2>3. work' = (new \o Tail(q)) \o rest
        BY <1>2, <1>6, <2>2, Zenon DEF JoinsEitherWay
  <2> QED BY <1>6, <2>1, <2>3, Zenon DEF Keeps
<1>7. CASE Tame(This)
  <2>1. PICK new : List(new, QuietWork) /\ Sheltered(new) /\ work' = new \o Tail(work)
        BY <1>2, <1>3, <1>7, QuietTame, Zenon DEF Keeps
  <2>2. Sheltered(new \o Tail(q))
        BY <1>5, <2>1, ShelteredJoin, Zenon DEF List
  <2> QED BY <1>4, <1>6, <2>1, <2>2, Zenon
<1>8. CASE ~Tame(This) /\ Adds(QuietWork)
  <2>1. PICK new : List(new, QuietWork) /\ work' = new \o Tail(work)
        BY <1>8, Zenon DEF Adds
  <2>2. ~Tame(Head(q))
        BY <1>2, <1>8, Zenon
  <2>3. \E j \in DOMAIN Tail(q) : Shields(Tail(q)[j])
        BY <1>1, <2>2, ShieldBehind, Zenon
  <2>4. Sheltered(new \o Tail(q))
        BY <1>5, <2>1, <2>3, ShelteredBehind, Zenon DEF List
  <2> QED BY <1>4, <1>6, <2>1, <2>4, Zenon
<1>9. CASE ~Tame(This) /\ Throws
  <2>1. PICK kind \in {"error", "quit"} : work' = Unwound(kind)
        BY <1>9, Zenon DEF Throws
  <2>2. work' = UnwoundIn(q \o rest, kind)
        BY <2>1, UnwoundIs, Zenon
  <2>3. ~Tame(Head(q))
        BY <1>2, <1>9, Zenon
  <2>4. Keeps(rest, QuietWork, UnwoundIn(q \o rest, kind))
    <3>1. \E j \in DOMAIN q : Shields(q[j])
          BY <1>1, <2>3, ShieldBehind, Zenon
    <3> QED BY <3>1, ShelteredUnwinding, Zenon
  <2> QED BY <1>4, <2>2, <2>4, Zenon
<1> QED BY <1>4, <1>7, <1>8, <1>9, Zenon

(***************************************************************************)
(* Steps of calls that run no hook and end no line.                        *)
(***************************************************************************)
Ordinary(c) ==
    /\ c.do \notin {"run", "save"}
    /\ c.do = "phase" => c.key # "prompt"
    /\ c.do = "end" => c.frame \notin {"typed", "prompt"}

\* The stage changes only if nothing is left to be done.
StageKept == stage' = stage \/ (work' = <<>> /\ Fails)

\* A handler that calls others, and one that raises.
LEMMA StageIsKept ==
    /\ \A calls : Then(calls) => StageKept
    /\ \A kind : Raise(kind) => StageKept
BY Zenon DEF Then, Raise, StageKept, Fails

\* No such call changes what was said.
LEMMA OrdinaryStep ==
    ASSUME Step, Ordinary(This)
    PROVE  user' = user /\ said' = said /\ interrupts' = interrupts /\ StageKept
<1> DEFINE Kept == user' = user /\ said' = said /\ interrupts' = interrupts
<1>1. BeginFile \/ RunIf \/ RunFor \/ SetLoopvar \/ RunWhile => Kept /\ StageKept
      BY StageIsKept, Zenon DEF BeginFile, RunIf, RunFor, SetLoopvar, RunWhile, ByUser, ghosts
<1>2. Configure \/ TellEngine => Kept /\ StageKept
  <2>1. ASSUME Configure \/ TellEngine PROVE Kept
        BY <2>1, Zenon DEF Configure, Calls, TellEngine, ByUser, ghosts
  <2>2. ASSUME Configure \/ TellEngine PROVE \E calls : Then(calls)
        BY <2>2, Zenon DEF Configure, TellEngine
  <2> QED BY <2>1, <2>2, StageIsKept, Zenon
<1>3. RefuseSetting \/ RegisterHook \/ EnablePlugin \/ Throw => Kept /\ StageKept
      BY StageIsKept, Zenon DEF RefuseSetting, RegisterHook, EnablePlugin, Throw, ByUser, ghosts
<1>4. PutVariable => Kept /\ StageKept
      BY Zenon DEF PutVariable, ByUser, ghosts, StageKept
<1>5. Notice \/ AssignVariable \/ ExportVariable \/ SourceFile => Kept /\ StageKept
      BY StageIsKept, Zenon DEF Notice, AssignVariable, ExportVariable, SourceFile, ByUser, ghosts
<1>6. Activate \/ Deactivate \/ PutLocalsBack \/ ImportProfile => Kept /\ StageKept
      BY StageIsKept, Zenon DEF Activate, Deactivate, PutLocalsBack, ImportProfile, ByUser, ghosts
<1>7. LoadPlugin \/ StageCall \/ Validate \/ PublishTable => Kept /\ StageKept
      BY StageIsKept, Zenon DEF LoadPlugin, StageCall, Validate, PublishTable, ByUser, ghosts
<1>8. InvokeCommand \/ LoadDeclarative \/ LoadPython \/ DiscoverPlugins \/ RunStartupHooks => Kept /\ StageKept
      BY StageIsKept, Zenon DEF InvokeCommand, LoadDeclarative, LoadPython, DiscoverPlugins,
         RunStartupHooks, ByUser, ghosts
<1>9. EndFrame => Kept /\ StageKept
  <2>1. ASSUME EndFrame PROVE This.frame \notin {"typed", "prompt"}
    <3>1. This.do = "end"
          BY <2>1, Does, Zenon
    <3> QED BY <3>1, Zenon DEF Ordinary
  <2>2. ASSUME EndFrame PROVE This.frame # "typed" /\ This.frame # "prompt"
        BY <2>1, <2>2
  <2> QED BY <2>2, Zenon DEF EndFrame, ByUser, ghosts, StageKept
<1>10. ~RunHook /\ ~StartPrompt /\ ~Save
       BY Does DEF Ordinary
<1> QED BY <1>1, <1>2, <1>3, <1>4, <1>5, <1>6, <1>7, <1>8, <1>9, <1>10, Zenon DEF Step

\* When the head is quiet, the tables can be served.
LEMMA QuietServed == ASSUME IInv, work # <<>>, Quiet(This) PROVE Served /\ Ordinary(This)
<1>1. This.do \in QuietDo /\ (This.do = "end" => This.frame \in QuietFrames)
      BY QuietDoes, Zenon
<1>2. HeadKind
      BY HeadKinds
<1>3. ~Early(This, Ours)
      BY <1>1 DEF Early, QuietDo, Phase
<1>4. This # Phase("discover") /\ \A i : This # LoadCall(i)
      BY <1>1 DEF QuietDo, Phase, LoadCall
<1>5. This.do \notin {"stage", "validate", "publish"}
      BY <1>1 DEF QuietDo
<1>6. \A i, raised : This # RegisterEnd(i, raised)
  <2>1. \A i, raised : RegisterEnd(i, raised).do = "end" /\ RegisterEnd(i, raised).frame = "register"
        BY DEF RegisterEnd
  <2>2. "register" \notin QuietFrames
        BY DEF QuietFrames
  <2> QED BY <1>1, <2>1, <2>2, Zenon
<1>7. ~Late(This)
  <2>1. This.do \notin {"run", "save", "phase"}
        BY <1>1 DEF QuietDo
  <2>2. This \notin {Phase("user hooks"), Phase("plugin hooks"), Phase("prompt")}
    <3>1. \A name : Phase(name).do = "phase"
          BY DEF Phase
    <3>2. This.do # "phase"
          BY <2>1
    <3> QED BY <3>1, <3>2, Zenon
  <2>3. This \notin EndItem({"typed", "prompt"})
        BY <1>1 DEF EndItem, QuietFrames
  <2> QED BY <2>1, <2>2, <2>3 DEF Late
<1>8. Ordinary(This)
      BY QuietPrior DEF Prior, Ordinary
<1> QED BY <1>2, <1>3, <1>4, <1>5, <1>6, <1>7, <1>8, Zenon DEF HeadKind

(***************************************************************************)
(* The hooks of a kind are run one after the other.                        *)
(***************************************************************************)
Rising(s) == \A i, j \in DOMAIN s : i < j => s[i] < s[j]

\* Of the first j hooks some were run, in their order, and all without Ctrl+C.
Heard(kind, j) ==
    /\ said[kind] \in Seq(1..j) /\ Rising(said[kind])
    /\ interrupts = 0 => said[kind] = [i \in 1..j |-> i]

\* The hooks behind j are to be run, and before them q is left to do for one of the first j.
Running(kind, last, j, q) ==
    /\ j \in 0..Len(hooks[kind]) /\ Heard(kind, j)
    /\ List(q, QuietWork) /\ Sheltered(q)
    /\ work = q \o (RunFrom(kind, j) \o <<last>>)

HooksLeft(kind, last) == \E j, q : Running(kind, last, j, q)

\* No hook has been run.
LEMMA HeardNone == ASSUME NEW kind, said[kind] = <<>> PROVE Heard(kind, 0)
<1>1. <<>> \in Seq(1..0) /\ DOMAIN <<>> = {}
      OBVIOUS
<1>2. <<>> = [i \in 1..0 |-> i]
      OBVIOUS
<1> QED BY <1>1, <1>2, Zenon DEF Heard, Rising

\* The next hook is run.
LEMMA HeardNext ==
    ASSUME NEW kind, NEW j \in Nat, Heard(kind, j), interrupts' = interrupts,
           said'[kind] = Append(said[kind], j + 1)
    PROVE  Heard(kind, j + 1)'
<1> DEFINE s == said[kind]
           t == Append(s, j + 1)
<1>1. s \in Seq(1..j) /\ Rising(s) /\ (interrupts = 0 => s = [i \in 1..j |-> i])
      BY Zenon DEF Heard
<1> HIDE DEF s
<1>2. /\ Len(s) \in Nat /\ DOMAIN s = 1..Len(s) /\ \A i \in 1..Len(s) : s[i] \in 1..j
      /\ DOMAIN t = 1..(Len(s) + 1) /\ t[Len(s) + 1] = j + 1
      /\ \A i \in 1..Len(s) : t[i] = s[i]
      BY <1>1
<1>3. t \in Seq(1..(j + 1))
  <2>1. s \in Seq(1..(j + 1))
    <3>1. 1..j \subseteq 1..(j + 1)
          OBVIOUS
    <3> QED BY <1>1, <3>1
  <2>2. j + 1 \in 1..(j + 1)
        OBVIOUS
  <2> QED BY <2>1, <2>2
<1> HIDE DEF t
<1>4. Rising(t)
  <2>1. ASSUME NEW a \in DOMAIN t, NEW b \in DOMAIN t, a < b PROVE t[a] < t[b]
    <3>1. a \in 1..Len(s) /\ t[a] = s[a] /\ s[a] \in 1..j
          BY <1>2, <2>1
    <3>2. CASE b = Len(s) + 1
          BY <1>2, <3>1, <3>2
    <3>3. CASE b # Len(s) + 1
      <4>1. b \in 1..Len(s) /\ t[b] = s[b]
            BY <1>2, <2>1, <3>3
      <4>2. s[a] < s[b]
            BY <1>1, <1>2, <2>1, <3>1, <4>1, Zenon DEF Rising
      <4> QED BY <3>1, <4>1, <4>2
    <3> QED BY <3>2, <3>3
  <2> QED BY <2>1, Zenon DEF Rising
<1>5. ASSUME interrupts = 0 PROVE t = [i \in 1..(j + 1) |-> i]
  <2>1. s = [i \in 1..j |-> i]
        BY <1>1, <1>5
  <2>2. Len(s) = j
        BY <1>1, <2>1
  <2>3. \A i \in 1..j : t[i] = i
        BY <1>2, <2>1, <2>2
  <2>4. \A i \in 1..(j + 1) : i \in 1..j \/ i = j + 1
        OBVIOUS
  <2>5. DOMAIN t = 1..(j + 1) /\ \A i \in 1..(j + 1) : t[i] = i
        BY <1>2, <2>2, <2>3, <2>4
  <2>6. t = [i \in DOMAIN t |-> t[i]]
        BY <1>3
  <2> QED BY <2>5, <2>6
<1> QED BY <1>3, <1>4, <1>5, Zenon DEF Heard, t, s

\* Ctrl+C may pass a hook over.
LEMMA HeardPast ==
    ASSUME NEW kind, NEW j \in Nat, Heard(kind, j), said' = said, interrupts' # 0
    PROVE  Heard(kind, j)' /\ Heard(kind, j + 1)'
<1>1. 1..j \subseteq 1..(j + 1)
      OBVIOUS
<1>2. said[kind] \in Seq(1..j) /\ Rising(said[kind])
      BY Zenon DEF Heard
<1>3. said[kind] \in Seq(1..(j + 1))
      BY <1>1, <1>2
<1> QED BY <1>2, <1>3, Zenon DEF Heard

\* Nothing else changes it.
LEMMA HeardSame ==
    ASSUME NEW kind, NEW j, Heard(kind, j), said'[kind] = said[kind], interrupts' = interrupts \/ interrupts' # 0
    PROVE  Heard(kind, j)'
BY Zenon DEF Heard

\* The stage changes with an exception that leaves nothing to be done, only.
LEMMA RaiseStages ==
    /\ \A kind : Raise(kind) => (work' # <<>> => stage' = stage) /\ (work' = <<>> => Fails)
    /\ StageKept /\ work' # <<>> => stage' = stage
BY Zenon DEF Raise, Fails, StageKept

\* What is left to be done for the hooks behind j.
Before(kind, last, j) == RunFrom(kind, j) \o <<last>>

\* It begins with the next of them.
LEMMA BeforeIs ==
    ASSUME Typed, NEW kind \in Range(HookKinds), NEW last, NEW j \in 0..Len(hooks[kind])
    PROVE  /\ IsList(Before(kind, last, j)) /\ Before(kind, last, j) # <<>>
           /\ j = Len(hooks[kind]) => Before(kind, last, j) = <<last>>
           /\ j < Len(hooks[kind]) =>
                /\ j + 1 \in DOMAIN hooks[kind] /\ j + 1 \in 0..Len(hooks[kind])
                /\ Before(kind, last, j) =
                      <<RunItem(kind, j + 1)>> \o (HookBody(kind, j + 1) \o Before(kind, last, j + 1))
<1>1. IsList(RunFrom(kind, j)) /\ j \in Nat /\ IsList(<<last>>)
      BY RunsAre, Joins
<1>2. IsList(Before(kind, last, j))
      BY <1>1, JoinIsList, Zenon DEF Before
<1>3. Before(kind, last, j) # <<>>
  <2>1. <<last>> # <<>>
        OBVIOUS
  <2> QED BY <1>1, <2>1, JoinNotEmpty, Zenon DEF Before
<1>4. ASSUME j = Len(hooks[kind]) PROVE Before(kind, last, j) = <<last>>
  <2>1. RunFrom(kind, j) = <<>>
        BY <1>4, RunNext
  <2> QED BY <1>1, <2>1, Joins, Zenon DEF Before
<1>5. ASSUME j < Len(hooks[kind])
      PROVE  /\ j + 1 \in DOMAIN hooks[kind] /\ j + 1 \in 0..Len(hooks[kind])
             /\ Before(kind, last, j) =
                   <<RunItem(kind, j + 1)>> \o (HookBody(kind, j + 1) \o Before(kind, last, j + 1))
  <2> DEFINE i == j + 1
             c == <<RunItem(kind, i)>>
             b == HookBody(kind, i)
             r == RunFrom(kind, i)
             e == <<last>>
  <2>1. /\ i \in DOMAIN hooks[kind] /\ i \in 0..Len(hooks[kind])
        /\ RunFrom(kind, j) = HookRun(kind, i) \o r
        BY <1>5, RunNext
  <2>2. HookRun(kind, i) = c \o b /\ IsList(b)
        BY <2>1, HookRunIs, Zenon
  <2>3. IsList(r) /\ IsList(c) /\ IsList(e)
    <3>1. i \in Nat
          BY <1>1
    <3> QED BY <3>1, RunsAre, Joins, Zenon
  <2> HIDE DEF c, b, r, e
  <2>4. IsList(r \o e) /\ IsList(c \o b)
        BY <2>2, <2>3, JoinIsList, Zenon
  <2>5. JoinsEitherWay(c, b, r \o e) /\ JoinsEitherWay(c \o b, r, e)
        BY <2>2, <2>3, <2>4, ThreeJoined, Zenon
  <2>6. ((c \o b) \o r) \o e = c \o (b \o (r \o e))
        BY <2>5, Zenon DEF JoinsEitherWay
  <2>7. Before(kind, last, j) = ((c \o b) \o r) \o e
        BY <2>1, <2>2, Zenon DEF Before, e
  <2>8. Before(kind, last, i) = r \o e
        BY Zenon DEF Before, r, e
  <2> QED BY <2>1, <2>6, <2>7, <2>8, Zenon DEF c, b
<1> QED BY <1>2, <1>3, <1>4, <1>5, Zenon

\* With the tables unchanged it is the same.
LEMMA BeforeSame ==
    ASSUME hooks' = hooks
    PROVE  \A kind, last, j : Before(kind, last, j)' = Before(kind, last, j)
BY Zenon DEF Before, RunFrom, RunsBehind, HookRun

\* The hooks are to be run for j of them, and sheltered calls before.
LEMMA RunningIs ==
    ASSUME NEW kind, NEW last, NEW j, NEW q
    PROVE  Running(kind, last, j, q) <=>
              /\ j \in 0..Len(hooks[kind]) /\ Heard(kind, j)
              /\ List(q, QuietWork) /\ Sheltered(q) /\ work = q \o Before(kind, last, j)
BY Zenon DEF Running, Before

LEMMA RunningTo ==
    ASSUME hooks' = hooks, NEW kind, NEW last, NEW j \in 0..Len(hooks[kind]), Heard(kind, j)',
           Keeps(Before(kind, last, j), QuietWork, work')
    PROVE  HooksLeft(kind, last)'
<1>1. PICK q : List(q, QuietWork) /\ Sheltered(q) /\ work' = q \o Before(kind, last, j)
      BY Zenon DEF Keeps
<1>2. Before(kind, last, j)' = Before(kind, last, j)
      BY BeforeSame, Zenon
<1>3. (j \in 0..Len(hooks[kind]))'
      OBVIOUS
<1>4. Before(kind, last, j)' = (RunFrom(kind, j) \o <<last>>)'
      BY Zenon DEF Before
<1>5. Running(kind, last, j, q)'
      BY <1>1, <1>2, <1>3, <1>4, Zenon DEF Running
<1> QED BY <1>5, Zenon DEF HooksLeft

\* Hooks that are left leave work, and a hook that has begun is of the plugins.
LEMMA RunningWorks ==
    ASSUME Typed, NEW kind \in Range(HookKinds), NEW last, NEW j, NEW q, Running(kind, last, j, q)
    PROVE  work # <<>> /\ IsList(work)
<1>1. IsList(Before(kind, last, j)) /\ Before(kind, last, j) # <<>> /\ IsList(q) /\ work = q \o Before(kind, last, j)
      BY RunningIs, BeforeIs, Zenon DEF List
<1>2. q \o Before(kind, last, j) # <<>>
      BY <1>1, Ends, Zenon
<1>3. IsList(q \o Before(kind, last, j))
      BY <1>1, JoinIsList, Zenon
<1> QED BY <1>1, <1>2, <1>3, Zenon

\* Behind the body of a hook is the end of its frame.
LEMMA HookShields ==
    ASSUME Typed, NEW kind \in Range(HookKinds), NEW i \in DOMAIN hooks[kind]
    PROVE  \E k \in DOMAIN HookBody(kind, i) : Shields(HookBody(kind, i)[k])
<1> DEFINE x == hooks[kind][i].body
           e == EndOf("plugin hook")
           y == <<e>>
<1>1. IsList(x)
  <2>1. x \in Program
        BY Zenon DEF Typed, HookList
  <2> QED BY <2>1, Zenon DEF Program, IsList
<1>2. IsList(y) /\ Len(y) = 1 /\ y[1] = e
      BY Joins, Zenon
<1>3. JoinsAt(x, y)
      BY <1>1, <1>2, JoinedAt, Zenon
<1>4. Shields(e)
      BY HookEndShields
<1>5. HookBody(kind, i) = x \o y
      BY Zenon DEF HookBody
<1> HIDE DEF x, y, e
<1>6. Len(x) + 1 \in DOMAIN (x \o y) /\ (x \o y)[Len(x) + 1] = e
      BY <1>2, <1>3 DEF JoinsAt
<1> QED BY <1>4, <1>5, <1>6, Zenon

(***************************************************************************)
(* Steps of the hooks that are run.                                        *)
(***************************************************************************)
Turns == {"startup", "shutdown"}

\* What stays with the session while they are.
Others(kind) ==
    /\ UNCHANGED <<user, plugins, stage, interrupts>> /\ DOMAIN said' = Turns
    /\ \A other \in Turns : other # kind => said'[other] = said[other]

\* What is left to be done for a hook that has begun.
LEMMA RunningQuiet ==
    ASSUME IInv, DOMAIN said = Turns, NEW kind \in Turns, NEW last, NEW j, NEW q,
           Running(kind, last, j, q), q # <<>>, Step
    PROVE  Others(kind) /\ HooksLeft(kind, last)'
<1>t. Typed /\ user \in Users /\ kind \in Range(HookKinds)
      BY Kinds DEF IInv, Turns
<1>1. /\ j \in 0..Len(hooks[kind]) /\ Heard(kind, j)
      /\ List(q, QuietWork) /\ Sheltered(q) /\ work = q \o Before(kind, last, j)
      BY RunningIs, Zenon
<1>2. IsList(Before(kind, last, j)) /\ Before(kind, last, j) # <<>> /\ IsList(q)
      BY <1>t, <1>1, BeforeIs, Zenon DEF List
<1>3. This = Head(q) /\ work # <<>>
  <2>1. work # <<>>
        BY <1>t, RunningWorks, Zenon
  <2>2. Head(q \o Before(kind, last, j)) = Head(q)
        BY <1>2, Ends, Zenon
  <2> QED BY <1>1, <2>1, <2>2, Zenon DEF This
<1>4. Served /\ Ordinary(This)
  <2>1. Quiet(This)
        BY <1>1, <1>3, ListHead, FitsKinds, Zenon
  <2> QED BY <1>3, <2>1, QuietServed, Zenon
<1>5. Keeps(Before(kind, last, j), QuietWork, work') /\ UNCHANGED <<user, plugins>>
      BY <1>t, <1>1, <1>2, <1>4, ShelteredStep, Zenon
<1>6. user' = user /\ said' = said /\ interrupts' = interrupts /\ StageKept
      BY <1>4, OrdinaryStep, Zenon
<1>7. stage' = stage
  <2>1. PICK new : IsList(new) /\ work' = new \o Before(kind, last, j)
        BY <1>5, Zenon DEF Keeps, List
  <2>2. new \o Before(kind, last, j) # <<>>
        BY <1>2, <2>1, JoinNotEmpty, Zenon
  <2> QED BY <1>6, <2>1, <2>2, RaiseStages, Zenon
<1>8. Heard(kind, j)'
      BY <1>1, <1>6, HeardSame, Zenon
<1>9. hooks' = hooks
      BY <1>5 DEF plugins
<1>10. HooksLeft(kind, last)'
       BY <1>1, <1>5, <1>8, <1>9, RunningTo, Zenon
<1> QED BY <1>5, <1>6, <1>7, <1>10, Zenon DEF Others

\* The next hook is begun.
LEMMA RunningNext ==
    ASSUME IInv, DOMAIN said = Turns, NEW kind \in Turns, NEW last, NEW j,
           Running(kind, last, j, <<>>), j # Len(hooks[kind]), Step
    PROVE  Others(kind) /\ HooksLeft(kind, last)'
<1>t. Typed /\ user \in Users /\ kind \in Range(HookKinds)
      BY Kinds DEF IInv, Turns
<1> DEFINE c == RunItem(kind, j + 1)
           b == HookBody(kind, j + 1)
           r == Before(kind, last, j + 1)
<1>1. j \in 0..Len(hooks[kind]) /\ Heard(kind, j) /\ work = <<>> \o Before(kind, last, j)
      BY RunningIs, Zenon
<1>2. j \in Nat /\ j < Len(hooks[kind])
      BY <1>t, <1>1, RunsAre
<1>3. /\ j + 1 \in DOMAIN hooks[kind] /\ j + 1 \in 0..Len(hooks[kind])
      /\ Before(kind, last, j) = <<c>> \o (b \o r)
      BY <1>t, <1>1, <1>2, BeforeIs, Zenon
<1>4. IsList(b) /\ List(b, QuietWork) /\ Sheltered(b) /\ IsList(r)
      BY <1>t, <1>3, HookRunIs, BeforeIs, Zenon
<1>5. work = <<c>> \o (b \o r) /\ IsList(b \o r)
  <2>1. IsList(Before(kind, last, j))
        BY <1>t, <1>1, BeforeIs, Zenon
  <2>2. <<>> \o Before(kind, last, j) = Before(kind, last, j)
        BY <2>1, Joins, Zenon
  <2>3. IsList(b \o r)
        BY <1>4, JoinIsList, Zenon
  <2> QED BY <1>1, <1>3, <2>2, <2>3, Zenon
<1>c. c.do = "run" /\ c.key = kind /\ c.of = j + 1
      BY DEF RunItem
<1> HIDE DEF c, b, r
<1>6. This = c /\ Tail(work) = b \o r
      BY <1>5, HeadOf, Zenon
<1>7. RunHook
  <2>1. This.do = "run"
        BY <1>6, <1>c
  <2> QED BY <2>1, StepOf
<1>8. /\ said' = [said EXCEPT ![This.key] = Append(@, This.of)]
      /\ UNCHANGED <<user, plugins, stage, interrupts>> /\ work' = <<>> \o Tail(work)
      BY <1>7 DEF RunHook, Then, ByUser
<1>9. work' = b \o r
  <2>1. <<>> \o (b \o r) = b \o r
        BY <1>5, Joins, Zenon
  <2> QED BY <1>6, <1>8, <2>1, Zenon
<1>10. /\ DOMAIN said' = Turns /\ said'[kind] = Append(said[kind], j + 1)
       /\ \A other \in Turns : other # kind => said'[other] = said[other]
       BY <1>6, <1>8, <1>c
<1>11. Heard(kind, j + 1)'
       BY <1>1, <1>2, <1>8, <1>10, HeardNext
<1>12. hooks' = hooks
       BY <1>8 DEF plugins
<1>13. Keeps(r, QuietWork, work')
       BY <1>4, <1>9, Zenon DEF Keeps
<1>14. HooksLeft(kind, last)'
       BY <1>3, <1>11, <1>12, <1>13, RunningTo, Zenon DEF r
<1> QED BY <1>8, <1>10, <1>14, Zenon DEF Others

\* The hooks of a kind: one is begun, or what one left to do is done, or all were run.
LEMMA HooksStep ==
    ASSUME IInv, DOMAIN said = Turns, NEW kind \in Turns, NEW last, HooksLeft(kind, last), Step
    PROVE  \/ Others(kind) /\ HooksLeft(kind, last)'
           \/ Heard(kind, Len(hooks[kind])) /\ This = last /\ Tail(work) = <<>>
<1>1. PICK j, q : Running(kind, last, j, q)
      BY Zenon DEF HooksLeft
<1>2. CASE q # <<>>
      BY <1>1, <1>2, RunningQuiet, Zenon
<1>3. CASE q = <<>> /\ j # Len(hooks[kind])
      BY <1>1, <1>3, RunningNext, Zenon
<1>4. CASE q = <<>> /\ j = Len(hooks[kind])
  <2>t. Typed /\ kind \in Range(HookKinds)
        BY Kinds DEF IInv, Turns
  <2>1. j \in 0..Len(hooks[kind]) /\ Heard(kind, j) /\ work = <<>> \o Before(kind, last, j)
        BY <1>1, <1>4, RunningIs, Zenon
  <2>2. Before(kind, last, j) = <<last>>
        BY <2>t, <1>4, <2>1, BeforeIs, Zenon
  <2>3. work = <<last>>
        BY <2>1, <2>2
  <2>4. This = last /\ Tail(work) = <<>>
        BY <2>3 DEF This
  <2> QED BY <1>4, <2>1, <2>4, Zenon
<1> QED BY <1>2, <1>3, <1>4, Zenon

\* Ctrl+C while hooks are run: the next goes on, or nothing is left to be done.
LEMMA HooksCtrlC ==
    ASSUME IInv, interrupts \in Nat, NEW kind \in Turns, NEW last, last.do # "end", HooksLeft(kind, last), CtrlC
    PROVE  /\ UNCHANGED <<user, plugins, said>> /\ interrupts' \in Nat /\ interrupts' > 0
           /\ (stage' = stage /\ HooksLeft(kind, last)') \/ (work' = <<>> /\ Fails)
<1>t. Typed /\ user \in Users /\ kind \in Range(HookKinds)
      BY Kinds DEF IInv, Turns
<1>1. PICK j, q : Running(kind, last, j, q)
      BY Zenon DEF HooksLeft
<1>2. /\ j \in 0..Len(hooks[kind]) /\ Heard(kind, j)
      /\ List(q, QuietWork) /\ Sheltered(q) /\ work = q \o Before(kind, last, j)
      BY <1>1, RunningIs, Zenon
<1>3. UNCHANGED <<user, plugins, said>> /\ interrupts' = interrupts + 1 /\ Raise("quit")
      BY Zenon DEF CtrlC, ghosts
<1>4. interrupts' \in Nat /\ interrupts' > 0 /\ interrupts' # 0 /\ j \in Nat
      BY <1>2, <1>3
<1>5. hooks' = hooks
      BY <1>3 DEF plugins
<1> DEFINE r == Before(kind, last, j)
<1>6. work' = UnwoundIn(q \o r, "quit")
      BY <1>2, <1>3, UnwoundIs, Zenon DEF Raise
<1>7. IsList(r)
      BY <1>t, <1>2, BeforeIs, Zenon
<1>8. work' = UnwoundIn(r, "quit") \/ Keeps(r, QuietWork, work')
  <2>1. "quit" \in {"error", "quit"}
        OBVIOUS
  <2> HIDE DEF r
  <2> QED BY <1>2, <1>6, <1>7, <2>1, ShelteredUnwinding, Zenon
<1>9. Heard(kind, j)' /\ Heard(kind, j + 1)'
      BY <1>2, <1>3, <1>4, HeardPast, Zenon
<1>10. ASSUME Keeps(r, QuietWork, work') PROVE HooksLeft(kind, last)'
       BY <1>2, <1>5, <1>9, <1>10, RunningTo, Zenon
<1>11. ASSUME work' = UnwoundIn(r, "quit"), j = Len(hooks[kind]) PROVE work' = <<>>
  <2>1. r = <<last>>
        BY <1>t, <1>2, <1>11, BeforeIs, Zenon
  <2>2. Endless(<<last>>) /\ IsList(<<last>>)
        BY OneEndless
  <2>3. UnwoundIn(<<last>>, "quit") = <<>>
        BY <2>2, UnwindsEndless
  <2> QED BY <1>11, <2>1, <2>3, Zenon
<1>12. ASSUME work' = UnwoundIn(r, "quit"), j # Len(hooks[kind]) PROVE HooksLeft(kind, last)'
  <2> DEFINE c == <<RunItem(kind, j + 1)>>
             b == HookBody(kind, j + 1)
             s == Before(kind, last, j + 1)
  <2>1. j < Len(hooks[kind])
        BY <1>t, <1>2, <1>4, <1>12, RunsAre
  <2>2. /\ j + 1 \in DOMAIN hooks[kind] /\ j + 1 \in 0..Len(hooks[kind])
        /\ r = c \o (b \o s)
        BY <1>t, <1>2, <2>1, BeforeIs, Zenon
  <2>3. IsList(b) /\ List(b, QuietWork) /\ Sheltered(b) /\ IsList(s)
        BY <1>t, <2>2, HookRunIs, BeforeIs, Zenon
  <2>4. IsList(b \o s)
        BY <2>3, JoinIsList, Zenon
  <2>5. Endless(c) /\ IsList(c)
    <3>1. RunItem(kind, j + 1).do # "end"
          BY DEF RunItem
    <3> QED BY <3>1, OneEndless
  <2>6. \E i \in DOMAIN b : Shields(b[i])
        BY <1>t, <2>2, HookShields, Zenon
  <2> HIDE DEF c, b, s
  <2> DEFINE t == b \o s
  <2>7. UnwoundIn(c \o t, "quit") = UnwoundIn(t, "quit")
    <3>1. IsList(t)
          BY <2>4
    <3> HIDE DEF t
    <3>2. \A k : UnwoundIn(c \o t, k) = UnwoundIn(t, k)
      <4>1. SUFFICES ASSUME NEW k PROVE UnwoundIn(c \o t, k) = UnwoundIn(t, k)
            OBVIOUS
      <4>2. Catching(c, k) = {}
            BY <2>5 DEF Catching, Endless
      <4> QED BY <2>5, <3>1, <4>2, UnwindsBehind, Zenon
    <3> QED BY <3>2, Zenon
  <2>8. Keeps(s, QuietWork, UnwoundIn(b \o s, "quit"))
    <3>1. "quit" \in {"error", "quit"}
          OBVIOUS
    <3> QED BY <2>3, <2>6, <3>1, ShelteredUnwinding, Zenon
  <2>9. Keeps(s, QuietWork, work')
        BY <1>12, <2>2, <2>7, <2>8, Zenon
  <2> QED BY <1>5, <1>9, <2>2, <2>9, RunningTo, Zenon DEF s
<1>13. ASSUME HooksLeft(kind, last)' PROVE work' # <<>>
  <2>1. PICK i, p : Running(kind, last, i, p)'
        BY <1>13, Zenon DEF HooksLeft
  <2>2. i \in 0..Len(hooks[kind]) /\ IsList(p) /\ work' = p \o Before(kind, last, i)
    <3>1. (RunFrom(kind, i) \o <<last>>)' = Before(kind, last, i)
          BY <1>5, BeforeSame, Zenon DEF Before
    <3>2. (i \in 0..Len(hooks[kind]))' /\ List(p, QuietWork) /\ work' = p \o (RunFrom(kind, i) \o <<last>>)'
          BY <2>1, Zenon DEF Running
    <3> QED BY <1>5, <3>1, <3>2, Zenon DEF List
  <2>3. IsList(Before(kind, last, i)) /\ Before(kind, last, i) # <<>>
        BY <1>t, <2>2, BeforeIs, Zenon
  <2> DEFINE t == Before(kind, last, i)
  <2>4. p \o t # <<>>
    <3>1. IsList(p) /\ IsList(t) /\ t # <<>>
          BY <2>2, <2>3, Zenon
    <3> HIDE DEF t
    <3> QED BY <3>1, JoinNotEmpty, Zenon
  <2> QED BY <2>2, <2>4, Zenon
<1>14. HooksLeft(kind, last)' \/ work' = <<>>
       BY <1>8, <1>10, <1>11, <1>12, Zenon
<1>15. (work' # <<>> => stage' = stage) /\ (work' = <<>> => Fails)
       BY <1>3, RaiseStages, Zenon
<1>16. (stage' = stage /\ HooksLeft(kind, last)') \/ (work' = <<>> /\ Fails)
  <2>1. CASE HooksLeft(kind, last)'
        BY <1>13, <1>15, <2>1, Zenon
  <2>2. CASE work' = <<>>
        BY <1>15, <2>2, Zenon
  <2> QED BY <1>14, <2>1, <2>2, Zenon
<1> HIDE DEF r
<1> QED BY <1>3, <1>4, <1>16

(***************************************************************************)
(* The start, up to the hooks of the plugins.                              *)
(***************************************************************************)
\* What is done before the discovery, and what a plugin's file comes to, is done before them.
LEMMA PriorKinds ==
    /\ \A c, m : Early(c, m) => Prior(c)
    /\ \A i, raised : Prior(RegisterEnd(i, raised)) /\ Prior(LoadCall(i))
    /\ Prior(Phase("discover")) /\ Prior(Phase("user hooks"))
<1>1. ASSUME NEW c, NEW m, Early(c, m) PROVE Prior(c)
  <2>1. CASE c.do \in {"enable", "disable", "allow"}
        BY <2>1 DEF Prior
  <2>2. CASE c.do = "declare"
        BY <2>2 DEF Prior
  <2>3. CASE c = Phase("configure")
    <3>1. c.do = "phase" /\ c.key = "configure"
          BY <2>3 DEF Phase
    <3> QED BY <3>1 DEF Prior
  <2> QED BY <1>1, <2>1, <2>2, <2>3, Zenon DEF Early
<1>3. ASSUME NEW i, NEW raised PROVE Prior(RegisterEnd(i, raised)) /\ Prior(LoadCall(i))
      BY DEF Prior, RegisterEnd, LoadCall
<1>4. Prior(Phase("discover")) /\ Prior(Phase("user hooks"))
      BY DEF Prior, Phase
<1> QED BY <1>1, <1>3, <1>4, Zenon

\* Late work that is done before them.
LEMMA LatePrior == ASSUME NEW c, Late(c), Prior(c) PROVE c = Phase("user hooks")
<1>1. c.do \notin {"run", "save"}
      BY DEF Prior
<1>2. c # Phase("plugin hooks") /\ c # Phase("prompt")
  <2>1. \A name : Phase(name).do = "phase" /\ Phase(name).key = name
        BY DEF Phase
  <2>2. c.do = "phase" => c.key # "plugin hooks" /\ c.key # "prompt"
        BY DEF Prior
  <2> QED BY <2>1, <2>2, Zenon
<1>3. c \notin EndItem({"typed", "prompt"})
      BY DEF Prior, EndItem
<1> QED BY <1>1, <1>2, <1>3 DEF Late

\* The files that are to be loaded.
LEMMA LoadingPrior ==
    ASSUME user \in Users PROVE List(Loading(user.files), PriorWork)
<1> DEFINE n == Len(user.files)
           s == [i \in DOMAIN user.files |-> IF Verdict(user.files, i) = "discovered" THEN Load(i) ELSE <<>>]
<1>1. n \in Nat /\ DOMAIN user.files = 1..n
      BY FilesOf, Zenon
<1>2. \A i : List(Load(i), PriorWork)
  <2>1. ASSUME NEW i PROVE List(Load(i), PriorWork)
    <3>1. Fits(LoadCall(i), PriorWork) /\ Fits(RegisterEnd(i, FALSE), PriorWork)
          BY PriorKinds, FitsPrior, Zenon
    <3> QED BY <3>1, ListPair, LoadPair, Zenon
  <2> QED BY <2>1
<1> HIDE DEF n
<1>3. s = [i \in 1..n |-> s[i]] /\ \A i \in 1..n : List(s[i], PriorWork)
      BY <1>1, <1>2, ListEmpty, Zenon
<1> HIDE DEF s
<1>4. List(FlattenSeq(s), PriorWork)
      BY <1>1, <1>3, ListFlat
<1> QED BY <1>4, Zenon DEF Loading, s

\* A plugin's register, and what follows it.
LEMMA RegisterPrior ==
    ASSUME user \in Users, NEW m \in DOMAIN user.files
    PROVE  List(user.files[m].register \o <<[do |-> "validate"]>> \o Publications, PriorWork)
<1> DEFINE r == Register(m)
           v == <<[do |-> "validate"]>>
<1>1. List(r, PriorWork)
  <2>1. /\ IsList(r) /\ DOMAIN r = 1..Len(r)
        /\ \A i \in 1..Len(r) : Fits(r[i], QuietWork) \/ r[i].do = "stage"
        BY RegisterIs, Zenon
  <2> HIDE DEF r
  <2>2. ASSUME NEW i \in 1..Len(r) PROVE Prior(r[i])
    <3>1. CASE Fits(r[i], QuietWork)
          BY <3>1, FitsKinds, QuietPrior, Zenon
    <3>2. CASE r[i].do = "stage"
          BY <3>2 DEF Prior
    <3> QED BY <2>1, <3>1, <3>2, Zenon
  <2> QED BY <2>1, <2>2, FitsPrior, Zenon DEF List
<1>2. List(v, PriorWork)
  <2> DEFINE c == [do |-> "validate"]
  <2>1. Prior(c)
        BY DEF Prior
  <2> HIDE DEF c
  <2>2. Fits(c, PriorWork)
        BY <2>1, FitsPrior, Zenon
  <2> QED BY <2>2, ListOne, Zenon DEF c
<1>3. List(Publications, PriorWork)
  <2>1. IsList(Publications) /\ DOMAIN Publications = 1..6
        BY Publishes, Ends, Zenon
  <2>2. \A k : Prior([do |-> "publish", key |-> k])
        BY DEF Prior
  <2>3. \A i \in 1..6 : Prior(Publications[i])
        BY <2>2, Publishes, Zenon
  <2> QED BY <2>1, <2>3, FitsPrior, Zenon DEF List
<1>4. user.files[m].register = r
      BY Zenon DEF Register
<1> HIDE DEF r, v
<1> QED BY <1>1, <1>2, <1>3, <1>4, ListJoin, Zenon DEF v

\* One step of what is done before the hooks: more of it, or an exception.
LEMMA PriorStep ==
    ASSUME IInv, work # <<>>, IsList(work), Prior(This), Step
    PROVE  Adds(PriorWork) \/ Throws
<1>u. user \in Users /\ Typed /\ StagedTyped
      BY DEF IInv
<1>a. ASSUME NEW calls, List(calls, PriorWork), Then(calls) PROVE Adds(PriorWork)
      BY <1>a, ThenAdds, Zenon
<1>e. List(<<>>, PriorWork)
      BY ListEmpty
<1>x. ASSUME Raise("error") PROVE Throws
  <2>1. "error" \in {"error", "quit"}
        OBVIOUS
  <2> QED BY <1>x, <2>1, RaiseThrows, Zenon
<1>1. CASE Quiet(This) /\ Served
      BY <1>u, <1>1, QuietStep, QuietAdds, Zenon
<1>2. CASE Early(This, Ours)
  <2>1. Adds(EarlyWork(Ours)) \/ Throws
        BY <1>u, <1>2, EarlyMoves, Zenon
  <2>2. \A x : List(x, EarlyWork(Ours)) => List(x, PriorWork)
        BY FitsKinds, FitsPrior, QuietPrior, PriorKinds, Zenon DEF List
  <2> QED BY <2>1, <2>2, Zenon DEF Adds
<1>3. CASE This = Phase("discover")
  <2>1. This.do = "phase" /\ This.key = "discover"
        BY <1>3 DEF Phase
  <2>2. DiscoverPlugins
        BY <2>1, StepOf, Zenon
  <2> QED BY <1>u, <1>a, <2>2, LoadingPrior, Zenon DEF DiscoverPlugins
<1>4. ASSUME NEW i \in DOMAIN user.files, This = LoadCall(i) PROVE Adds(PriorWork) \/ Throws
  <2>1. This.do = "load" /\ This.of = i
        BY <1>4 DEF LoadCall
  <2>2. LoadPlugin
        BY <2>1, StepOf, Zenon
  <2>3. user.files[i].fault \in {"none", "error", "quit"}
        BY <1>u, FilesOf, Zenon
  <2>4. CASE user.files[i].fault # "none"
    <3>1. Raise(user.files[i].fault)
          BY <2>1, <2>2, <2>4, Zenon DEF LoadPlugin
    <3>2. user.files[i].fault \in {"error", "quit"}
          BY <2>3, <2>4
    <3> QED BY <3>1, <3>2, RaiseThrows, Zenon
  <2>5. CASE user.files[i].fault = "none"
    <3>1. Then(user.files[i].register \o <<[do |-> "validate"]>> \o Publications)
          BY <2>1, <2>2, <2>5, Zenon DEF LoadPlugin
    <3> QED BY <1>u, <1>a, <3>1, RegisterPrior, Zenon
  <2> QED BY <2>4, <2>5
<1>5. CASE This.do \in {"stage", "validate", "publish"}
  <2>1. StageCall \/ Validate \/ PublishTable
        BY <1>5, StepOf
  <2>2. Then(<<>>) \/ Raise("error")
        BY <2>1, Zenon DEF StageCall, Validate, PublishTable
  <2> QED BY <1>a, <1>e, <1>x, <2>2, Zenon
<1>6. ASSUME NEW i, NEW raised, This = RegisterEnd(i, raised) PROVE Adds(PriorWork)
  <2>1. work' = Tail(work)
        BY <1>6, EndOfRegister, Zenon
  <2>2. Tail(work) = <<>> \o Tail(work)
        BY Ends, Joins, Zenon
  <2> QED BY <1>e, <2>1, <2>2, Zenon DEF Adds
<1>7. CASE Late(This)
  <2>1. This = Phase("user hooks")
        BY <1>7, LatePrior
  <2>2. This.do = "phase" /\ This.key = "user hooks"
        BY <2>1 DEF Phase
  <2>3. RunStartupHooks
        BY <2>2, StepOf
  <2>4. This.key # "plugin hooks"
        BY <2>2
  <2> DEFINE calls == FlattenSeq([i \in DOMAIN startupHooks |-> startupHooks[i] \o <<EndOf("user hook")>>])
  <2>5. Then(calls)
        BY <2>3, <2>4, Zenon DEF RunStartupHooks, InPhase
  <2>6. List(calls, PriorWork)
        BY <1>u, UserHooksFit, ListWeaker, Zenon DEF Typed
  <2> HIDE DEF calls
  <2> QED BY <1>a, <2>5, <2>6, Zenon
<1> QED BY <1>1, <1>2, <1>3, <1>4, <1>5, <1>6, <1>7, HeadKinds, Zenon DEF HeadKind

(***************************************************************************)
(* The course of a session.                                                *)
(***************************************************************************)
HeardAll(kind) == Heard(kind, Len(hooks[kind]))

\* The hooks of startup, and what is behind them.
HooksAhead == <<Phase("plugin hooks")>> \o <<Phase("prompt")>>

Starting ==
    /\ stage = "starting" /\ said["startup"] = <<>> /\ said["shutdown"] = <<>>
    /\ \E p : List(p, PriorWork) /\ work = p \o HooksAhead

Hooking == /\ stage = "starting" /\ said["shutdown"] = <<>>
           /\ HooksLeft("startup", Phase("prompt"))

\* The end of a line, and that of drawing the prompt.
TypedEnd(raised)  == [do |-> "end", frame |-> "typed", raised |-> raised, of |-> 0]
PromptEnd(raised) == [do |-> "end", frame |-> "prompt", raised |-> raised, of |-> 0]

OnlyPlugins == \A c \in user.lines : c.do \in {"invoke", "put"}

\* A line is read, with q left to do for it.
Reading(q, raised) ==
    /\ List(q, QuietWork) /\ work = q \o <<TypedEnd(raised)>>
    /\ interrupts = 0 /\ OnlyPlugins => Sheltered(q) /\ raised = FALSE

LineNext(call, raised) == <<PromptEnd(raised)>> \o (<<call>> \o <<TypedEnd(FALSE)>>)

\* The prompt of a line is drawn.
Drawing(q, call, raised) ==
    /\ List(q, QuietWork) /\ Sheltered(q) /\ call \in user.lines
    /\ work = q \o LineNext(call, raised)

Lined ==
    \/ work = <<>>
    \/ \E q : \E raised \in BOOLEAN : Reading(q, raised)
    \/ \E q, call : \E raised \in BOOLEAN : Drawing(q, call, raised)

Prompting == stage = "prompt" /\ said["shutdown"] = <<>> /\ HeardAll("startup") /\ Lined

Leaving == stage = "closing" /\ HeardAll("startup") /\ HooksLeft("shutdown", [do |-> "save"])

Ended ==
    /\ work = <<>> /\ stage \in {"ended", "failed", "cut"}
    /\ Rising(said["startup"]) /\ Rising(said["shutdown"])
    /\ stage = "ended" => HeardAll("startup") /\ HeardAll("shutdown")
    /\ stage = "cut" => interrupts > 0
    /\ stage = "failed" => said["shutdown"] = <<>> /\ (interrupts = 0 => said["startup"] = <<>>)

Course ==
    /\ DOMAIN said = Turns /\ interrupts \in Nat
    /\ Starting \/ Hooking \/ Prompting \/ Leaving \/ Ended

\* The hooks of a kind are to be run from the first on.
LEMMA HooksBegin ==
    ASSUME Typed, NEW kind \in Range(HookKinds), said[kind] = <<>>, NEW last, work = Run(kind) \o <<last>>
    PROVE  HooksLeft(kind, last)
<1>1. 0 \in 0..Len(hooks[kind]) /\ IsList(Before(kind, last, 0))
  <2>1. 0 \in 0..Len(hooks[kind])
        BY RunsAre
  <2> QED BY <2>1, BeforeIs, Zenon
<1>2. Run(kind) = RunFrom(kind, 0)
      BY <1>1, RunNext
<1>3. work = <<>> \o Before(kind, last, 0)
  <2>1. <<>> \o Before(kind, last, 0) = Before(kind, last, 0)
        BY <1>1, Joins, Zenon
  <2> QED BY <1>2, <2>1, Zenon DEF Before
<1>4. Heard(kind, 0)
      BY HeardNone, Zenon
<1>5. List(<<>>, QuietWork) /\ Sheltered(<<>>)
      BY ListEmpty, ShelteredOne
<1>6. Running(kind, last, 0, <<>>)
      BY <1>1, <1>3, <1>4, <1>5, RunningIs, Zenon
<1> QED BY <1>6, Zenon DEF HooksLeft

\* So they are after a step that leaves the tables alone.
LEMMA HooksBeginNext ==
    ASSUME Typed, hooks' = hooks, NEW kind \in Range(HookKinds), said'[kind] = <<>>, NEW last,
           work' = Run(kind) \o <<last>>
    PROVE  HooksLeft(kind, last)'
<1>1. 0 \in 0..Len(hooks[kind]) /\ IsList(Before(kind, last, 0))
  <2>1. 0 \in 0..Len(hooks[kind])
        BY RunsAre
  <2> QED BY <2>1, BeforeIs, Zenon
<1>2. Run(kind) = RunFrom(kind, 0)
      BY <1>1, RunNext
<1>3. work' = <<>> \o Before(kind, last, 0)
  <2>1. <<>> \o Before(kind, last, 0) = Before(kind, last, 0)
        BY <1>1, Joins, Zenon
  <2> QED BY <1>2, <2>1, Zenon DEF Before
<1>4. Heard(kind, 0)'
  <2>1. said'[kind] \in Seq(1..0) /\ DOMAIN said'[kind] = {}
        OBVIOUS
  <2>2. said'[kind] = [i \in 1..0 |-> i]
        OBVIOUS
  <2> QED BY <2>1, <2>2, Zenon DEF Heard, Rising
<1>5. Keeps(Before(kind, last, 0), QuietWork, work')
      BY <1>3, ListEmpty, ShelteredOne, Zenon DEF Keeps
<1> QED BY <1>1, <1>4, <1>5, RunningTo, Zenon

\* A session starts on its course.
LEMMA CourseInit == Init => Course
<1> SUFFICES ASSUME Init PROVE Course
    OBVIOUS
<1>1. /\ user \in Users /\ work = Startup(user) /\ stage = "starting" /\ interrupts = 0
      /\ said = [startup |-> <<>>, shutdown |-> <<>>] /\ hooks = NoHooks
      BY Zenon DEF Init, InitPlugins
<1>2. DOMAIN said = Turns /\ interrupts \in Nat /\ said["startup"] = <<>> /\ said["shutdown"] = <<>>
      BY <1>1 DEF Turns
<1>t. Typed /\ "startup" \in Range(HookKinds)
      BY InitInv, Kinds DEF IInv
<1>3. CASE user.norc
  <2> DEFINE p == <<Phase("prompt")>>
  <2>1. work = <<>> \o p
        BY <1>1, <1>3, Zenon DEF Startup
  <2>2. Run("startup") = <<>>
    <3>1. hooks["startup"] = <<>>
          BY <1>1, <1>t, Zenon DEF NoHooks
    <3>2. 0 = Len(hooks["startup"]) /\ 0 \in 0..Len(hooks["startup"])
          BY <3>1
    <3>3. Run("startup") = RunFrom("startup", 0) /\ RunFrom("startup", 0) = <<>>
          BY <1>t, <3>2, RunNext
    <3> QED BY <3>3
  <2>3. HooksLeft("startup", Phase("prompt"))
        BY <1>2, <1>t, <2>1, <2>2, HooksBegin, Zenon
  <2> QED BY <1>1, <1>2, <2>3, Zenon DEF Course, Hooking
<1>4. CASE ~user.norc
  <2> DEFINE d == <<Phase("discover")>>
             a == <<Phase("user hooks")>>
             b == <<Phase("plugin hooks")>>
             c == <<Phase("prompt")>>
  <2>1. PICK q : List(q, EarlyWork(Ours)) /\ Startup(user) = q \o Discovery
        BY <1>1, <1>4, StartsAwaiting, Zenon
  <2>2. After = (a \o b) \o c /\ Discovery = d \o After
        BY AfterIs, Zenon DEF Discovery
  <2>3. IsList(a) /\ IsList(b) /\ IsList(c) /\ IsList(d) /\ IsList(q)
        BY <2>1, Joins, Zenon DEF List
  <2>4. List(q, PriorWork) /\ List(d, PriorWork) /\ List(a, PriorWork)
    <3>1. List(q, PriorWork)
          BY <2>1, FitsKinds, FitsPrior, QuietPrior, PriorKinds, Zenon DEF List
    <3>2. Fits(Phase("discover"), PriorWork) /\ Fits(Phase("user hooks"), PriorWork)
          BY FitsPrior, PriorKinds, Zenon
    <3> QED BY <3>1, <3>2, ListOne, Zenon
  <2>5. HooksAhead = b \o c
        BY Zenon DEF HooksAhead
  <2> HIDE DEF a, b, c, d
  <2>6. IsList(b \o c) /\ IsList(q \o d)
        BY <2>3, JoinIsList, Zenon
  <2>7. JoinsEitherWay(a, b, c) /\ JoinsEitherWay(q \o d, a, b \o c) /\ JoinsEitherWay(q, d, a \o (b \o c))
    <3>1. IsList(a \o (b \o c))
          BY <2>3, <2>6, JoinIsList, Zenon
    <3> QED BY <2>3, <2>6, <3>1, ThreeJoined, Zenon
  <2>8. work = ((q \o d) \o a) \o HooksAhead
        BY <1>1, <2>1, <2>2, <2>5, <2>7, Zenon DEF JoinsEitherWay
  <2>9. List((q \o d) \o a, PriorWork)
        BY <2>4, ListJoin, ZenonT(60)
  <2> QED BY <1>1, <1>2, <2>8, <2>9, Zenon DEF Course, Starting
<1> QED BY <1>3, <1>4

\* Every step has work to do.
LEMMA StepWorks == Step => work # <<>>
BY DEF Step, Doing, BeginFile, RunIf, RunFor, SetLoopvar, RunWhile, Configure, Calls, TellEngine,
   RefuseSetting, RegisterHook, EnablePlugin, Throw, PutVariable, Notice, AssignVariable, ExportVariable, SourceFile,
   Activate, Deactivate, PutLocalsBack, ImportProfile, LoadPlugin, StageCall, Validate, PublishTable,
   RunHook, InvokeCommand, LoadDeclarative, LoadPython, DiscoverPlugins, RunStartupHooks, StartPrompt,
   InPhase, EndFrame, Save

\* The hooks of startup that are ahead.
LEMMA AheadIs ==
    /\ IsList(HooksAhead) /\ HooksAhead # <<>> /\ IsList(<<Phase("prompt")>>)
    /\ \A kind : UnwoundIn(HooksAhead, kind) = <<>>
<1> DEFINE a == <<Phase("plugin hooks")>>
           b == <<Phase("prompt")>>
<1>1. Endless(a) /\ IsList(a) /\ Endless(b) /\ IsList(b)
  <2>1. \A name : Phase(name).do # "end"
        BY DEF Phase
  <2> QED BY <2>1, OneEndless, Zenon
<1>2. a # <<>>
      OBVIOUS
<1>3. HooksAhead = a \o b
      BY Zenon DEF HooksAhead
<1> HIDE DEF a
<1>4. IsList(a \o b) /\ a \o b # <<>>
      BY <1>1, <1>2, JoinIsList, JoinNotEmpty, Zenon
<1>5. ASSUME NEW kind PROVE UnwoundIn(a \o b, kind) = <<>>
  <2>1. UnwoundIn(a \o b, kind) = UnwoundIn(b, kind)
        BY <1>1, UnwindsEndless
  <2>2. UnwoundIn(b, kind) = <<>>
        BY <1>1, UnwindsEndless
  <2> QED BY <2>1, <2>2
<1> QED BY <1>1, <1>3, <1>4, <1>5, Zenon

\* At the start, one more call, or an exception that ends it.
LEMMA StartingOnward ==
    ASSUME DOMAIN said = Turns, interrupts \in Nat, Starting, said' = said, interrupts' \in Nat,
           Onward(HooksAhead, PriorWork), work' # <<>> => stage' = stage
    PROVE  Course'
<1>1. stage = "starting" /\ said["startup"] = <<>> /\ said["shutdown"] = <<>>
      BY DEF Starting
<1>2. CASE \E new : List(new, PriorWork) /\ work' = new \o HooksAhead
  <2>1. PICK new : List(new, PriorWork) /\ work' = new \o HooksAhead
        BY <1>2
  <2>2. work' # <<>>
    <3>1. IsList(new)
          BY <2>1, Zenon DEF List
    <3> QED BY <2>1, <3>1, AheadIs, JoinNotEmpty, Zenon
  <2>3. HooksAhead' = HooksAhead
        BY Zenon DEF HooksAhead, Phase
  <2>4. Starting'
        BY <1>1, <2>1, <2>2, <2>3, Zenon DEF Starting
  <2> QED BY <2>4, Zenon DEF Course, Turns
<1>3. CASE \E kind \in {"error", "quit"} : work' = UnwoundIn(HooksAhead, kind) /\ (work' = <<>> => Fails)
  <2>1. work' = <<>> /\ Fails
        BY <1>3, AheadIs, Zenon
  <2>2. stage' = "failed"
        BY <1>1, <2>1 DEF Fails
  <2>3. Rising(<<>>)
    <3>1. DOMAIN <<>> = {}
          OBVIOUS
    <3> QED BY <3>1, Zenon DEF Rising
  <2>4. Ended'
    <3>1. said'["startup"] = <<>> /\ said'["shutdown"] = <<>>
          BY <1>1
    <3>2. stage' # "ended" /\ stage' # "cut" /\ stage' \in {"ended", "failed", "cut"}
          BY <2>2
    <3> QED BY <2>1, <2>3, <3>1, <3>2, Zenon DEF Ended
  <2> QED BY <2>4, Zenon DEF Course, Turns
<1> QED BY <1>2, <1>3, Zenon DEF Onward

\* At the start, one step.
LEMMA StartingStep ==
    ASSUME IInv, DOMAIN said = Turns, interrupts \in Nat, Starting, Step
    PROVE  Course'
<1>1. PICK p : List(p, PriorWork) /\ work = p \o HooksAhead
      BY Zenon DEF Starting
<1>2. IsList(p) /\ IsList(work) /\ work # <<>>
  <2>1. IsList(p)
        BY <1>1, Zenon DEF List
  <2> QED BY <1>1, <2>1, AheadIs, JoinIsList, JoinNotEmpty, Zenon
<1>3. CASE p # <<>>
  <2>1. This = Head(p)
    <3>1. Head(p \o HooksAhead) = Head(p)
          BY <1>2, <1>3, AheadIs, HeadJoined, Zenon
    <3> QED BY <1>1, <3>1, Zenon DEF This
  <2>2. Prior(This)
        BY <1>1, <1>3, <2>1, ListHead, FitsPrior, Zenon
  <2>3. Ordinary(This)
        BY <2>2 DEF Prior, Ordinary
  <2>4. said' = said /\ interrupts' = interrupts /\ StageKept
        BY <2>3, OrdinaryStep, Zenon
  <2>5. Adds(PriorWork) \/ Throws
        BY <1>2, <2>2, PriorStep, Zenon
  <2>6. Onward(HooksAhead, PriorWork)
        BY <1>1, <1>3, <2>5, AheadIs, AddsOnward, ThrowsOnward, Zenon
  <2> QED BY <2>4, <2>6, RaiseStages, StartingOnward, Zenon
<1>4. CASE p = <<>>
  <2>1. work = <<Phase("plugin hooks")>> \o <<Phase("prompt")>>
    <3>1. <<>> \o HooksAhead = HooksAhead
          BY AheadIs, Joins, Zenon
    <3> QED BY <1>1, <1>4, <3>1, Zenon DEF HooksAhead
  <2>2. This = Phase("plugin hooks") /\ Tail(work) = <<Phase("prompt")>>
        BY <2>1, AheadIs, HeadOf, Zenon
  <2>3. This.do = "phase" /\ This.key = "plugin hooks"
        BY <2>2 DEF Phase
  <2>4. RunStartupHooks
        BY <2>3, StepOf
  <2>5. Then(Run("startup")) /\ UNCHANGED <<plugins, ghosts>> /\ ByUser
    <3>1. This.key # "user hooks"
          BY <2>3
    <3> QED BY <2>4, <3>1, Zenon DEF RunStartupHooks, InPhase
  <2>6. /\ work' = Run("startup") \o <<Phase("prompt")>> /\ stage' = stage
        /\ said' = said /\ interrupts' = interrupts /\ hooks' = hooks
        BY <2>2, <2>5 DEF Then, ByUser, ghosts, plugins
  <2>7. stage = "starting" /\ said["startup"] = <<>> /\ said["shutdown"] = <<>>
        BY DEF Starting
  <2>8. Typed /\ "startup" \in Range(HookKinds)
        BY Kinds DEF IInv
  <2>9. said'["startup"] = <<>> /\ said'["shutdown"] = <<>>
        BY <2>6, <2>7
  <2>10. HooksLeft("startup", Phase("prompt"))'
         BY <2>6, <2>8, <2>9, HooksBeginNext, Zenon
  <2>11. Phase("prompt")' = Phase("prompt")
         BY Zenon DEF Phase
  <2>12. Hooking'
         BY <2>6, <2>7, <2>9, <2>10, <2>11, Zenon DEF Hooking
  <2> QED BY <2>6, <2>12, Zenon DEF Course, Turns
<1> QED BY <1>3, <1>4

\* What Ctrl+C changes of the session.
LEMMA CtrlCSession ==
    ASSUME interrupts \in Nat, CtrlC
    PROVE  /\ Throws /\ UNCHANGED <<user, plugins, said>> /\ interrupts' \in Nat
           /\ interrupts' > 0 /\ interrupts' # 0
           /\ work' # <<>> => stage' = stage
<1>1. Throws /\ UNCHANGED <<user, plugins>>
      BY CtrlCThrows
<1>2. said' = said /\ interrupts' = interrupts + 1 /\ Raise("quit")
      BY Zenon DEF CtrlC, ghosts
<1>3. interrupts' \in Nat /\ interrupts' > 0 /\ interrupts' # 0
      BY <1>2
<1> QED BY <1>1, <1>2, <1>3, RaiseStages, Zenon

\* At the start, Ctrl+C.
LEMMA StartingCtrlC ==
    ASSUME DOMAIN said = Turns, interrupts \in Nat, Starting, CtrlC
    PROVE  Course'
<1>1. PICK p : List(p, PriorWork) /\ work = p \o HooksAhead
      BY Zenon DEF Starting
<1>2. Throws /\ said' = said /\ interrupts' \in Nat /\ (work' # <<>> => stage' = stage)
      BY CtrlCSession
<1>3. Onward(HooksAhead, PriorWork)
      BY <1>1, <1>2, AheadIs, ThrowsOnward, Zenon
<1> QED BY <1>2, <1>3, StartingOnward, Zenon

(***************************************************************************)
(* The hooks of startup, and those of the end.                             *)
(***************************************************************************)
LEMMA HeardAllSame ==
    ASSUME NEW kind, HeardAll(kind), hooks' = hooks, said'[kind] = said[kind],
           interrupts' = interrupts \/ interrupts' # 0
    PROVE  HeardAll(kind)'
<1> DEFINE n == Len(hooks[kind])
<1>1. n' = n
      OBVIOUS
<1>2. Heard(kind, n)
      BY Zenon DEF HeardAll
<1> HIDE DEF n
<1>3. said[kind] \in Seq(1..n) /\ Rising(said[kind]) /\ (interrupts = 0 => said[kind] = [i \in 1..n |-> i])
      BY <1>2, Zenon DEF Heard
<1>4. /\ said'[kind] \in Seq(1..n) /\ Rising(said'[kind])
      /\ interrupts' = 0 => said'[kind] = [i \in 1..n |-> i]
      BY <1>3
<1>5. said'[kind] \in Seq(1..n') /\ (interrupts' = 0 => said'[kind] = [i \in 1..n' |-> i])
      BY <1>1, <1>4
<1> QED BY <1>4, <1>5, Zenon DEF HeardAll, Heard, n

\* The hooks that were run rose.
LEMMA HooksRose ==
    ASSUME NEW kind, HeardAll(kind) \/ \E last : HooksLeft(kind, last)
    PROVE  Rising(said[kind])
BY Zenon DEF HeardAll, HooksLeft, Running, Heard

\* The hooks of startup, one step: the next, or the prompt.
LEMMA HookingStep ==
    ASSUME IInv, DOMAIN said = Turns, interrupts \in Nat, Hooking, Step
    PROVE  Course'
<1>1. stage = "starting" /\ said["shutdown"] = <<>> /\ HooksLeft("startup", Phase("prompt"))
      BY Zenon DEF Hooking
<1>k. "startup" \in Turns /\ "shutdown" \in Turns /\ "startup" # "shutdown"
      BY DEF Turns
<1>2. CASE Others("startup") /\ HooksLeft("startup", Phase("prompt"))'
  <2>1. /\ stage' = stage /\ interrupts' = interrupts /\ DOMAIN said' = Turns
        /\ said'["shutdown"] = said["shutdown"]
        BY <1>k, <1>2 DEF Others
  <2>2. Phase("prompt")' = Phase("prompt")
        BY Zenon DEF Phase
  <2>3. Hooking'
        BY <1>1, <1>2, <2>1, <2>2, Zenon DEF Hooking
  <2> QED BY <2>1, <2>3, Zenon DEF Course, Turns
<1>3. CASE HeardAll("startup") /\ This = Phase("prompt") /\ Tail(work) = <<>>
  <2>1. This.do = "phase" /\ This.key = "prompt"
        BY <1>3 DEF Phase
  <2>2. StartPrompt
        BY <2>1, StepOf, Zenon
  <2>3. /\ stage' = "prompt" /\ work' = <<>> /\ said' = said /\ interrupts' = interrupts
        /\ hooks' = hooks
        BY <1>3, <2>2 DEF StartPrompt, ghosts, plugins, ByUser
  <2>4. HeardAll("startup")'
        BY <1>3, <2>3, HeardAllSame
  <2>5. Lined'
        BY <2>3, Zenon DEF Lined
  <2>6. Prompting'
        BY <1>1, <2>3, <2>4, <2>5, Zenon DEF Prompting
  <2> QED BY <2>3, <2>6, Zenon DEF Course, Turns
<1>4. \/ Others("startup") /\ HooksLeft("startup", Phase("prompt"))'
      \/ HeardAll("startup") /\ This = Phase("prompt") /\ Tail(work) = <<>>
      BY <1>1, <1>k, HooksStep, Zenon DEF HeardAll
<1> QED BY <1>2, <1>3, <1>4

\* Ctrl+C while they are run.
LEMMA HookingCtrlC ==
    ASSUME IInv, DOMAIN said = Turns, interrupts \in Nat, Hooking, CtrlC
    PROVE  Course'
<1>1. stage = "starting" /\ said["shutdown"] = <<>> /\ HooksLeft("startup", Phase("prompt"))
      BY Zenon DEF Hooking
<1>k. "startup" \in Turns /\ Phase("prompt").do # "end"
      BY DEF Turns, Phase
<1>2. /\ UNCHANGED <<user, plugins, said>> /\ interrupts' \in Nat /\ interrupts' > 0
      /\ (stage' = stage /\ HooksLeft("startup", Phase("prompt"))') \/ (work' = <<>> /\ Fails)
      BY <1>1, <1>k, HooksCtrlC, Zenon
<1>3. interrupts' # 0
      BY <1>2
<1>4. CASE stage' = stage /\ HooksLeft("startup", Phase("prompt"))'
  <2>1. Phase("prompt")' = Phase("prompt")
        BY Zenon DEF Phase
  <2>2. Hooking'
        BY <1>1, <1>2, <1>4, <2>1, Zenon DEF Hooking
  <2> QED BY <1>2, <2>2, Zenon DEF Course, Turns
<1>5. CASE work' = <<>> /\ Fails
  <2>1. stage' = "failed"
        BY <1>1, <1>5 DEF Fails
  <2>2. stage' # "ended" /\ stage' # "cut" /\ stage' \in {"ended", "failed", "cut"}
        BY <2>1
  <2>3. Rising(said["startup"]) /\ Rising(said["shutdown"])
    <3>1. DOMAIN <<>> = {}
          OBVIOUS
    <3> QED BY <1>1, <3>1, HooksRose, Zenon DEF Rising
  <2>4. Ended'
        BY <1>1, <1>2, <1>3, <1>5, <2>2, <2>3, Zenon DEF Ended
  <2> QED BY <1>2, <2>4, Zenon DEF Course, Turns
<1> QED BY <1>2, <1>4, <1>5

\* The hooks of the end begin.
LEMMA LeavingBegins ==
    ASSUME IInv, DOMAIN said = Turns, interrupts \in Nat, Prompting,
           UNCHANGED <<plugins, said, interrupts>>, stage' = "closing", work' = Closing
    PROVE  Course'
<1>1. said["shutdown"] = <<>> /\ HeardAll("startup")
      BY Zenon DEF Prompting
<1>2. hooks' = hooks /\ said'["shutdown"] = <<>>
      BY <1>1 DEF plugins
<1>3. Typed /\ "shutdown" \in Range(HookKinds)
      BY Kinds DEF IInv
<1>4. HooksLeft("shutdown", [do |-> "save"])'
      BY <1>2, <1>3, HooksBeginNext, Zenon DEF Closing
<1>5. HeardAll("startup")'
      BY <1>1, <1>2, HeardAllSame
<1>6. Leaving'
      BY <1>4, <1>5, Zenon DEF Leaving
<1> QED BY <1>6, Zenon DEF Course, Turns

\* The hooks of the end, one step: the next, or the end.
LEMMA LeavingStep ==
    ASSUME IInv, DOMAIN said = Turns, interrupts \in Nat, Leaving, Step
    PROVE  Course'
<1> DEFINE last == [do |-> "save"]
<1>1. stage = "closing" /\ HeardAll("startup") /\ HooksLeft("shutdown", last)
      BY Zenon DEF Leaving
<1>k. "startup" \in Turns /\ "shutdown" \in Turns /\ "startup" # "shutdown"
      BY DEF Turns
<1>2. CASE Others("shutdown") /\ HooksLeft("shutdown", last)'
  <2>1. /\ stage' = stage /\ interrupts' = interrupts /\ DOMAIN said' = Turns
        /\ said'["startup"] = said["startup"] /\ hooks' = hooks
        BY <1>k, <1>2 DEF Others, plugins
  <2>2. HeardAll("startup")'
        BY <1>1, <2>1, HeardAllSame, Zenon
  <2>3. Leaving'
        BY <1>1, <1>2, <2>1, <2>2, Zenon DEF Leaving
  <2> QED BY <2>1, <2>3, Zenon DEF Course, Turns
<1>3. CASE HeardAll("shutdown") /\ This = last /\ Tail(work) = <<>>
  <2>1. This.do = "save"
        BY <1>3
  <2>2. Save
        BY <2>1, StepOf, Zenon
  <2>3. /\ stage' = "ended" /\ work' = <<>> /\ said' = said /\ interrupts' = interrupts
        /\ hooks' = hooks
        BY <2>2 DEF Save, ghosts, plugins, ByUser
  <2>4. HeardAll("startup")' /\ HeardAll("shutdown")'
        BY <1>1, <1>3, <2>3, HeardAllSame, Zenon
  <2>5. Rising(said["startup"]) /\ Rising(said["shutdown"])
        BY <1>1, <1>3, HooksRose, Zenon
  <2>6. stage' # "failed" /\ stage' # "cut" /\ stage' \in {"ended", "failed", "cut"}
        BY <2>3
  <2>7. Ended'
        BY <2>3, <2>4, <2>5, <2>6, Zenon DEF Ended
  <2> QED BY <2>3, <2>7, Zenon DEF Course, Turns
<1>4. \/ Others("shutdown") /\ HooksLeft("shutdown", last)'
      \/ HeardAll("shutdown") /\ This = last /\ Tail(work) = <<>>
      BY <1>1, <1>k, HooksStep, Zenon DEF HeardAll
<1> QED BY <1>2, <1>3, <1>4

\* Ctrl+C while they are run.
LEMMA LeavingCtrlC ==
    ASSUME IInv, DOMAIN said = Turns, interrupts \in Nat, Leaving, CtrlC
    PROVE  Course'
<1> DEFINE last == [do |-> "save"]
<1>1. stage = "closing" /\ HeardAll("startup") /\ HooksLeft("shutdown", last)
      BY Zenon DEF Leaving
<1>k. "shutdown" \in Turns /\ last.do # "end"
      BY DEF Turns
<1>2. /\ UNCHANGED <<user, plugins, said>> /\ interrupts' \in Nat /\ interrupts' > 0
      /\ (stage' = stage /\ HooksLeft("shutdown", last)') \/ (work' = <<>> /\ Fails)
      BY <1>1, <1>k, HooksCtrlC, Zenon
<1>3. interrupts' # 0 /\ hooks' = hooks /\ said' = said
      BY <1>2 DEF plugins
<1>4. HeardAll("startup")'
      BY <1>1, <1>3, HeardAllSame, Zenon
<1>5. CASE stage' = stage /\ HooksLeft("shutdown", last)'
  <2>1. Leaving'
        BY <1>1, <1>4, <1>5, Zenon DEF Leaving
  <2> QED BY <1>2, <2>1, Zenon DEF Course, Turns
<1>6. CASE work' = <<>> /\ Fails
  <2>1. stage' = "cut"
        BY <1>1, <1>6 DEF Fails
  <2>2. stage' # "ended" /\ stage' # "failed" /\ stage' \in {"ended", "failed", "cut"}
        BY <2>1
  <2>3. Rising(said["startup"]) /\ Rising(said["shutdown"])
        BY <1>1, HooksRose, Zenon
  <2>4. Ended'
        BY <1>2, <1>6, <2>2, <2>3, Zenon DEF Ended
  <2> QED BY <1>2, <2>4, Zenon DEF Course, Turns
<1> QED BY <1>2, <1>5, <1>6

(***************************************************************************)
(* The prompt and the lines.                                               *)
(***************************************************************************)
LEMMA LineEnds ==
    /\ EndOf("typed") = TypedEnd(FALSE) /\ EndOf("prompt") = PromptEnd(FALSE)
    /\ \A raised : /\ TypedEnd(raised).do = "end" /\ TypedEnd(raised).frame = "typed"
                   /\ TypedEnd(raised).raised = raised
                   /\ PromptEnd(raised).do = "end" /\ PromptEnd(raised).frame = "prompt"
                   /\ PromptEnd(raised).raised = raised
                   /\ Raised(TypedEnd(raised)) = TypedEnd(TRUE)
                   /\ Raised(PromptEnd(raised)) = PromptEnd(TRUE)
    /\ Caught("typed") = {"error", "quit"} /\ "quit" \in Caught("prompt")
<1>1. EndOf("typed") = TypedEnd(FALSE) /\ EndOf("prompt") = PromptEnd(FALSE)
      BY DEF EndOf, TypedEnd, PromptEnd
<1>2. ASSUME NEW raised
      PROVE  /\ TypedEnd(raised).do = "end" /\ TypedEnd(raised).frame = "typed"
             /\ TypedEnd(raised).raised = raised
             /\ PromptEnd(raised).do = "end" /\ PromptEnd(raised).frame = "prompt"
             /\ PromptEnd(raised).raised = raised
      BY DEF TypedEnd, PromptEnd
<1>r. PICK yes : yes = TRUE
      OBVIOUS
<1>e. ASSUME NEW d, NEW f, NEW r, NEW o, NEW s
      PROVE  [[do |-> d, frame |-> f, raised |-> r, of |-> o] EXCEPT !.raised = s]
               = [do |-> d, frame |-> f, raised |-> s, of |-> o]
      OBVIOUS
<1>3. ASSUME NEW raised PROVE Raised(TypedEnd(raised)) = TypedEnd(TRUE)
  <2>1. [[do |-> "end", frame |-> "typed", raised |-> raised, of |-> 0] EXCEPT !.raised = yes]
            = [do |-> "end", frame |-> "typed", raised |-> yes, of |-> 0]
        BY <1>e
  <2> QED BY <1>r, <2>1, Zenon DEF Raised, TypedEnd
<1>4. ASSUME NEW raised PROVE Raised(PromptEnd(raised)) = PromptEnd(TRUE)
  <2>1. [[do |-> "end", frame |-> "prompt", raised |-> raised, of |-> 0] EXCEPT !.raised = yes]
            = [do |-> "end", frame |-> "prompt", raised |-> yes, of |-> 0]
        BY <1>e
  <2> QED BY <1>r, <2>1, Zenon DEF Raised, PromptEnd
<1>5. Caught("typed") = {"error", "quit"} /\ "quit" \in Caught("prompt")
      BY DEF Caught
<1> QED BY <1>1, <1>2, <1>3, <1>4, <1>5, Zenon

\* The end of a line keeps every exception.
LEMMA TypedKeeps ==
    ASSUME NEW raised
    PROVE  /\ IsList(<<TypedEnd(raised)>>) /\ <<TypedEnd(raised)>> # <<>>
           /\ \A kind \in {"error", "quit"} : UnwoundIn(<<TypedEnd(raised)>>, kind) = <<>> \o <<TypedEnd(TRUE)>>
<1> DEFINE c == TypedEnd(raised)
<1>1. IsList(<<c>>) /\ <<c>> # <<>> /\ IsList(<<>>) /\ IsList(<<TypedEnd(TRUE)>>)
      BY Joins
<1>2. c.do = "end" /\ c.frame = "typed" /\ Raised(c) = TypedEnd(TRUE) /\ Caught("typed") = {"error", "quit"}
      BY LineEnds, Zenon
<1> HIDE DEF c
<1>3. ASSUME NEW kind \in {"error", "quit"} PROVE UnwoundIn(<<c>>, kind) = <<>> \o <<TypedEnd(TRUE)>>
  <2>1. UnwoundIn(<<c>> \o <<>>, kind) = <<Raised(c)>> \o <<>>
        BY <1>1, <1>2, UnwindsHead, Zenon
  <2>2. <<c>> \o <<>> = <<c>>
        BY <1>1, Joins, Zenon
  <2>3. <<TypedEnd(TRUE)>> \o <<>> = <<TypedEnd(TRUE)>> /\ <<>> \o <<TypedEnd(TRUE)>> = <<TypedEnd(TRUE)>>
        BY <1>1, Joins, Zenon
  <2> QED BY <1>2, <2>1, <2>2, <2>3, Zenon
<1> QED BY <1>1, <1>3, Zenon DEF c

\* The end of drawing the prompt keeps Ctrl+C.
LEMMA LineNextIs ==
    ASSUME NEW call, NEW raised
    PROVE  /\ IsList(LineNext(call, raised)) /\ LineNext(call, raised) # <<>>
           /\ IsList(<<call>> \o <<TypedEnd(FALSE)>>)
           /\ UnwoundIn(LineNext(call, raised), "quit") = <<>> \o LineNext(call, TRUE)
           /\ LineNext(call, raised) = <<PromptEnd(raised)>> \o (<<call>> \o <<TypedEnd(FALSE)>>)
<1> DEFINE c == PromptEnd(raised)
           r == <<call>> \o <<TypedEnd(FALSE)>>
<1>1. IsList(<<c>>) /\ <<c>> # <<>> /\ IsList(<<PromptEnd(TRUE)>>)
      BY Joins
<1>2. IsList(r)
  <2>1. IsList(<<call>>) /\ IsList(<<TypedEnd(FALSE)>>)
        BY Joins, Zenon
  <2> QED BY <2>1, JoinIsList, Zenon
<1>3. c.do = "end" /\ c.frame = "prompt" /\ Raised(c) = PromptEnd(TRUE) /\ "quit" \in Caught("prompt")
      BY LineEnds, Zenon
<1>4. LineNext(call, raised) = <<c>> \o r /\ LineNext(call, TRUE) = <<PromptEnd(TRUE)>> \o r
      BY Zenon DEF LineNext
<1> HIDE DEF c, r
<1>5. IsList(<<c>> \o r) /\ <<c>> \o r # <<>> /\ IsList(<<PromptEnd(TRUE)>> \o r)
      BY <1>1, <1>2, JoinIsList, JoinNotEmpty, Zenon
<1>6. UnwoundIn(<<c>> \o r, "quit") = <<Raised(c)>> \o r
  <2>1. "quit" \in Caught(c.frame)
        BY <1>3
  <2> DEFINE k == "quit"
  <2>2. k \in Caught(c.frame)
        BY <2>1
  <2> HIDE DEF k
  <2>3. UnwoundIn(<<c>> \o r, k) = <<Raised(c)>> \o r
        BY <1>2, <1>3, <2>2, UnwindsHead, Zenon
  <2> QED BY <2>3, Zenon DEF k
<1>7. <<>> \o (<<PromptEnd(TRUE)>> \o r) = <<PromptEnd(TRUE)>> \o r
      BY <1>5, Joins, Zenon
<1> QED BY <1>2, <1>3, <1>4, <1>5, <1>6, <1>7, Zenon DEF c, r

\* The session stays with its lines.
LEMMA PromptingTo ==
    ASSUME DOMAIN said = Turns, Prompting, UNCHANGED <<user, plugins, said, stage>>, interrupts' \in Nat,
           interrupts' = interrupts \/ interrupts' # 0, Lined'
    PROVE  Course'
<1>1. stage = "prompt" /\ said["shutdown"] = <<>> /\ HeardAll("startup")
      BY Zenon DEF Prompting
<1>2. hooks' = hooks /\ said' = said /\ stage' = stage
      BY DEF plugins
<1>3. HeardAll("startup")'
      BY <1>1, <1>2, HeardAllSame, Zenon
<1>4. Prompting'
      BY <1>1, <1>2, <1>3, Zenon DEF Prompting
<1> QED BY <1>2, <1>4, Zenon DEF Course, Turns

\* A line goes on, with calls that nothing escapes if only plugins are called and there was no Ctrl+C.
LEMMA ReadingTo ==
    ASSUME user' = user, NEW q, NEW raised \in BOOLEAN, List(q, QuietWork),
           work' = q \o <<TypedEnd(raised)>>,
           interrupts' = 0 /\ OnlyPlugins => Sheltered(q) /\ raised = FALSE
    PROVE  Lined'
<1>1. OnlyPlugins' <=> OnlyPlugins
      BY Zenon DEF OnlyPlugins
<1>2. TypedEnd(raised)' = TypedEnd(raised)
      BY Zenon DEF TypedEnd
<1>3. Reading(q, raised)'
      BY <1>1, <1>2, Zenon DEF Reading
<1> QED BY <1>3, Zenon DEF Lined

LEMMA DrawingTo ==
    ASSUME user' = user, NEW q, NEW call \in user.lines, NEW raised \in BOOLEAN,
           List(q, QuietWork), Sheltered(q), work' = q \o LineNext(call, raised)
    PROVE  Lined'
<1>1. LineNext(call, raised)' = LineNext(call, raised)
      BY Zenon DEF LineNext, TypedEnd, PromptEnd
<1>2. Drawing(q, call, raised)'
      BY <1>1, Zenon DEF Drawing
<1> QED BY <1>2, Zenon DEF Lined

\* A line, and an exception in it.
LEMMA ReadingOnward ==
    ASSUME user' = user, NEW q, NEW raised \in BOOLEAN, Reading(q, raised), work' # <<>> => stage' = stage,
           Onward(<<TypedEnd(raised)>>, QuietWork), ~(interrupts' = 0 /\ OnlyPlugins)
    PROVE  Lined' /\ stage' = stage
<1>1. CASE \E new : List(new, QuietWork) /\ work' = new \o <<TypedEnd(raised)>>
  <2>1. PICK new : List(new, QuietWork) /\ work' = new \o <<TypedEnd(raised)>>
        BY <1>1
  <2>2. work' # <<>>
    <3>1. IsList(new)
          BY <2>1, Zenon DEF List
    <3> QED BY <2>1, <3>1, TypedKeeps, JoinNotEmpty, Zenon
  <2> QED BY <2>1, <2>2, ReadingTo, Zenon
<1>2. CASE \E kind \in {"error", "quit"} : work' = UnwoundIn(<<TypedEnd(raised)>>, kind) /\ (work' = <<>> => Fails)
  <2>1. work' = <<>> \o <<TypedEnd(TRUE)>>
        BY <1>2, TypedKeeps, Zenon
  <2>2. work' # <<>>
    <3>1. IsList(<<>>)
          BY Joins
    <3> QED BY <2>1, <3>1, TypedKeeps, JoinNotEmpty, Zenon
  <2>3. TRUE \in BOOLEAN /\ List(<<>>, QuietWork)
        BY ListEmpty, Zenon
  <2> QED BY <2>1, <2>2, <2>3, ReadingTo, Zenon
<1> QED BY <1>1, <1>2, Zenon DEF Onward

\* A line, one step of it.
LEMMA ReadingStep ==
    ASSUME IInv, DOMAIN said = Turns, interrupts \in Nat, Prompting,
           NEW q, NEW raised \in BOOLEAN, Reading(q, raised), Step
    PROVE  Course'
<1> DEFINE rest == <<TypedEnd(raised)>>
<1>1. /\ List(q, QuietWork) /\ IsList(q) /\ work = q \o rest
      /\ interrupts = 0 /\ OnlyPlugins => Sheltered(q) /\ raised = FALSE
      BY Zenon DEF Reading, List
<1>r. IsList(rest) /\ rest # <<>>
      BY TypedKeeps, Zenon
<1>t. Typed /\ user \in Users
      BY DEF IInv
<1>2. CASE q # <<>>
  <2> HIDE DEF rest
  <2>1. This = Head(q) /\ work # <<>> /\ IsList(work)
    <3>1. Head(q \o rest) = Head(q)
          BY <1>1, <1>r, <1>2, HeadJoined, Zenon
    <3>2. q \o rest # <<>> /\ IsList(q \o rest)
          BY <1>1, <1>r, <1>2, JoinIsList, JoinNotEmpty, Zenon
    <3> QED BY <1>1, <3>1, <3>2, Zenon DEF This
  <2>2. Quiet(This)
        BY <1>1, <1>2, <2>1, ListHead, FitsKinds, Zenon
  <2>3. Served /\ Ordinary(This)
        BY <2>1, <2>2, QuietServed, Zenon
  <2>4. user' = user /\ said' = said /\ interrupts' = interrupts /\ StageKept
        BY <2>3, OrdinaryStep, Zenon
  <2>5. UNCHANGED plugins /\ Onward(rest, QuietWork)
    <3>1. Quiet(Head(q))
          BY <2>1, <2>2, Zenon
    <3> QED BY <1>t, <1>1, <1>r, <1>2, <2>3, <3>1, QuietOnward, Zenon
  <2>6. work' # <<>> => stage' = stage
        BY <2>4, RaiseStages, Zenon
  <2>7. Lined' /\ stage' = stage
    <3>1. CASE interrupts = 0 /\ OnlyPlugins
      <4>1. Sheltered(q) /\ raised = FALSE
            BY <1>1, <3>1, Zenon
      <4>2. Keeps(rest, QuietWork, work')
            BY <1>t, <1>1, <1>r, <1>2, <2>3, <4>1, ShelteredStep, Zenon
      <4>3. PICK new : List(new, QuietWork) /\ Sheltered(new) /\ work' = new \o rest
            BY <4>2, Zenon DEF Keeps
      <4>4. work' # <<>>
        <5>1. IsList(new)
              BY <4>3, Zenon DEF List
        <5> QED BY <1>r, <4>3, <5>1, JoinNotEmpty, Zenon
      <4>5. Lined'
            BY <2>4, <4>1, <4>3, ReadingTo, Zenon DEF rest
      <4> QED BY <2>6, <4>4, <4>5, Zenon
    <3>2. CASE ~(interrupts = 0 /\ OnlyPlugins)
      <4>1. ~(interrupts' = 0 /\ OnlyPlugins)
            BY <2>4, <3>2, Zenon
      <4> QED BY <2>4, <2>5, <2>6, <4>1, ReadingOnward, Zenon DEF rest
    <3> QED BY <3>1, <3>2, Zenon
  <2>8. interrupts' \in Nat
        BY <2>4, Zenon
  <2> QED BY <2>4, <2>5, <2>7, <2>8, PromptingTo, Zenon
<1>3. CASE q = <<>>
  <2>1. work = <<TypedEnd(raised)>>
        BY <1>1, <1>3
  <2>2. This = TypedEnd(raised) /\ Tail(work) = <<>>
        BY <2>1 DEF This
  <2>3. This.do = "end" /\ This.frame = "typed" /\ This.raised = raised
        BY <2>2, LineEnds, Zenon
  <2>4. EndFrame
        BY <2>3, StepOf, Zenon
  <2>5. UNCHANGED <<user, plugins, said, interrupts>>
    <3>1. This.frame # "register"
          BY <2>3
    <3> QED BY <2>4, <3>1, Zenon DEF EndFrame, ghosts, ByUser
  <2>6. CASE raised
    <3>1. stage' = "closing" /\ work' = Closing
          BY <2>3, <2>4, <2>6, Zenon DEF EndFrame
    <3> QED BY <2>5, <3>1, LeavingBegins, Zenon
  <2>7. CASE ~raised
    <3>1. This.frame # "prompt"
          BY <2>3
    <3>2. stage' = stage /\ work' = <<>>
          BY <2>2, <2>3, <2>4, <2>7, <3>1, Zenon DEF EndFrame
    <3>3. Lined'
          BY <3>2, Zenon DEF Lined
    <3>4. interrupts' \in Nat /\ interrupts' = interrupts
          BY <2>5
    <3> QED BY <2>5, <3>2, <3>3, <3>4, PromptingTo, Zenon
  <2> QED BY <2>6, <2>7
<1> QED BY <1>2, <1>3

\* A call of a line is the user's, or a plugin's command.
LEMMA CallIs ==
    ASSUME user \in Users, NEW call \in user.lines
    PROVE  List(<<call>>, QuietWork) /\ (OnlyPlugins => Sheltered(<<call>>))
<1>1. call \in Code
      BY UsersAssumption
<1>2. Fits(call, QuietWork)
      BY <1>1, CodeAssumption, Zenon DEF Fits, Quiet
<1>3. ASSUME OnlyPlugins PROVE Sheltered(<<call>>)
  <2>1. Tame(call)
        BY <1>3 DEF OnlyPlugins, Tame
  <2> QED BY <2>1, ShelteredOne, Zenon
<1> QED BY <1>2, <1>3, ListOne, Zenon

\* The prompt of a line is drawn, one step of it.
LEMMA DrawingStep ==
    ASSUME IInv, DOMAIN said = Turns, interrupts \in Nat, Prompting,
           NEW q, NEW call, NEW raised \in BOOLEAN, Drawing(q, call, raised), Step
    PROVE  Course'
<1> DEFINE rest == LineNext(call, raised)
<1>1. /\ List(q, QuietWork) /\ IsList(q) /\ Sheltered(q) /\ call \in user.lines
      /\ work = q \o rest
      BY Zenon DEF Drawing, List
<1>r. IsList(rest) /\ rest # <<>>
      BY LineNextIs, Zenon
<1>t. Typed /\ user \in Users
      BY DEF IInv
<1>2. CASE q # <<>>
  <2> HIDE DEF rest
  <2>1. This = Head(q) /\ work # <<>>
    <3>1. Head(q \o rest) = Head(q)
          BY <1>1, <1>r, <1>2, HeadJoined, Zenon
    <3>2. q \o rest # <<>>
          BY <1>1, <1>r, <1>2, JoinNotEmpty, Zenon
    <3> QED BY <1>1, <3>1, <3>2, Zenon DEF This
  <2>2. Quiet(This)
        BY <1>1, <1>2, <2>1, ListHead, FitsKinds, Zenon
  <2>3. Served /\ Ordinary(This)
        BY <2>1, <2>2, QuietServed, Zenon
  <2>4. user' = user /\ said' = said /\ interrupts' = interrupts /\ StageKept
        BY <2>3, OrdinaryStep, Zenon
  <2>5. UNCHANGED plugins /\ Keeps(rest, QuietWork, work')
        BY <1>t, <1>1, <1>r, <1>2, <2>3, ShelteredStep, Zenon
  <2>6. PICK new : List(new, QuietWork) /\ Sheltered(new) /\ work' = new \o rest
        BY <2>5, Zenon DEF Keeps
  <2>7. stage' = stage
    <3>1. IsList(new)
          BY <2>6, Zenon DEF List
    <3>2. work' # <<>>
          BY <1>r, <2>6, <3>1, JoinNotEmpty, Zenon
    <3> QED BY <2>4, <3>2, RaiseStages, Zenon
  <2>8. Lined'
        BY <1>1, <2>4, <2>6, DrawingTo, Zenon DEF rest
  <2>9. interrupts' \in Nat
        BY <2>4, Zenon
  <2> QED BY <2>4, <2>5, <2>7, <2>8, <2>9, PromptingTo, Zenon
<1>3. CASE q = <<>>
  <2> DEFINE line == <<call>> \o <<TypedEnd(FALSE)>>
  <2>1. work = <<PromptEnd(raised)>> \o line /\ IsList(line)
    <3>1. <<>> \o rest = rest
          BY <1>r, Joins, Zenon
    <3> QED BY <1>1, <1>3, <3>1, LineNextIs, Zenon
  <2> HIDE DEF line, rest
  <2>2. This = PromptEnd(raised) /\ Tail(work) = line
        BY <2>1, HeadOf, Zenon
  <2>3. This.do = "end" /\ This.frame = "prompt" /\ This.raised = raised
        BY <2>2, LineEnds, Zenon
  <2>4. EndFrame
        BY <2>3, StepOf, Zenon
  <2>5. This.frame # "register" /\ This.frame # "typed"
        BY <2>3
  <2>6. UNCHANGED <<user, plugins, said, interrupts>> /\ stage' = stage
        BY <2>4, <2>5, Zenon DEF EndFrame, ghosts, ByUser
  <2>7. Lined'
    <3>1. CASE raised
      <4>1. work' = <<>>
            BY <2>3, <2>4, <2>5, <3>1, Zenon DEF EndFrame
      <4> QED BY <4>1, Zenon DEF Lined
    <3>2. CASE ~raised
      <4>1. work' = line
            BY <2>2, <2>3, <2>4, <2>5, <3>2, Zenon DEF EndFrame
      <4>2. List(<<call>>, QuietWork) /\ (OnlyPlugins => Sheltered(<<call>>))
            BY <1>t, <1>1, CallIs, Zenon
      <4>3. user' = user /\ FALSE \in BOOLEAN
            BY <2>6, Zenon
      <4>4. work' = <<call>> \o <<TypedEnd(FALSE)>>
            BY <4>1, Zenon DEF line
      <4> DEFINE x == <<call>>
      <4>5. List(x, QuietWork) /\ (OnlyPlugins => Sheltered(x)) /\ work' = x \o <<TypedEnd(FALSE)>>
            BY <4>2, <4>4, Zenon
      <4> HIDE DEF x
      <4> QED BY <4>3, <4>5, ReadingTo, Zenon
    <3> QED BY <3>1, <3>2
  <2>8. interrupts' \in Nat /\ interrupts' = interrupts
        BY <2>6
  <2> QED BY <2>6, <2>7, <2>8, PromptingTo, Zenon
<1> QED BY <1>2, <1>3

\* Ctrl+C in a line.
LEMMA LinedCtrlC ==
    ASSUME IInv, DOMAIN said = Turns, interrupts \in Nat, Prompting, CtrlC
    PROVE  Course'
<1>1. /\ Throws /\ UNCHANGED <<user, plugins, said>> /\ interrupts' \in Nat /\ interrupts' # 0
      /\ work' # <<>> => stage' = stage
      BY CtrlCSession
<1>2. work # <<>> /\ work' = Unwound("quit")
      BY Zenon DEF CtrlC, Raise
<1>q. "quit" \in {"error", "quit"}
      OBVIOUS
<1>a. ASSUME Lined', stage' = stage PROVE Course'
      BY <1>1, <1>a, PromptingTo, Zenon
<1>3. ASSUME NEW q, NEW raised \in BOOLEAN, Reading(q, raised) PROVE Course'
  <2> DEFINE rest == <<TypedEnd(raised)>>
  <2>1. List(q, QuietWork) /\ work = q \o rest /\ IsList(rest)
        BY <1>3, TypedKeeps, Zenon DEF Reading
  <2>2. Onward(rest, QuietWork)
    <3> HIDE DEF rest
    <3> QED BY <1>1, <2>1, ThrowsOnward, Zenon
  <2>3. ~(interrupts' = 0 /\ OnlyPlugins)
        BY <1>1
  <2>4. Lined' /\ stage' = stage
        BY <1>1, <1>3, <2>2, <2>3, ReadingOnward, Zenon
  <2> QED BY <1>a, <2>4, Zenon
<1>4. ASSUME NEW q, NEW call, NEW raised \in BOOLEAN, Drawing(q, call, raised) PROVE Course'
  <2> DEFINE rest == LineNext(call, raised)
  <2>1. /\ List(q, QuietWork) /\ Sheltered(q) /\ call \in user.lines /\ work = q \o rest
        /\ IsList(rest) /\ rest # <<>> /\ UnwoundIn(rest, "quit") = <<>> \o LineNext(call, TRUE)
        BY <1>4, LineNextIs, Zenon DEF Drawing
  <2>2. IsList(LineNext(call, TRUE)) /\ LineNext(call, TRUE) # <<>>
        BY LineNextIs, Zenon
  <2> DEFINE onward == Keeps(rest, QuietWork, work')
  <2>3. work' = UnwoundIn(rest, "quit") \/ onward
    <3>1. work' = UnwoundIn(q \o rest, "quit")
          BY <1>2, <2>1, UnwoundIs, Zenon
    <3> HIDE DEF rest
    <3> QED BY <1>q, <2>1, <3>1, ShelteredUnwinding, Zenon
  <2>4. CASE onward
    <3>1. PICK new : List(new, QuietWork) /\ Sheltered(new) /\ work' = new \o rest
          BY <2>4, Zenon DEF Keeps
    <3>2. IsList(new)
          BY <3>1, Zenon DEF List
    <3>3. work' # <<>>
      <4> HIDE DEF rest
      <4> QED BY <2>1, <3>1, <3>2, JoinNotEmpty, Zenon
    <3>4. user' = user
          BY <1>1
    <3>5. Lined'
          BY <2>1, <3>1, <3>4, DrawingTo, Zenon
    <3> QED BY <1>1, <1>a, <3>3, <3>5, Zenon
  <2>5. CASE work' = UnwoundIn(rest, "quit")
    <3>1. List(<<>>, QuietWork) /\ Sheltered(<<>>) /\ IsList(<<>>)
          BY ListEmpty, ShelteredOne, Joins, Zenon
    <3>2. work' = <<>> \o LineNext(call, TRUE)
          BY <2>1, <2>5, Zenon
    <3>3. work' # <<>>
          BY <2>2, <3>1, <3>2, JoinNotEmpty, Zenon
    <3>4. user' = user /\ TRUE \in BOOLEAN
          BY <1>1
    <3>5. Lined'
          BY <2>1, <3>1, <3>2, <3>4, DrawingTo, Zenon
    <3> QED BY <1>1, <1>a, <3>3, <3>5, Zenon
  <2> QED BY <2>3, <2>4, <2>5, Zenon
<1>5. \/ \E q : \E raised \in BOOLEAN : Reading(q, raised)
      \/ \E q, call : \E raised \in BOOLEAN : Drawing(q, call, raised)
      BY <1>2, Zenon DEF Prompting, Lined
<1> QED BY <1>3, <1>4, <1>5, Zenon

\* While nothing is to be done the tables can be served.
LEMMA IdleServed == ASSUME IInv, work = <<>> PROVE Served
<1>u. user \in Users
      BY DEF IInv
<1>1. ASSUME NEW q, Awaiting(q) PROVE Served
      BY <1>1, NoSlotsServed, Zenon DEF Awaiting
<1>2. ASSUME NEW m, Between(m) PROVE Served
      BY <1>u, <1>2, WholeServed, Zenon DEF Between
<1>3. ASSUME NEW m, NEW k, NEW q, Registering(m, k, q) PROVE Served
      BY <1>u, <1>3, WholeServed, Zenon DEF Registering
<1>4. ASSUME NEW m, NEW j, Committing(m, j) PROVE Served
      BY <1>u, <1>4, CommittingIs, Zenon
<1>5. ASSUME NEW m, Abandoned(m) PROVE Served
      BY <1>u, <1>5, WholeServed, Zenon DEF Abandoned
<1>6. ASSUME Finished PROVE Served
      BY <1>u, <1>6, FinishedServed
<1> QED BY <1>1, <1>2, <1>3, <1>4, <1>5, <1>6, Zenon DEF IInv, Phases

\* What drawing a prompt runs is sheltered.
LEMMA RenderingIs ==
    ASSUME Served
    PROVE  Rendering = <<>> \/ \E q : /\ List(q, QuietWork) /\ Sheltered(q)
                                      /\ Rendering = q \o <<PromptEnd(FALSE)>>
<1> DEFINE T == {s \in slots : s[1] = "segment"}
           segments == SetToSeq(T)
           n == Cardinality(T)
           f == [i \in DOMAIN segments |-> Contained(Handler(segments[i]))]
<1>1. IsFiniteSet(T)
  <2>1. T \subseteq slots /\ IsFiniteSet(slots)
        BY Zenon DEF Served
  <2> QED BY <2>1, FS_Subset, Zenon
<1>2. \A s \in T : Handler(s) \in Program
      BY Zenon DEF Served
<1> HIDE DEF T
<1>4. segments \in [1..n -> T] /\ n \in Nat
      BY <1>1, Listed, Zenon
<1> HIDE DEF segments, n
<1>5. f = [i \in 1..n |-> f[i]] /\ \A i \in 1..n : f[i] = Contained(Handler(segments[i]))
  <2>1. DOMAIN segments = 1..n
        BY <1>4
  <2> QED BY <2>1, Zenon
<1>6. ASSUME NEW i \in 1..n PROVE List(f[i], QuietWork) /\ Sheltered(f[i]) /\ IsList(f[i])
  <2>1. segments[i] \in T
        BY <1>4
  <2>2. /\ List(Contained(Handler(segments[i])), QuietWork)
        /\ Sheltered(Contained(Handler(segments[i]))) /\ IsList(Contained(Handler(segments[i])))
        BY <1>2, <2>1, ContainedQuiet, ContainedSheltered
  <2> QED BY <1>5, <2>2, Zenon
<1> HIDE DEF f
<1>7. List(FlattenSeq(f), QuietWork)
      BY <1>4, <1>5, <1>6, ListFlat
<1>8. Sheltered(FlattenSeq(f))
      BY <1>4, <1>5, <1>6, ShelteredFlat
<1>9. Rendering = IF segments = <<>> THEN <<>> ELSE FlattenSeq(f) \o <<PromptEnd(FALSE)>>
      BY LineEnds, Zenon DEF Rendering, segments, T, f
<1> QED BY <1>7, <1>8, <1>9, Zenon

\* A line is typed, or the input ends.
LEMMA LinedLine ==
    ASSUME IInv, DOMAIN said = Turns, interrupts \in Nat, Prompting, TypeLine \/ EndOfInput
    PROVE  Course'
<1>1. ASSUME EndOfInput PROVE Course'
  <2>1. UNCHANGED <<plugins, said, interrupts>> /\ stage' = "closing" /\ work' = Closing
        BY <1>1, Zenon DEF EndOfInput, ghosts, ByUser
  <2> QED BY <2>1, LeavingBegins, Zenon
<1>2. ASSUME TypeLine PROVE Course'
  <2>1. UNCHANGED <<user, plugins, said, stage>> /\ interrupts' = interrupts /\ work = <<>>
        BY <1>2, Zenon DEF TypeLine, ghosts
  <2>2. PICK call \in user.lines : work' = Rendering \o <<call, EndOf("typed")>>
        BY <1>2, Zenon DEF TypeLine
  <2> DEFINE x == <<call>>
             e == <<TypedEnd(FALSE)>>
  <2>3. <<call, EndOf("typed")>> = x \o e
    <3> DEFINE d == TypedEnd(FALSE)
    <3>1. EndOf("typed") = d
          BY LineEnds, Zenon
    <3> HIDE DEF d
    <3>2. <<call, d>> = <<call>> \o <<d>>
          BY PairJoins, Zenon
    <3> QED BY <3>1, <3>2, Zenon DEF d
  <2>4. IsList(x) /\ IsList(e)
        BY Joins, Zenon
  <2>5. List(x, QuietWork) /\ (OnlyPlugins => Sheltered(x))
    <3>1. user \in Users
          BY DEF IInv
    <3> QED BY <3>1, CallIs, Zenon
  <2>6. FALSE \in BOOLEAN /\ user' = user
        BY <2>1
  <2>7. Lined'
    <3>1. CASE Rendering = <<>>
      <4>1. work' = x \o e
        <5> HIDE DEF x, e
        <5>1. IsList(x \o e)
              BY <2>4, JoinIsList, Zenon
        <5>2. <<>> \o (x \o e) = x \o e
              BY <5>1, Joins, Zenon
        <5> QED BY <2>2, <2>3, <3>1, <5>2, Zenon
      <4> HIDE DEF x
      <4> QED BY <2>5, <2>6, <4>1, ReadingTo, Zenon
    <3>2. ASSUME NEW q, List(q, QuietWork), Sheltered(q), Rendering = q \o <<PromptEnd(FALSE)>>
          PROVE  Lined'
      <4> DEFINE b == <<PromptEnd(FALSE)>>
      <4>1. IsList(q) /\ IsList(b)
            BY <3>2, Joins, Zenon DEF List
      <4>2. LineNext(call, FALSE) = b \o (x \o e)
            BY Zenon DEF LineNext
      <4>3. work' = q \o LineNext(call, FALSE)
        <5> HIDE DEF x, e, b
        <5>1. IsList(x \o e)
              BY <2>4, JoinIsList, Zenon
        <5>2. JoinsEitherWay(q, b, x \o e)
              BY <4>1, <5>1, ThreeJoined, Zenon
        <5>3. Rendering = q \o b
              BY <3>2, Zenon DEF b
        <5> QED BY <2>2, <2>3, <4>2, <5>2, <5>3, Zenon DEF JoinsEitherWay
      <4> QED BY <2>6, <3>2, <4>3, DrawingTo, Zenon
    <3>3. Served
          BY <2>1, IdleServed
    <3> QED BY <3>1, <3>2, <3>3, RenderingIs, Zenon
  <2>8. interrupts' \in Nat
        BY <2>1
  <2> QED BY <2>1, <2>7, <2>8, PromptingTo, Zenon
<1> QED BY <1>1, <1>2

\* The course stays what it is while nothing changes.
LEMMA CourseSame ==
    ASSUME IInv, Course, UNCHANGED vars
    PROVE  Course'
<1>1. /\ UNCHANGED <<user, plugins, said, stage>> /\ hooks' = hooks /\ work' = work
      /\ interrupts' = interrupts /\ said' = said /\ stage' = stage
      BY Zenon DEF vars, session, plugins, ghosts
<1>2. DOMAIN said = Turns /\ interrupts \in Nat /\ interrupts' \in Nat /\ DOMAIN said' = Turns
      BY <1>1 DEF Course
<1>3. ASSUME NEW kind, NEW last, HooksLeft(kind, last) PROVE HooksLeft(kind, last)'
  <2>1. PICK j, q : Running(kind, last, j, q)
        BY <1>3, Zenon DEF HooksLeft
  <2>2. /\ j \in 0..Len(hooks[kind]) /\ Heard(kind, j)
        /\ List(q, QuietWork) /\ Sheltered(q) /\ work = q \o Before(kind, last, j)
        BY <2>1, RunningIs
  <2>3. Keeps(Before(kind, last, j), QuietWork, work')
        BY <1>1, <2>2, Zenon DEF Keeps
  <2>4. Heard(kind, j)'
    <3>1. said'[kind] = said[kind]
          BY <1>1
    <3> QED BY <1>1, <2>2, <3>1, HeardSame, Zenon
  <2> QED BY <1>1, <2>2, <2>3, <2>4, RunningTo, Zenon
<1>4. ASSUME NEW kind, HeardAll(kind) PROVE HeardAll(kind)'
  <2>1. said'[kind] = said[kind]
        BY <1>1
  <2> QED BY <1>1, <1>4, <2>1, HeardAllSame, Zenon
<1>5. CASE Starting
  <2>1. PICK p : List(p, PriorWork) /\ work' = p \o HooksAhead
        BY <1>1, <1>5, Zenon DEF Starting
  <2>2. Onward(HooksAhead, PriorWork)
        BY <2>1, Zenon DEF Onward
  <2> QED BY <1>1, <1>2, <1>5, <2>2, StartingOnward, Zenon
<1>6. CASE Hooking
  <2>1. stage' = "starting" /\ said'["shutdown"] = <<>>
        BY <1>1, <1>6, Zenon DEF Hooking
  <2>2. Phase("prompt")' = Phase("prompt")
        BY Zenon DEF Phase
  <2>3. HooksLeft("startup", Phase("prompt"))'
        BY <1>3, <1>6, Zenon DEF Hooking
  <2>4. Hooking'
        BY <2>1, <2>2, <2>3, Zenon DEF Hooking
  <2> QED BY <1>2, <2>4, Zenon DEF Course, Turns
<1>7. CASE Prompting
  <2>1. CASE work = <<>>
        BY <1>1, <1>2, <1>7, <2>1, PromptingTo, Zenon DEF Lined
  <2>2. ASSUME NEW q, NEW raised \in BOOLEAN, Reading(q, raised) PROVE Lined'
    <3>1. /\ List(q, QuietWork) /\ work' = q \o <<TypedEnd(raised)>>
          /\ interrupts' = 0 /\ OnlyPlugins => Sheltered(q) /\ raised = FALSE
          BY <1>1, <2>2, Zenon DEF Reading
    <3> QED BY <1>1, <3>1, ReadingTo, Zenon
  <2>3. ASSUME NEW q, NEW call, NEW raised \in BOOLEAN, Drawing(q, call, raised) PROVE Lined'
    <3>1. List(q, QuietWork) /\ Sheltered(q) /\ call \in user.lines /\ work' = q \o LineNext(call, raised)
          BY <1>1, <2>3, Zenon DEF Drawing
    <3> QED BY <1>1, <3>1, DrawingTo, Zenon
  <2>4. Lined' => Course'
        BY <1>1, <1>2, <1>7, PromptingTo, Zenon
  <2> QED BY <1>7, <2>1, <2>2, <2>3, <2>4, Zenon DEF Prompting, Lined
<1>8. CASE Leaving
  <2> DEFINE last == [do |-> "save"]
  <2>1. stage' = "closing" /\ HeardAll("startup")'
        BY <1>1, <1>4, <1>8, Zenon DEF Leaving
  <2>2. HooksLeft("shutdown", last)'
        BY <1>3, <1>8, Zenon DEF Leaving
  <2>3. Leaving'
        BY <2>1, <2>2, Zenon DEF Leaving
  <2> QED BY <1>2, <2>3, Zenon DEF Course, Turns
<1>9. CASE Ended
  <2>1. /\ work' = <<>> /\ stage' \in {"ended", "failed", "cut"}
        /\ Rising(said'["startup"]) /\ Rising(said'["shutdown"])
        /\ stage' = "cut" => interrupts' > 0
        /\ stage' = "failed" => said'["shutdown"] = <<>> /\ (interrupts' = 0 => said'["startup"] = <<>>)
        BY <1>1, <1>9 DEF Ended
  <2>2. stage' = "ended" => HeardAll("startup")' /\ HeardAll("shutdown")'
        BY <1>1, <1>4, <1>9, Zenon DEF Ended
  <2>3. Ended'
        BY <2>1, <2>2, Zenon DEF Ended
  <2> QED BY <1>2, <2>3, Zenon DEF Course, Turns
<1> QED BY <1>5, <1>6, <1>7, <1>8, <1>9, Zenon DEF Course

\* A session keeps to its course.
LEMMA CourseKept ==
    ASSUME IInv, Course, [Next]_vars
    PROVE  Course'
<1>1. DOMAIN said = Turns /\ interrupts \in Nat
      BY Zenon DEF Course
<1>2. ASSUME Step PROVE Course'
  <2>1. work # <<>>
        BY <1>2, StepWorks
  <2>2. CASE Starting
        BY <1>1, <1>2, <2>2, StartingStep
  <2>3. CASE Hooking
        BY <1>1, <1>2, <2>3, HookingStep
  <2>4. CASE Prompting
    <3>1. ASSUME NEW q, NEW raised \in BOOLEAN, Reading(q, raised) PROVE Course'
          BY <1>1, <1>2, <2>4, <3>1, ReadingStep
    <3>2. ASSUME NEW q, NEW call, NEW raised \in BOOLEAN, Drawing(q, call, raised) PROVE Course'
          BY <1>1, <1>2, <2>4, <3>2, DrawingStep
    <3> QED BY <2>1, <2>4, <3>1, <3>2, Zenon DEF Prompting, Lined
  <2>5. CASE Leaving
        BY <1>1, <1>2, <2>5, LeavingStep
  <2>6. ~Ended
        BY <2>1, Zenon DEF Ended
  <2> QED BY <2>2, <2>3, <2>4, <2>5, <2>6, Zenon DEF Course
<1>3. ASSUME CtrlC PROVE Course'
  <2>1. CASE Starting
        BY <1>1, <1>3, <2>1, StartingCtrlC
  <2>2. CASE Hooking
        BY <1>1, <1>3, <2>2, HookingCtrlC
  <2>3. CASE Prompting
        BY <1>1, <1>3, <2>3, LinedCtrlC
  <2>4. CASE Leaving
        BY <1>1, <1>3, <2>4, LeavingCtrlC
  <2>5. ~Ended
        BY <1>3, Zenon DEF CtrlC, Ended
  <2> QED BY <2>1, <2>2, <2>3, <2>4, <2>5, Zenon DEF Course
<1>4. ASSUME TypeLine \/ EndOfInput PROVE Course'
  <2>1. stage = "prompt"
        BY <1>4, Zenon DEF TypeLine, EndOfInput
  <2>2. Prompting
        BY <2>1 DEF Course, Starting, Hooking, Leaving, Ended
  <2> QED BY <1>1, <1>4, <2>2, LinedLine
<1> QED BY <1>2, <1>3, <1>4, CourseSame, Zenon DEF Next

\* No end of a line that an exception came to.
Unraised(x) == \A i \in DOMAIN x : IsEnd(x[i], "typed") => x[i].raised = FALSE

LEMMA UnraisedJoin ==
    ASSUME NEW x, NEW y, IsList(x), IsList(y), Unraised(x), Unraised(y)
    PROVE  Unraised(x \o y)
<1> SUFFICES ASSUME NEW i \in DOMAIN (x \o y), IsEnd((x \o y)[i], "typed")
             PROVE  (x \o y)[i].raised = FALSE
    BY Zenon DEF Unraised
<1>1. JoinsAt(x, y)
      BY JoinedAt
<1>2. CASE i \in 1..Len(x)
      BY <1>1, <1>2, Zenon DEF JoinsAt, Unraised
<1>3. CASE i \notin 1..Len(x)
  <2>1. Len(x) \in Nat /\ Len(y) \in Nat /\ i \in 1..(Len(x) + Len(y))
        BY <1>1, Zenon DEF JoinsAt
  <2> DEFINE n == Len(x)
             m == Len(y)
             k == i - n
  <2>2. k \in 1..m /\ i = n + k
    <3>1. n \in Nat /\ m \in Nat /\ i \in 1..(n + m) /\ i \notin 1..n
          BY <1>3, <2>1
    <3> HIDE DEF n, m
    <3> QED BY <3>1
  <2> HIDE DEF k
  <2>3. (x \o y)[i] = y[k] /\ k \in DOMAIN y
        BY <1>1, <2>2, Zenon DEF JoinsAt, n, m
  <2> QED BY <2>3, Zenon DEF Unraised
<1> QED BY <1>2, <1>3

\* What is untyped has none, nor has what is left of a line that nothing was raised in.
LEMMA UnraisedOnes ==
    /\ \A x : List(x, UntypedWork) => Unraised(x)
    /\ \A call : Untyped(call) => Unraised(<<call>>)
    /\ Unraised(<<TypedEnd(FALSE)>>) /\ \A raised : Unraised(<<PromptEnd(raised)>>)
<1>1. \A c : DOMAIN <<c>> = {1} /\ <<c>>[1] = c
      OBVIOUS
<1>2. \A x : List(x, UntypedWork) => Unraised(x)
      BY FitsPrior, Zenon DEF List, Untyped, IsEnd, Unraised
<1>3. \A c : (IsEnd(c, "typed") => c.raised = FALSE) => Unraised(<<c>>)
      BY <1>1 DEF Unraised
<1>4. \A call : Untyped(call) => Unraised(<<call>>)
      BY <1>3, Zenon DEF Untyped, IsEnd
<1>5. Unraised(<<TypedEnd(FALSE)>>)
      BY <1>3, LineEnds, Zenon
<1>6. ASSUME NEW raised PROVE Unraised(<<PromptEnd(raised)>>)
  <2>1. PromptEnd(raised).frame # "typed"
        BY LineEnds
  <2> QED BY <1>3, <2>1, Zenon DEF IsEnd
<1> QED BY <1>2, <1>4, <1>5, <1>6, Zenon

\* What is left to do while hooks are run ends no line.
LEMMA HooksUntyped ==
    ASSUME Typed, NEW kind \in Range(HookKinds), NEW last, Untyped(last), HooksLeft(kind, last)
    PROVE  Unraised(work)
<1>1. PICK j, q : Running(kind, last, j, q)
      BY Zenon DEF HooksLeft
<1> DEFINE r == RunFrom(kind, j)
<1>2. /\ j \in 0..Len(hooks[kind]) /\ List(q, QuietWork) /\ work = q \o (r \o <<last>>)
      BY <1>1, Zenon DEF Running
<1>3. r \in Seq(RunItems(kind)) /\ IsList(r)
  <2>1. j \in Nat
    <3>1. Len(hooks[kind]) \in Nat
          BY RunsAre
    <3> QED BY <1>2, <3>1
  <2> QED BY <2>1, RunsAre
<1>4. \A c \in RunItems(kind) : Untyped(c)
  <2>1. ASSUME NEW c \in Code PROVE Untyped(c)
    <3>1. Quiet(c)
          BY CodeAssumption DEF Quiet
    <3> QED BY <3>1, QuietPrior
  <2>2. ASSUME NEW i PROVE Untyped(RunItem(kind, i))
        BY DEF Untyped, RunItem
  <2>3. Untyped(EndOf("plugin hook"))
        BY DEF Untyped, EndOf
  <2> QED BY <2>1, <2>2, <2>3, Zenon DEF RunItems
<1>5. Unraised(r)
  <2>1. \A i \in DOMAIN r : r[i] \in RunItems(kind)
    <3> HIDE DEF r
    <3> QED BY <1>3
  <2> QED BY <1>4, <2>1, Zenon DEF Untyped, IsEnd, Unraised
<1> HIDE DEF r
<1>6. Unraised(q) /\ Unraised(<<last>>) /\ IsList(q) /\ IsList(<<last>>)
  <2>1. List(q, UntypedWork)
        BY <1>2, ListWeaker, Zenon
  <2> QED BY <2>1, UnraisedOnes, Joins, Zenon DEF List
<1>7. IsList(r \o <<last>>) /\ Unraised(r \o <<last>>)
      BY <1>3, <1>5, <1>6, JoinIsList, UnraisedJoin, Zenon
<1> QED BY <1>2, <1>6, <1>7, UnraisedJoin, Zenon

\* Nothing escapes a line, but for Ctrl+C and what the user's own calls raise.
LEMMA LinedContained ==
    ASSUME user \in Users, interrupts \in Nat, Lined
    PROVE  PluginsContained
<1>1. CASE Unraised(work)
      BY <1>1, Zenon DEF PluginsContained, Unraised
<1>2. CASE work = <<>>
  <2>1. DOMAIN work = {}
        BY <1>2
  <2> QED BY <2>1, Zenon DEF PluginsContained
<1>3. ASSUME NEW q, NEW raised \in BOOLEAN, Reading(q, raised) PROVE PluginsContained
  <2>1. CASE interrupts > 0
        BY <2>1, Zenon DEF PluginsContained
  <2>2. CASE ~OnlyPlugins
        BY <2>2, Zenon DEF PluginsContained, OnlyPlugins
  <2>3. CASE interrupts = 0 /\ OnlyPlugins
    <3>1. List(q, QuietWork) /\ work = q \o <<TypedEnd(FALSE)>>
          BY <1>3, <2>3, Zenon DEF Reading
    <3>2. List(q, UntypedWork)
          BY <3>1, ListWeaker, Zenon
    <3>3. IsList(q) /\ IsList(<<TypedEnd(FALSE)>>) /\ Unraised(q) /\ Unraised(<<TypedEnd(FALSE)>>)
          BY <3>2, Joins, UnraisedOnes, Zenon DEF List
    <3>4. Unraised(q \o <<TypedEnd(FALSE)>>)
          BY <3>3, UnraisedJoin, Zenon
    <3> QED BY <1>1, <3>1, <3>4, Zenon
  <2>4. interrupts > 0 \/ interrupts = 0
        OBVIOUS
  <2> QED BY <2>1, <2>2, <2>3, <2>4, Zenon
<1>4. ASSUME NEW q, NEW call, NEW raised \in BOOLEAN, Drawing(q, call, raised) PROVE PluginsContained
  <2> DEFINE x == <<PromptEnd(raised)>>
             y == <<call>>
             z == <<TypedEnd(FALSE)>>
  <2>1. List(q, QuietWork) /\ call \in user.lines /\ work = q \o (x \o (y \o z))
        BY <1>4, Zenon DEF Drawing, LineNext
  <2>2. IsList(q) /\ Unraised(q)
    <3>1. List(q, UntypedWork)
          BY <2>1, ListWeaker, Zenon
    <3> QED BY <3>1, UnraisedOnes, Zenon DEF List
  <2>3. Unraised(x) /\ Unraised(z) /\ IsList(x) /\ IsList(y) /\ IsList(z)
        BY UnraisedOnes, Joins, Zenon
  <2>4. Unraised(y)
    <3>1. List(y, QuietWork)
          BY <2>1, CallIs, Zenon
    <3>2. List(y, UntypedWork)
          BY <3>1, ListWeaker, Zenon
    <3> QED BY <3>2, UnraisedOnes, Zenon
  <2> HIDE DEF x, y, z
  <2>5. IsList(y \o z) /\ Unraised(y \o z)
        BY <2>3, <2>4, JoinIsList, UnraisedJoin, Zenon
  <2>6. IsList(x \o (y \o z)) /\ Unraised(x \o (y \o z))
        BY <2>3, <2>5, JoinIsList, UnraisedJoin, Zenon
  <2>7. Unraised(q \o (x \o (y \o z)))
        BY <2>2, <2>6, UnraisedJoin, Zenon
  <2> QED BY <1>1, <2>1, <2>7, Zenon
<1> QED BY <1>2, <1>3, <1>4, Zenon DEF Lined

\* On its course a session runs the hooks in turn.
LEMMA CourseTurns == ASSUME IInv, Course PROVE HooksInTurn
<1>1. /\ DOMAIN said = Turns /\ interrupts \in Nat /\ Typed /\ user \in Users
      /\ "startup" \in Range(HookKinds) /\ "shutdown" \in Range(HookKinds)
  <2>1. "startup" \in Range(HookKinds) /\ "shutdown" \in Range(HookKinds)
        BY Kinds
  <2> QED BY <2>1, Zenon DEF IInv, Course
<1> DEFINE Rose == Rising(said["startup"]) /\ Rising(said["shutdown"])
           All(kind) == said[kind] = [i \in DOMAIN hooks[kind] |-> i]
           Rest1 == /\ stage = "cut" => interrupts > 0
                    /\ stage = "failed" /\ interrupts = 0 => said["startup"] = <<>>
                    /\ stage \in {"starting", "prompt", "failed"} => said["shutdown"] = <<>>
                    /\ interrupts = 0 =>
                          /\ stage \in {"prompt", "closing", "ended"} => All("startup")
                          /\ stage = "ended" => All("shutdown")
<1>2. ASSUME NEW kind \in Range(HookKinds), HeardAll(kind), interrupts = 0 PROVE All(kind)
  <2>1. DOMAIN hooks[kind] = 1..Len(hooks[kind]) /\ Len(hooks[kind]) \in Nat
    <3>1. 0 \in Nat
          OBVIOUS
    <3> QED BY <1>1, <3>1, RunsAre
  <2>2. said[kind] = [i \in 1..Len(hooks[kind]) |-> i]
        BY <1>2, Zenon DEF HeardAll, Heard
  <2> QED BY <2>1, <2>2, Zenon
<1>3. Rising(<<>>)
  <2>1. DOMAIN <<>> = {}
        OBVIOUS
  <2> QED BY <2>1, Zenon DEF Rising
<1>4. \A kind : Rising(said[kind]) <=> \A i, j \in DOMAIN said[kind] : i < j => said[kind][i] < said[kind][j]
      BY Zenon DEF Rising
<1> HIDE DEF All
<1>5. CASE Starting
  <2>1. PluginsContained
    <3>1. PICK p : List(p, PriorWork) /\ work = p \o HooksAhead
          BY <1>5, Zenon DEF Starting
    <3>2. List(p, UntypedWork)
          BY <3>1, ListUntyped, Zenon
    <3> DEFINE b == Phase("plugin hooks")
               c == Phase("prompt")
    <3>3. Untyped(b) /\ Untyped(c)
          BY DEF Untyped, Phase
    <3>4. HooksAhead = <<b>> \o <<c>>
          BY Zenon DEF HooksAhead
    <3> HIDE DEF b, c
    <3>5. Unraised(<<b>>) /\ Unraised(<<c>>) /\ IsList(<<b>>) /\ IsList(<<c>>) /\ Unraised(p) /\ IsList(p)
          BY <3>2, <3>3, UnraisedOnes, Joins, Zenon DEF List
    <3>6. Unraised(HooksAhead) /\ IsList(HooksAhead)
          BY <3>4, <3>5, UnraisedJoin, JoinIsList, Zenon
    <3>7. Unraised(work)
          BY <3>1, <3>5, <3>6, UnraisedJoin, Zenon
    <3> QED BY <3>7, Zenon DEF PluginsContained, Unraised
  <2>2. Rose
        BY <1>3, <1>5, Zenon DEF Starting
  <2>3. Rest1
        BY <1>5 DEF Starting
  <2> QED BY <1>4, <2>1, <2>2, <2>3, Zenon DEF HooksInTurn, All
<1>6. CASE Hooking
  <2>1. PluginsContained
    <3> DEFINE c == Phase("prompt")
    <3>1. Untyped(c)
          BY DEF Untyped, Phase
    <3> HIDE DEF c
    <3>2. HooksLeft("startup", c)
          BY <1>6, Zenon DEF Hooking, c
    <3>3. Unraised(work)
          BY <1>1, <3>1, <3>2, HooksUntyped, Zenon
    <3> QED BY <3>3, Zenon DEF PluginsContained, Unraised
  <2>2. Rose
        BY <1>3, <1>6, HooksRose, Zenon DEF Hooking
  <2>3. Rest1
        BY <1>6 DEF Hooking
  <2> QED BY <1>4, <2>1, <2>2, <2>3, Zenon DEF HooksInTurn, All
<1>7. CASE Prompting
  <2>1. PluginsContained
        BY <1>1, <1>7, LinedContained, Zenon DEF Prompting
  <2>2. Rose
        BY <1>3, <1>7, HooksRose, Zenon DEF Prompting
  <2>3. Rest1
        BY <1>1, <1>2, <1>7 DEF Prompting
  <2> QED BY <1>4, <2>1, <2>2, <2>3, Zenon DEF HooksInTurn, All
<1>8. CASE Leaving
  <2>1. PluginsContained
    <3> DEFINE c == [do |-> "save"]
    <3>1. Untyped(c)
          BY DEF Untyped
    <3> HIDE DEF c
    <3>2. HooksLeft("shutdown", c)
          BY <1>8, Zenon DEF Leaving, c
    <3>3. Unraised(work)
          BY <1>1, <3>1, <3>2, HooksUntyped, Zenon
    <3> QED BY <3>3, Zenon DEF PluginsContained, Unraised
  <2>2. Rose
        BY <1>8, HooksRose, Zenon DEF Leaving
  <2>3. Rest1
        BY <1>1, <1>2, <1>8 DEF Leaving
  <2> QED BY <1>4, <2>1, <2>2, <2>3, Zenon DEF HooksInTurn, All
<1>9. CASE Ended
  <2>1. PluginsContained
    <3>1. DOMAIN work = {}
          BY <1>9 DEF Ended
    <3> QED BY <3>1, Zenon DEF PluginsContained
  <2>2. Rose
        BY <1>9, Zenon DEF Ended
  <2>3. Rest1
        BY <1>1, <1>2, <1>9 DEF Ended
  <2> QED BY <1>4, <2>1, <2>2, <2>3, Zenon DEF HooksInTurn, All
<1> QED BY <1>5, <1>6, <1>7, <1>8, <1>9, Zenon DEF Course

\* The hooks of the plugins run once each and in turn, those of startup before the first
\* prompt and those of shutdown at the end; none of them ends the session or cuts its end
\* short, nor does a line that runs only plugin code: Ctrl+C alone does (plugins/manager.py,
\* _run_hook and invoke, core/shell.py, run and its shutdown).
THEOREM HooksInTurnAlways ==
    ASSUME ~WhilePublishing
    PROVE  Spec => []HooksInTurn
<1> DEFINE Inv == IInv /\ Course
<1>1. Init => Inv
      BY InitInv, CourseInit
<1>2. Inv /\ [Next]_vars => Inv'
      BY Invariance, CourseKept
<1>3. Inv => HooksInTurn
      BY CourseTurns
<1> QED BY <1>1, <1>2, <1>3, PTL DEF Spec
=============================================================================
