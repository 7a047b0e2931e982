--------------------------- MODULE SessionProofs ---------------------------
(***************************************************************************)
(* Theorems about Session, for every set of users, programs and plugins:   *)
(* plugins are published whole, and what is in force has been validated.   *)
(* The facts about lists, exceptions and calls that they rest on come      *)
(* first; HooksProofs uses them too.                                       *)
(***************************************************************************)
EXTENDS Session, TLAPS, WellFoundedInduction, FiniteSetTheorems

(***************************************************************************)
(* Lists.                                                                  *)
(***************************************************************************)
IsList(s) == \E D : s \in Seq(D)

\* What a list is after its first k members.
Rest(s, k) == SubSeq(s, k + 1, Len(s))

\* The numbers of a set that has zero and with each number the next are all of them.
LEMMA Numbers ==
    ASSUME NEW S, 0 \in S, \A n \in Nat : n \in S => n + 1 \in S
    PROVE  \A n \in Nat : n \in S
<1> DEFINE T == Nat \ S
<1> SUFFICES ASSUME T # {} PROVE FALSE
    OBVIOUS
<1>1. PICK m \in T : \A k \in T : <<k, m>> \notin OpToRel(<, Nat)
      BY WFMin, NatLessThanWellFounded, Zenon
<1>2. \A k \in T : ~(k < m)
      BY <1>1, Zenon DEF OpToRel
<1>3. m \in Nat /\ m # 0 /\ m - 1 \in Nat
      OBVIOUS
<1>4. m - 1 \in S
      BY <1>2, <1>3
<1> QED BY <1>3, <1>4

\* A set of numbers has a least one.
LEMMA LeastNumber ==
    ASSUME NEW T, T \subseteq Nat, T # {}
    PROVE  \E n \in T : \A m \in T : n <= m
<1> DEFINE R == OpToRel(<, Nat)
<1>1. PICK n \in T : \A m \in T : ~(<<m, n>> \in R)
      BY NatLessThanWellFounded, WFMin, Zenon
<1>2. \A m \in T : ~(m < n)
      BY <1>1 DEF OpToRel
<1> QED BY <1>2

\* Lists have members in common sets.
LEMMA Together ==
    /\ \A x, y : IsList(x) /\ IsList(y) => \E D : x \in Seq(D) /\ y \in Seq(D)
    /\ \A x, y, z : IsList(x) /\ IsList(y) /\ IsList(z) =>
          \E D : x \in Seq(D) /\ y \in Seq(D) /\ z \in Seq(D)
<1>1. ASSUME NEW D, NEW E, NEW s \in Seq(D) PROVE s \in Seq(D \cup E) /\ s \in Seq(E \cup D)
      OBVIOUS
<1>2. ASSUME NEW x, NEW y, IsList(x), IsList(y) PROVE \E D : x \in Seq(D) /\ y \in Seq(D)
  <2>1. PICK D : x \in Seq(D)
        BY <1>2 DEF IsList
  <2>2. PICK E : y \in Seq(E)
        BY <1>2 DEF IsList
  <2> QED BY <1>1, <2>1, <2>2
<1>3. ASSUME NEW x, NEW y, NEW z, IsList(x), IsList(y), IsList(z)
      PROVE  \E D : x \in Seq(D) /\ y \in Seq(D) /\ z \in Seq(D)
  <2>1. PICK D : x \in Seq(D) /\ y \in Seq(D)
        BY <1>2, <1>3
  <2>2. PICK E : z \in Seq(E)
        BY <1>3 DEF IsList
  <2> QED BY <1>1, <2>1, <2>2
<1> QED BY <1>2, <1>3

\* Lists joined.
LEMMA Joins ==
    /\ IsList(<<>>)
    /\ \A c : IsList(<<c>>) /\ Len(<<c>>) = 1 /\ <<c>>[1] = c
    /\ \A x : IsList(x) => <<>> \o x = x /\ x \o <<>> = x
    /\ \A x, y : IsList(x) /\ IsList(y) => IsList(x \o y)
    /\ \A x, y, z : IsList(x) /\ IsList(y) /\ IsList(z) => (x \o y) \o z = x \o (y \o z)
<1>1. IsList(<<>>)
  <2>1. <<>> \in Seq({})
        OBVIOUS
  <2> QED BY <2>1 DEF IsList
<1>2. ASSUME NEW c PROVE IsList(<<c>>)
  <2>1. <<c>> \in Seq({c})
        OBVIOUS
  <2> QED BY <2>1 DEF IsList
<1>3. ASSUME NEW x, IsList(x) PROVE <<>> \o x = x /\ x \o <<>> = x
  <2>1. PICK D : x \in Seq(D)
        BY <1>3 DEF IsList
  <2> QED BY <2>1
<1>4. ASSUME NEW x, NEW y, IsList(x), IsList(y) PROVE IsList(x \o y)
  <2>1. PICK D : x \in Seq(D) /\ y \in Seq(D)
        BY <1>4, Together
  <2>2. x \o y \in Seq(D)
        BY <2>1
  <2> QED BY <2>2 DEF IsList
<1>5. ASSUME NEW x, NEW y, NEW z, IsList(x), IsList(y), IsList(z)
      PROVE  (x \o y) \o z = x \o (y \o z)
  <2>1. PICK D : x \in Seq(D) /\ y \in Seq(D) /\ z \in Seq(D)
        BY <1>5, Together
  <2> QED BY <2>1
<1> QED BY <1>1, <1>2, <1>3, <1>4, <1>5

Associates(D) == \A x, y, z \in Seq(D) : (x \o y) \o z = x \o (y \o z)

\* Joining lists is associative, as a formula without bound domains.
LEMMA Association ==
    ASSUME NEW D PROVE Associates(D)
BY DEF Associates

\* Lists joined are a list.
LEMMA JoinIsList ==
    ASSUME NEW x, NEW y, IsList(x), IsList(y)
    PROVE  IsList(x \o y)
BY Joins

\* Joining three lists.
LEMMA Joined ==
    ASSUME NEW x, NEW y, NEW z, IsList(x), IsList(y), IsList(z)
    PROVE  (x \o y) \o z = x \o (y \o z)
BY Joins

JoinsEitherWay(x, y, z) == (x \o y) \o z = x \o (y \o z)

\* Three lists joined, as a formula of its own.
LEMMA ThreeJoined ==
    ASSUME NEW x, NEW y, NEW z, IsList(x), IsList(y), IsList(z)
    PROVE  JoinsEitherWay(x, y, z)
BY Joined DEF JoinsEitherWay

\* The first member of a list, and the others.
LEMMA Ends ==
    /\ \A x : IsList(x) => /\ Len(x) \in Nat /\ DOMAIN x = 1..Len(x) /\ (Len(x) = 0 <=> x = <<>>)
                           /\ x # <<>> => /\ Head(x) = x[1] /\ IsList(Tail(x))
                                          /\ x = <<Head(x)>> \o Tail(x)
    /\ \A x, y : IsList(x) /\ IsList(y) =>
          /\ x \o y = <<>> <=> x = <<>> /\ y = <<>>
          /\ x # <<>> => Head(x \o y) = Head(x) /\ Tail(x \o y) = Tail(x) \o y
          /\ Len(x \o y) = Len(x) + Len(y)
          /\ \A i \in 1..Len(x) : (x \o y)[i] = x[i]
          /\ \A i \in 1..Len(y) : (x \o y)[Len(x) + i] = y[i]
<1>1. ASSUME NEW x, IsList(x)
      PROVE  /\ Len(x) \in Nat /\ DOMAIN x = 1..Len(x) /\ (Len(x) = 0 <=> x = <<>>)
             /\ x # <<>> => /\ Head(x) = x[1] /\ IsList(Tail(x))
                            /\ x = <<Head(x)>> \o Tail(x)
  <2>1. PICK D : x \in Seq(D)
        BY <1>1 DEF IsList
  <2>2. Len(x) \in Nat /\ DOMAIN x = 1..Len(x) /\ (Len(x) = 0 <=> x = <<>>)
        BY <2>1
  <2>3. ASSUME x # <<>>
        PROVE  Head(x) = x[1] /\ Tail(x) \in Seq(D) /\ x = <<Head(x)>> \o Tail(x)
        BY <2>1, <2>3
  <2> QED BY <2>2, <2>3 DEF IsList
<1>2. ASSUME NEW x, NEW y, IsList(x), IsList(y)
      PROVE  /\ x \o y = <<>> <=> x = <<>> /\ y = <<>>
             /\ x # <<>> => Head(x \o y) = Head(x) /\ Tail(x \o y) = Tail(x) \o y
             /\ Len(x \o y) = Len(x) + Len(y)
             /\ \A i \in 1..Len(x) : (x \o y)[i] = x[i]
             /\ \A i \in 1..Len(y) : (x \o y)[Len(x) + i] = y[i]
  <2>1. PICK D : x \in Seq(D) /\ y \in Seq(D)
        BY <1>2, Together
  <2>2. Len(x \o y) = Len(x) + Len(y) /\ \A i \in 1..Len(x) : (x \o y)[i] = x[i]
        BY <2>1
  <2>3. \A i \in 1..Len(y) : (x \o y)[Len(x) + i] = y[i]
        BY <2>1
  <2>4. x \o y = <<>> <=> x = <<>> /\ y = <<>>
        BY <2>1
  <2>5. x # <<>> => Head(x \o y) = Head(x) /\ Tail(x \o y) = Tail(x) \o y
        BY <2>1
  <2> QED BY <2>2, <2>3, <2>4, <2>5
<1> QED BY <1>1, <1>2

\* Lists joined are empty if both are; they begin as the first does, and their lengths add up.
LEMMA JoinNotEmpty ==
    ASSUME NEW x, NEW y, IsList(x), IsList(y), x # <<>> \/ y # <<>> PROVE x \o y # <<>>
BY Ends

LEMMA HeadJoined ==
    ASSUME NEW x, NEW y, IsList(x), IsList(y), x # <<>> PROVE Head(x \o y) = Head(x)
BY Ends

LEMMA LengthJoined ==
    ASSUME NEW x, NEW y, IsList(x), IsList(y) PROVE Len(x \o y) = Len(x) + Len(y)
BY Ends

\* A list after its first members.
LEMMA RestIs ==
    ASSUME NEW s, IsList(s), NEW k \in 0..Len(s)
    PROVE  /\ IsList(Rest(s, k)) /\ Len(Rest(s, k)) = Len(s) - k
           /\ \A i \in 1..(Len(s) - k) : Rest(s, k)[i] = s[k + i]
           /\ k = 0 => Rest(s, k) = s
           /\ k = Len(s) => Rest(s, k) = <<>>
           /\ k < Len(s) => Rest(s, k) = <<s[k + 1]>> \o Rest(s, k + 1)
<1>1. PICK D : s \in Seq(D)
      BY DEF IsList
<1>2. /\ Rest(s, k) \in Seq(D) /\ Len(Rest(s, k)) = Len(s) - k
      /\ \A i \in 1..(Len(s) - k) : Rest(s, k)[i] = s[k + i]
      BY <1>1 DEF Rest
<1>3. k = 0 => Rest(s, k) = s
      BY <1>1 DEF Rest
<1>4. k = Len(s) => Rest(s, k) = <<>>
      BY <1>1 DEF Rest
<1>5. ASSUME k < Len(s) PROVE Rest(s, k) = <<s[k + 1]>> \o Rest(s, k + 1)
  <2>1. /\ Rest(s, k + 1) \in Seq(D) /\ Len(Rest(s, k + 1)) = Len(s) - k - 1
        /\ \A i \in 1..(Len(s) - k - 1) : Rest(s, k + 1)[i] = s[k + 1 + i]
        BY <1>1, <1>5 DEF Rest
  <2>2. s[k + 1] \in D /\ Len(s) \in Nat
        BY <1>1, <1>5
  <2> DEFINE t == Rest(s, k)
             u == <<s[k + 1]>> \o Rest(s, k + 1)
  <2>3. u \in Seq(D) /\ Len(u) = Len(s) - k
        BY <2>1, <2>2
  <2>4. ASSUME NEW i \in 1..(Len(s) - k) PROVE t[i] = u[i]
    <3>1. t[i] = s[k + i]
          BY <1>2
    <3>2. CASE i = 1
          BY <2>1, <2>2, <3>1, <3>2
    <3>3. CASE i # 1
      <4>1. i - 1 \in 1..(Len(s) - k - 1) /\ k + 1 + (i - 1) = k + i
            BY <2>2, <3>3
      <4>2. u[i] = Rest(s, k + 1)[i - 1]
            BY <2>1, <2>2, <4>1
      <4>3. Rest(s, k + 1)[i - 1] = s[k + 1 + (i - 1)]
            BY <2>1, <4>1
      <4> QED BY <3>1, <4>1, <4>2, <4>3
    <3> QED BY <3>2, <3>3
  <2>5. t \in Seq(D) /\ Len(t) = Len(u)
        BY <1>2, <2>3
  <2> HIDE DEF t, u
  <2>6. t = u
        BY <2>3, <2>4, <2>5, SMTT(40)
  <2> QED BY <2>6 DEF t, u
<1> QED BY <1>2, <1>3, <1>4, <1>5 DEF IsList

\* What is left of two lists joined.
LEMMA RestOfJoin ==
    ASSUME NEW x, NEW y, IsList(x), IsList(y)
    PROVE  /\ \A k \in 0..Len(x) : Rest(x \o y, k) = Rest(x, k) \o y
           /\ \A k \in 0..Len(y) : Rest(x \o y, Len(x) + k) = Rest(y, k)
<1>1. PICK D : x \in Seq(D) /\ y \in Seq(D)
      BY Together
<1>2. x \o y \in Seq(D) /\ Len(x \o y) = Len(x) + Len(y) /\ Len(x) \in Nat /\ Len(y) \in Nat
      BY <1>1
<1>3. ASSUME NEW k \in 0..Len(x) PROVE Rest(x \o y, k) = Rest(x, k) \o y
  <2> DEFINE t == Rest(x \o y, k)
             r == Rest(x, k)
             u == r \o y
  <2>1. t \in Seq(D) /\ Len(t) = Len(x) + Len(y) - k
        BY <1>2 DEF Rest
  <2>2. r \in Seq(D) /\ Len(r) = Len(x) - k
        BY <1>1 DEF Rest
  <2>3. \A i \in 1..(Len(x) - k) : r[i] = x[k + i]
        BY <1>1 DEF Rest
  <2>4. \A i \in 1..(Len(x) + Len(y) - k) : t[i] = (x \o y)[k + i]
        BY <1>2 DEF Rest
  <2> HIDE DEF t, r
  <2>5. u \in Seq(D) /\ Len(u) = Len(x) + Len(y) - k
        BY <1>1, <2>2
  <2>6. ASSUME NEW i \in 1..(Len(x) + Len(y) - k) PROVE t[i] = u[i]
    <3>1. CASE i <= Len(x) - k
      <4>1. (x \o y)[k + i] = x[k + i]
            BY <1>1, <3>1
      <4>2. u[i] = r[i]
            BY <1>1, <1>2, <2>2, <3>1
      <4> QED BY <2>3, <2>4, <3>1, <4>1, <4>2
    <3>2. CASE ~(i <= Len(x) - k)
      <4>1. (x \o y)[k + i] = y[k + i - Len(x)]
            BY <1>1, <3>2
      <4>2. u[i] = y[i - (Len(x) - k)]
            BY <1>1, <1>2, <2>2, <3>2
      <4>3. i - (Len(x) - k) = k + i - Len(x)
            BY <1>2
      <4> QED BY <2>4, <4>1, <4>2, <4>3
    <3> QED BY <3>1, <3>2
  <2> HIDE DEF u
  <2>7. t = u
        BY <2>1, <2>5, <2>6
  <2> QED BY <2>7 DEF t, u, r
<1>4. ASSUME NEW k \in 0..Len(y) PROVE Rest(x \o y, Len(x) + k) = Rest(y, k)
  <2> DEFINE t == Rest(x \o y, Len(x) + k)
             u == Rest(y, k)
  <2>1. t \in Seq(D) /\ Len(t) = Len(y) - k
        BY <1>2 DEF Rest
  <2>2. u \in Seq(D) /\ Len(u) = Len(y) - k
        BY <1>1 DEF Rest
  <2>3. \A i \in 1..(Len(y) - k) : u[i] = y[k + i]
        BY <1>1 DEF Rest
  <2>4. \A i \in 1..(Len(y) - k) : t[i] = (x \o y)[Len(x) + k + i]
        BY <1>2 DEF Rest
  <2>5. \A i \in 1..(Len(y) - k) : (x \o y)[Len(x) + k + i] = y[k + i]
        BY <1>1
  <2>6. Len(y) - k \in Nat
        BY <1>2
  <2> HIDE DEF t, u
  <2>7. \A i \in 1..(Len(y) - k) : t[i] = u[i]
        BY <2>3, <2>4, <2>5
  <2>8. t = u
        BY <2>1, <2>2, <2>6, <2>7
  <2> QED BY <2>8 DEF t, u
<1> QED BY <1>3, <1>4

(***************************************************************************)
(* Lists of lists, flattened.                                              *)
(***************************************************************************)
\* N steps from a, each of which leads from S to S.
Leads(f, a, m, S, step) ==
    /\ f \in [0..m -> S] /\ f[0] = a
    /\ \A n \in 1..m : f[n] = step[n][f[n - 1]]

\* There are such steps.
LEMMA Iterated ==
    ASSUME NEW S, NEW a \in S, NEW N \in Nat, NEW step \in [1..N -> [S -> S]]
    PROVE  \E f : Leads(f, a, N, S, step)
<1> DEFINE P == {m \in Nat : m <= N => \E f : Leads(f, a, m, S, step)}
<1>1. 0 \in P
  <2>1. Leads([n \in 0..0 |-> a], a, 0, S, step)
        BY DEF Leads
  <2> QED BY <2>1
<1>2. ASSUME NEW m \in Nat, m \in P PROVE m + 1 \in P
  <2>1. SUFFICES ASSUME m + 1 <= N PROVE \E f : Leads(f, a, m + 1, S, step)
        OBVIOUS
  <2>2. PICK f : Leads(f, a, m, S, step)
        BY <1>2, <2>1
  <2> DEFINE last == step[m + 1][f[m]]
             g == [n \in 0..(m + 1) |-> IF n = m + 1 THEN last ELSE f[n]]
  <2>3. f[m] \in S /\ last \in S
        BY <2>1, <2>2 DEF Leads
  <2>4. \A n \in 0..m : g[n] = f[n] /\ f[n] \in S
        BY <2>2 DEF Leads
  <2>5. g[m + 1] = last
        OBVIOUS
  <2>6. g \in [0..(m + 1) -> S] /\ g[0] = a
    <3> HIDE DEF last
    <3> QED BY <2>2, <2>3, <2>4 DEF Leads
  <2>7. ASSUME NEW n \in 1..(m + 1) PROVE g[n] = step[n][g[n - 1]]
    <3>1. n - 1 \in 0..m /\ g[n - 1] = f[n - 1]
          BY <2>4
    <3>2. CASE n = m + 1
          BY <2>5, <3>1, <3>2
    <3>3. CASE n # m + 1
      <4>1. n \in 1..m /\ n \in 0..m /\ g[n] = f[n]
            BY <2>4, <3>3
      <4>2. f[n] = step[n][f[n - 1]]
            BY <2>2, <4>1 DEF Leads
      <4> HIDE DEF g
      <4> QED BY <3>1, <4>1, <4>2
    <3> QED BY <3>2, <3>3
  <2> HIDE DEF g
  <2> QED BY <2>6, <2>7 DEF Leads
<1> HIDE DEF P
<1>3. N \in P
      BY <1>1, <1>2, Numbers
<1> QED BY <1>3 DEF P

\* What FlattenSeq computes on its way.
Flattens(seqs, f) ==
    /\ f = [i \in 1..Len(seqs) |-> f[i]]
    /\ \A i \in 1..Len(seqs) : f[i] = IF i = 1 THEN seqs[i] ELSE f[i - 1] \o seqs[i]

\* It is what it takes the last of.
LEMMA FlattenIs ==
    ASSUME NEW D, NEW seqs \in Seq(Seq(D)), seqs # <<>>
    PROVE  \E f : Flattens(seqs, f) /\ FlattenSeq(seqs) = f[Len(seqs)]
<1> DEFINE N == Len(seqs)
           step == [n \in 1..N |-> [s \in Seq(D) |-> s \o seqs[n]]]
<1>1. N \in Nat /\ N # 0 /\ \A i \in 1..N : seqs[i] \in Seq(D)
      OBVIOUS
<1>2. step \in [1..N -> [Seq(D) -> Seq(D)]]
  <2>1. \A n \in 1..N, s \in Seq(D) : s \o seqs[n] \in Seq(D)
        BY <1>1
  <2> QED BY <2>1
<1>3. PICK f : Leads(f, <<>>, N, Seq(D), step)
  <2>1. <<>> \in Seq(D)
        OBVIOUS
  <2> HIDE DEF step, N
  <2> QED BY <1>1, <1>2, <2>1, Iterated
<1>4. f[0] = <<>> /\ \A n \in 1..N : f[n - 1] \in Seq(D) /\ f[n] = step[n][f[n - 1]]
  <2> HIDE DEF step, N
  <2> QED BY <1>1, <1>3 DEF Leads
<1>5. \A n \in 1..N : f[n] = f[n - 1] \o seqs[n]
      BY <1>4
<1> HIDE DEF step, N
<1> DEFINE g == [i \in 1..N |-> f[i]]
           G(h) == [i \in 1..N |-> IF i = 1 THEN seqs[i] ELSE h[i - 1] \o seqs[i]]
<1>6. ASSUME NEW i \in 1..N PROVE f[i] = IF i = 1 THEN seqs[i] ELSE g[i - 1] \o seqs[i]
  <2>1. CASE i = 1
    <3>1. seqs[i] \in Seq(D)
          BY <1>1
    <3>2. f[i] = f[i - 1] \o seqs[i]
          BY <1>5
    <3>4. i - 1 = 0
          BY <2>1
    <3>3. <<>> \o seqs[i] = seqs[i]
          BY <3>1
    <3> QED BY <1>4, <2>1, <3>2, <3>3, <3>4
  <2>2. CASE i # 1
    <3>0. f[i] = f[i - 1] \o seqs[i]
          BY <1>5
    <3>1. i - 1 \in 1..N
          BY <1>1, <2>2
    <3>2. g[i - 1] = f[i - 1]
          BY <3>1, Zenon
    <3> QED BY <2>2, <3>0, <3>2
  <2> QED BY <2>1, <2>2
<1>7. g = G(g)
      BY <1>6, Zenon
<1>8. PICK h : h = G(h) /\ FlattenSeq(seqs) = h[N]
      BY <1>1, <1>7, Zenon DEF FlattenSeq, N
<1>9. ASSUME NEW i \in 1..N PROVE h[i] = IF i = 1 THEN seqs[i] ELSE h[i - 1] \o seqs[i]
  <2>1. h[i] = G(h)[i]
        BY <1>8, Zenon
  <2> QED BY <2>1, Zenon
<1>10. h = [i \in 1..N |-> h[i]]
      BY <1>8, <1>9, Zenon
<1> QED BY <1>8, <1>9, <1>10, Zenon DEF Flattens, N

\* The lists joined so far.
Sums(s, f) == f[0] = <<>> /\ \A k \in 1..Len(s) : f[k] = f[k - 1] \o s[k]

\* FlattenSeq joins them from the left.
LEMMA Flattening ==
    ASSUME NEW D, NEW s \in Seq(Seq(D))
    PROVE  \E f : /\ Sums(s, f) /\ \A k \in 0..Len(s) : f[k] \in Seq(D)
                  /\ FlattenSeq(s) = f[Len(s)]
<1> DEFINE N == Len(s)
<1>1. N \in Nat /\ (N = 0 <=> s = <<>>) /\ \A k \in 1..N : s[k] \in Seq(D)
      OBVIOUS
<1>2. CASE s = <<>>
  <2> DEFINE f == [k \in {0} |-> <<>>]
  <2>1. FlattenSeq(s) = <<>>
        BY <1>1, <1>2, Zenon DEF FlattenSeq
  <2>2. f[0] = <<>> /\ <<>> \in Seq(D) /\ Len(s) = 0
        BY <1>2
  <2>3. Sums(s, f) /\ \A k \in 0..Len(s) : f[k] \in Seq(D)
        BY <2>2 DEF Sums
  <2> QED BY <2>1, <2>2, <2>3
<1>3. CASE s # <<>>
  <2>1. PICK h : Flattens(s, h) /\ FlattenSeq(s) = h[N]
        BY <1>3, FlattenIs
  <2> DEFINE f == [k \in 0..N |-> IF k = 0 THEN <<>> ELSE h[k]]
  <2>2. \A k \in 1..N : h[k] = IF k = 1 THEN s[k] ELSE h[k - 1] \o s[k]
        BY <2>1 DEF Flattens
  <2> HIDE DEF N
  <2>3. f[0] = <<>> /\ \A k \in 1..N : f[k] = h[k]
        BY <1>1
  <2>4. ASSUME NEW k \in 1..N PROVE f[k] = f[k - 1] \o s[k]
    <3>1. CASE k = 1
      <4>1. <<>> \o s[k] = s[k]
            BY <1>1
      <4>2. f[k] = s[k] /\ k - 1 = 0
            BY <2>2, <2>3, <3>1
      <4> HIDE DEF f
      <4> QED BY <2>3, <4>1, <4>2
    <3>2. CASE k # 1
      <4>1. k - 1 \in 1..N
            BY <1>1, <3>2
      <4>2. f[k] = h[k - 1] \o s[k] /\ f[k - 1] = h[k - 1]
            BY <2>2, <2>3, <3>2, <4>1
      <4> HIDE DEF f
      <4> QED BY <4>2
    <3> QED BY <3>1, <3>2
  <2> HIDE DEF f
  <2> DEFINE P == {k \in Nat : k <= N => f[k] \in Seq(D)}
  <2>5. 0 \in P
    <3>1. <<>> \in Seq(D)
          OBVIOUS
    <3> QED BY <2>3, <3>1
  <2>6. ASSUME NEW k \in Nat, k \in P PROVE k + 1 \in P
    <3>1. SUFFICES ASSUME k + 1 <= N PROVE f[k + 1] \in Seq(D)
          OBVIOUS
    <3>2. k + 1 \in 1..N /\ (k + 1) - 1 = k /\ k <= N
          BY <1>1, <3>1
    <3>3. f[k + 1] = f[k] \o s[k + 1]
          BY <2>4, <3>2
    <3>4. f[k] \in Seq(D) /\ s[k + 1] \in Seq(D)
          BY <1>1, <2>6, <3>2
    <3> QED BY <3>3, <3>4
  <2> HIDE DEF P
  <2>7. \A k \in Nat : k \in P
        BY <2>5, <2>6, Numbers
  <2>8. \A k \in 0..N : f[k] \in Seq(D)
        BY <1>1, <2>7 DEF P
  <2>9. N # 0 /\ N \in 1..N
        BY <1>1, <1>3
  <2>10. FlattenSeq(s) = f[N]
        BY <2>1, <2>3, <2>9
  <2> QED BY <2>3, <2>4, <2>8, <2>10 DEF Sums, N
<1> QED BY <1>2, <1>3

\* It is a list of the members.
LEMMA FlatType ==
    ASSUME NEW D, NEW s \in Seq(Seq(D))
    PROVE  FlattenSeq(s) \in Seq(D)
<1>1. Len(s) \in 0..Len(s)
      OBVIOUS
<1> QED BY <1>1, Flattening

\* One list more.
LEMMA FlatMore ==
    ASSUME NEW D, NEW s \in Seq(Seq(D)), NEW t \in Seq(Seq(D)), Len(t) = Len(s) + 1,
           \A k \in 1..Len(s) : t[k] = s[k]
    PROVE  FlattenSeq(t) = FlattenSeq(s) \o t[Len(t)]
<1> DEFINE N == Len(s)
<1>1. N \in Nat
      OBVIOUS
<1>2. PICK f : Sums(s, f) /\ FlattenSeq(s) = f[N]
      BY Flattening
<1>3. PICK g : Sums(t, g) /\ FlattenSeq(t) = g[N + 1]
      BY Flattening
<1>4. f[0] = <<>> /\ \A k \in 1..N : f[k] = f[k - 1] \o s[k]
      BY <1>2 DEF Sums
<1>5. g[0] = <<>> /\ \A k \in 1..(N + 1) : g[k] = g[k - 1] \o t[k]
      BY <1>3 DEF Sums
<1> HIDE DEF N
<1> DEFINE P == {k \in Nat : k <= N => f[k] = g[k]}
<1>6. 0 \in P
      BY <1>4, <1>5
<1>7. ASSUME NEW k \in Nat, k \in P PROVE k + 1 \in P
  <2>1. SUFFICES ASSUME k + 1 <= N PROVE f[k + 1] = g[k + 1]
        OBVIOUS
  <2>2. k + 1 \in 1..N /\ k + 1 \in 1..(N + 1) /\ (k + 1) - 1 = k /\ k <= N
        BY <1>1, <2>1
  <2>3. f[k] = g[k] /\ s[k + 1] = t[k + 1]
        BY <1>7, <2>2 DEF N
  <2> QED BY <1>4, <1>5, <2>2, <2>3
<1> HIDE DEF P
<1>8. N \in P
      BY <1>1, <1>6, <1>7, Numbers
<1>9. f[N] = g[N]
      BY <1>1, <1>8 DEF P
<1>10. N + 1 \in 1..(N + 1) /\ (N + 1) - 1 = N
      BY <1>1
<1>11. g[N + 1] = g[N] \o t[N + 1]
      BY <1>5, <1>10
<1> QED BY <1>2, <1>3, <1>9, <1>11 DEF N

\* Lists of which none has a member.
LEMMA FlatEmpty ==
    ASSUME NEW D, NEW s \in Seq(Seq(D)), \A k \in 1..Len(s) : s[k] = <<>>
    PROVE  FlattenSeq(s) = <<>>
<1> DEFINE N == Len(s)
<1>1. N \in Nat
      OBVIOUS
<1>2. PICK f : Sums(s, f) /\ FlattenSeq(s) = f[N]
      BY Flattening
<1>3. f[0] = <<>> /\ \A k \in 1..N : f[k] = f[k - 1] \o s[k]
      BY <1>2 DEF Sums
<1> DEFINE P == {k \in Nat : k <= N => f[k] = <<>>}
<1>4. 0 \in P
      BY <1>3
<1>5. ASSUME NEW k \in Nat, k \in P PROVE k + 1 \in P
  <2>1. SUFFICES ASSUME k + 1 <= N PROVE f[k + 1] = <<>>
        OBVIOUS
  <2>2. k + 1 \in 1..N /\ (k + 1) - 1 = k /\ k <= N
        BY <1>1, <2>1
  <2>3. f[k] = <<>> /\ s[k + 1] = <<>>
        BY <1>5, <2>2
  <2>4. <<>> \o <<>> = <<>>
        BY Joins
  <2>5. f[k + 1] = f[k] \o s[k + 1]
        BY <1>3, <2>2
  <2> QED BY <2>3, <2>4, <2>5
<1> HIDE DEF P, N
<1>6. N \in P
      BY <1>1, <1>4, <1>5, Numbers
<1> QED BY <1>1, <1>2, <1>6 DEF P

\* The first of the lists that has members.
LEMMA FlatFirst ==
    ASSUME NEW D, NEW s \in Seq(Seq(D)), NEW t \in Seq(Seq(D)), Len(t) = Len(s),
           NEW i \in 1..Len(s), \A k \in 1..(i - 1) : s[k] = <<>>, t[i] = <<>>,
           \A k \in 1..Len(s) : k # i => t[k] = s[k]
    PROVE  FlattenSeq(s) = s[i] \o FlattenSeq(t)
<1> DEFINE N == Len(s)
<1>0. \A k \in 1..N : s[k] \in Seq(D)
      OBVIOUS
<1>1. N \in Nat /\ i \in 1..N /\ i \in Nat /\ 1 <= i /\ i <= N
      OBVIOUS
<1>s. s[i] \in Seq(D)
      OBVIOUS
<1>2. PICK f : Sums(s, f) /\ FlattenSeq(s) = f[N]
      BY Flattening
<1>3. PICK g : Sums(t, g) /\ (\A k \in 0..N : g[k] \in Seq(D)) /\ FlattenSeq(t) = g[N]
      BY Flattening, ZenonT(60)
<1>4. f[0] = <<>> /\ \A k \in 1..N : f[k] = f[k - 1] \o s[k]
      BY <1>2 DEF Sums
<1>5. g[0] = <<>> /\ \A k \in 1..N : g[k] = g[k - 1] \o t[k]
      BY <1>3 DEF Sums
<1>6. \A k \in 1..N : k # i => t[k] = s[k]
      OBVIOUS
<1> HIDE DEF N
<1> DEFINE Before(k) == k < i => f[k] = <<>> /\ g[k] = <<>>
           Behind(k) == ~(k < i) => f[k] = s[i] \o g[k]
           P == {k \in Nat : k <= N => Before(k) /\ Behind(k)}
<1>00. Before(0) /\ Behind(0)
      BY <1>1, <1>4, <1>5
<1>7. 0 \in P
  <2> HIDE DEF Before, Behind
  <2> QED BY <1>00
<1>8. ASSUME NEW k \in Nat, k \in P PROVE k + 1 \in P
  <2>1. SUFFICES ASSUME k + 1 <= N
                 PROVE  Before(k + 1) /\ Behind(k + 1)
    <3> HIDE DEF Before, Behind
    <3> QED OBVIOUS
  <2>2. k + 1 \in 1..N /\ (k + 1) - 1 = k /\ k <= N /\ k \in 0..N
        BY <1>1, <2>1
  <2>3. f[k + 1] = f[k] \o s[k + 1] /\ g[k + 1] = g[k] \o t[k + 1]
        BY <1>4, <1>5, <2>2
  <2>4. <<>> \o <<>> = <<>> /\ <<>> \o s[i] = s[i] /\ s[i] \o <<>> = s[i]
        BY <1>s
  <2>5. CASE k + 1 < i
    <3>1. k < i /\ k + 1 \in 1..(i - 1) /\ k + 1 # i
          BY <1>1, <2>5
    <3>2. s[k + 1] = <<>> /\ t[k + 1] = <<>>
          BY <1>6, <2>2, <3>1
    <3>3. f[k] = <<>> /\ g[k] = <<>>
          BY <1>8, <2>2, <3>1
    <3> QED BY <2>3, <2>4, <2>5, <3>2, <3>3
  <2>6. CASE k + 1 = i
    <3>1. k < i
          BY <2>6
    <3>2. f[k] = <<>> /\ g[k] = <<>>
          BY <1>8, <2>2, <3>1
    <3>3. f[k + 1] = <<>> \o s[i] /\ g[k + 1] = <<>> \o <<>>
          BY <2>3, <2>6, <3>2
    <3>4. ~(k + 1 < i)
          BY <2>6
    <3> QED BY <2>4, <3>3, <3>4
  <2>7. CASE k + 1 > i
    <3>1. ~(k < i) /\ k + 1 # i /\ ~(k + 1 < i)
          BY <1>1, <2>7
    <3>2. f[k] = s[i] \o g[k]
          BY <1>8, <2>2, <3>1
    <3>3. t[k + 1] = s[k + 1] /\ g[k] \in Seq(D) /\ s[k + 1] \in Seq(D)
          BY <1>0, <1>3, <1>6, <2>2, <3>1 DEF N
    <3>4. (s[i] \o g[k]) \o s[k + 1] = s[i] \o (g[k] \o s[k + 1])
      <4>1. Associates(D)
            BY Association, Zenon
      <4> QED BY <1>s, <3>3, <4>1, Zenon DEF Associates
    <3>5. f[k + 1] = s[i] \o g[k + 1]
      <4> HIDE DEF Before, Behind
      <4> QED BY <2>3, <3>2, <3>3, <3>4
    <3> QED BY <3>1, <3>5, Zenon
  <2>8. k + 1 < i \/ k + 1 = i \/ k + 1 > i
        BY <1>1
  <2> HIDE DEF Before, Behind
  <2> QED BY <2>5, <2>6, <2>7, <2>8, Zenon
<1> HIDE DEF P
<1>9. N \in P
      BY <1>1, <1>7, <1>8, Numbers
<1>11. Behind(N)
  <2> HIDE DEF Behind, Before
  <2> QED BY <1>1, <1>9 DEF P
<1>10. f[N] = s[i] \o g[N]
  <2>1. ~(N < i)
        BY <1>1
  <2> QED BY <1>11, <2>1, Zenon
<1> QED BY <1>2, <1>3, <1>10

\* The last of the lists that has members.
LEMMA FlatLast ==
    ASSUME NEW D, NEW s \in Seq(Seq(D)), NEW t \in Seq(Seq(D)), Len(t) = Len(s),
           NEW i \in 1..Len(s), \A k \in (i + 1)..Len(s) : s[k] = <<>>, t[i] = <<>>,
           \A k \in 1..Len(s) : k # i => t[k] = s[k]
    PROVE  FlattenSeq(s) = FlattenSeq(t) \o s[i]
<1> DEFINE N == Len(s)
<1>0. \A k \in 1..N : s[k] \in Seq(D)
      OBVIOUS
<1>1. N \in Nat /\ i \in 1..N /\ i \in Nat /\ 1 <= i /\ i <= N
      OBVIOUS
<1>s. s[i] \in Seq(D)
      OBVIOUS
<1>2. PICK f : Sums(s, f) /\ FlattenSeq(s) = f[N]
      BY Flattening
<1>3. PICK g : Sums(t, g) /\ (\A k \in 0..N : g[k] \in Seq(D)) /\ FlattenSeq(t) = g[N]
      BY Flattening, ZenonT(60)
<1>4. f[0] = <<>> /\ \A k \in 1..N : f[k] = f[k - 1] \o s[k]
      BY <1>2 DEF Sums
<1>5. g[0] = <<>> /\ \A k \in 1..N : g[k] = g[k - 1] \o t[k]
      BY <1>3 DEF Sums
<1>6. /\ \A k \in 1..N : k # i => t[k] = s[k]
      /\ \A k \in (i + 1)..N : s[k] = <<>>
      OBVIOUS
<1> HIDE DEF N
<1> DEFINE Before(k) == k < i => f[k] = g[k]
           Behind(k) == ~(k < i) => f[k] = g[k] \o s[i]
           P == {k \in Nat : k <= N => Before(k) /\ Behind(k)}
<1>00. Before(0) /\ Behind(0)
      BY <1>1, <1>4, <1>5
<1>7. 0 \in P
  <2> HIDE DEF Before, Behind
  <2> QED BY <1>00
<1>8. ASSUME NEW k \in Nat, k \in P PROVE k + 1 \in P
  <2>1. SUFFICES ASSUME k + 1 <= N
                 PROVE  Before(k + 1) /\ Behind(k + 1)
    <3>1. k + 1 \in Nat
          OBVIOUS
    <3> HIDE DEF Before, Behind
    <3> QED BY <3>1, Zenon
  <2>2. k + 1 \in 1..N /\ (k + 1) - 1 = k /\ k <= N /\ k \in 0..N
        BY <1>1, <2>1
  <2>3. f[k + 1] = f[k] \o s[k + 1] /\ g[k + 1] = g[k] \o t[k + 1]
        BY <1>4, <1>5, <2>2
  <2>4. g[k] \in Seq(D) /\ g[k] \o <<>> = g[k]
        BY <1>3, <2>2, SMTT(40) DEF N
  <2>5. CASE k + 1 < i
    <3>1. k < i /\ k + 1 # i
          BY <1>1, <2>5
    <3>2. s[k + 1] = t[k + 1] /\ f[k] = g[k]
          BY <1>6, <1>8, <2>2, <3>1
    <3> QED BY <2>3, <2>5, <3>2
  <2>6. CASE k + 1 = i
    <3>1. k < i
          BY <2>6
    <3>2. f[k] = g[k]
          BY <1>8, <2>2, <3>1
    <3>3. f[k + 1] = g[k] \o s[i] /\ g[k + 1] = g[k] \o <<>>
          BY <2>3, <2>6, <3>2
    <3>4. ~(k + 1 < i)
          BY <2>6
    <3> QED BY <2>4, <3>3, <3>4
  <2>7. CASE k + 1 > i
    <3>1. ~(k < i) /\ k + 1 # i /\ ~(k + 1 < i) /\ k + 1 \in (i + 1)..N
          BY <1>1, <2>2, <2>7
    <3>2. f[k] = g[k] \o s[i]
          BY <1>8, <2>2, <3>1
    <3>3. t[k + 1] = <<>> /\ s[k + 1] = <<>>
          BY <1>6, <2>2, <3>1
    <3>4. (g[k] \o s[i]) \o <<>> = g[k] \o s[i]
          BY <1>s, <2>4
    <3>5. f[k + 1] = g[k + 1] \o s[i]
      <4> HIDE DEF Before, Behind
      <4> QED BY <2>3, <2>4, <3>2, <3>3, <3>4
    <3> QED BY <3>1, <3>5, Zenon
  <2>8. k + 1 < i \/ k + 1 = i \/ k + 1 > i
        BY <1>1
  <2> HIDE DEF Before, Behind
  <2> QED BY <2>5, <2>6, <2>7, <2>8, Zenon
<1> HIDE DEF P
<1>9. N \in P
      BY <1>1, <1>7, <1>8, Numbers
<1>11. Behind(N)
  <2> HIDE DEF Behind, Before
  <2> QED BY <1>1, <1>9 DEF P
<1>10. f[N] = g[N] \o s[i]
  <2>1. ~(N < i)
        BY <1>1
  <2> QED BY <1>11, <2>1, Zenon
<1> QED BY <1>2, <1>3, <1>10

(***************************************************************************)
(* What work consists of.                                                  *)
(***************************************************************************)
QuietFrames == {"safely", "rc line", "rc file", "drop-in", "user hook", "plugin hook", "dispatch",
                "configure"}

EndItem(frames) == [do : {"end"}, frame : frames, raised : BOOLEAN, of : Nat]

\* What leaves the plugins alone and is done at any time.
Quiet(c) ==
    \/ Written(c)
    \/ c.do \in {"file", "loopvar", "prepend", "notice", "locals", "restore", "tell"}
    \/ c \in EndItem(QuietFrames)

\* What else is done before plugins are looked for, if the files come to a configuration.
Early(c, m) ==
    \/ c.do \in {"enable", "disable", "allow"}
    \/ c.do = "declare" /\ c.config = m
    \/ c = Phase("configure")

\* What else is done when the plugins are loaded.
Late(c) ==
    \/ c.do \in {"run", "save"}
    \/ c \in {Phase("user hooks"), Phase("plugin hooks"), Phase("prompt")}
    \/ c \in EndItem({"typed", "prompt"})

Discovers(c) == c.do = "phase" /\ c.key = "discover"

\* What is not left to be done when the plugins' startup hooks are run.
Prior(c) ==
    /\ c.do \notin {"run", "save"}
    /\ c.do = "phase" => c.key \notin {"plugin hooks", "prompt"}
    /\ c.do = "end" => c.frame \notin {"typed", "prompt"}

\* What is not the end of a line.
Untyped(c) == c.do = "end" => c.frame # "typed"

\* The levels of work.
QuietWork    == <<"quiet">>
EarlyWork(m) == <<"early", m>>
LateWork     == <<"late">>
KnownWork    == <<"known">>
PriorWork    == <<"prior">>
UntypedWork  == <<"untyped">>

\* What the user's files come to.
Ours == MergeDocuments(Files(user.docs))

Fits(c, level) ==
    \/ Quiet(c)
    \/ \E m : level = EarlyWork(m) /\ Early(c, m)
    \/ level = LateWork /\ Late(c)
    \/ level = KnownWork /\ ~Discovers(c)
    \/ level = PriorWork /\ Prior(c)
    \/ level = UntypedWork /\ Untyped(c)

List(s, level) == IsList(s) /\ \A i \in DOMAIN s : Fits(s[i], level)

\* They are different.
LEMMA Levels ==
    /\ \A m : \A level \in {QuietWork, LateWork, KnownWork, PriorWork, UntypedWork} : EarlyWork(m) # level
    /\ \A m, n : EarlyWork(m) = EarlyWork(n) => m = n
    /\ QuietWork # LateWork /\ QuietWork # KnownWork /\ LateWork # KnownWork
    /\ PriorWork \notin {QuietWork, LateWork, KnownWork}
    /\ UntypedWork \notin {QuietWork, LateWork, KnownWork, PriorWork}
<1>1. /\ "early" # "quiet" /\ "early" # "late" /\ "early" # "known" /\ "early" # "prior"
      /\ "early" # "untyped"
      OBVIOUS
<1>2. "quiet" # "late" /\ "quiet" # "known" /\ "late" # "known"
      OBVIOUS
<1>p. /\ "prior" # "quiet" /\ "prior" # "late" /\ "prior" # "known"
      /\ "untyped" # "quiet" /\ "untyped" # "late" /\ "untyped" # "known" /\ "untyped" # "prior"
      OBVIOUS
<1>3. /\ \A m : EarlyWork(m)[1] = "early" /\ EarlyWork(m)[2] = m
      /\ QuietWork[1] = "quiet" /\ LateWork[1] = "late" /\ KnownWork[1] = "known"
      /\ PriorWork[1] = "prior" /\ UntypedWork[1] = "untyped"
  <2>1. \A a, b : <<a, b>>[1] = a /\ <<a, b>>[2] = b /\ <<a>>[1] = a
        OBVIOUS
  <2> QED BY <2>1, Zenon DEF EarlyWork, QuietWork, LateWork, KnownWork, PriorWork, UntypedWork
<1>4. ASSUME NEW m, NEW n, EarlyWork(m) = EarlyWork(n) PROVE m = n
  <2>1. EarlyWork(m)[2] = m /\ EarlyWork(n)[2] = n
        BY <1>3, Zenon
  <2>2. EarlyWork(m)[2] = EarlyWork(n)[2]
        BY <1>4
  <2> QED BY <2>1, <2>2
<1>5. ASSUME NEW m, NEW level \in {QuietWork, LateWork, KnownWork, PriorWork, UntypedWork}
      PROVE  EarlyWork(m) # level
      BY <1>1, <1>3, Zenon
<1>6. QuietWork # LateWork /\ QuietWork # KnownWork /\ LateWork # KnownWork
      BY <1>2, <1>3, Zenon
<1>7. /\ PriorWork # QuietWork /\ PriorWork # LateWork /\ PriorWork # KnownWork
      /\ UntypedWork # QuietWork /\ UntypedWork # LateWork /\ UntypedWork # KnownWork
      /\ UntypedWork # PriorWork
      BY <1>p, <1>3, Zenon
<1> QED BY <1>4, <1>5, <1>6, <1>7, Zenon

\* Nothing fits every level.
LEMMA ListEmpty ==
    ASSUME NEW level PROVE List(<<>>, level)
<1>1. IsList(<<>>)
      BY Joins
<1>2. DOMAIN <<>> = {}
      OBVIOUS
<1> QED BY <1>1, <1>2, Zenon DEF List

\* A call that fits is a list that fits.
LEMMA ListOne ==
    ASSUME NEW level, NEW c, Fits(c, level) PROVE List(<<c>>, level)
<1>1. IsList(<<c>>)
      BY Joins
<1>2. \A i \in DOMAIN <<c>> : <<c>>[i] = c
      OBVIOUS
<1> QED BY <1>1, <1>2, Zenon DEF List

\* What fits, joined, fits.
LEMMA ListJoin ==
    ASSUME NEW level, NEW x, NEW y, List(x, level), List(y, level)
    PROVE  List(x \o y, level)
<1>1. IsList(x) /\ IsList(y)
      BY DEF List
<1>2. /\ Len(x) \in Nat /\ DOMAIN x = 1..Len(x) /\ Len(y) \in Nat /\ DOMAIN y = 1..Len(y)
      /\ DOMAIN (x \o y) = 1..Len(x \o y) /\ IsList(x \o y)
      BY <1>1, Ends, JoinIsList
<1>3. /\ Len(x \o y) = Len(x) + Len(y)
      /\ \A i \in 1..Len(x) : (x \o y)[i] = x[i]
      /\ \A i \in 1..Len(y) : (x \o y)[Len(x) + i] = y[i]
      BY <1>1, Ends
<1>4. ASSUME NEW i \in DOMAIN (x \o y) PROVE Fits((x \o y)[i], level)
  <2>1. CASE i \in 1..Len(x)
    <3>1. Fits(x[i], level)
          BY <1>2, <2>1 DEF List
    <3>2. (x \o y)[i] = x[i]
          BY <1>3, <2>1
    <3> QED BY <3>1, <3>2, Zenon
  <2>2. CASE i \notin 1..Len(x)
    <3> DEFINE j == i - Len(x)
    <3>1. i \in 1..(Len(x) + Len(y))
          BY <1>2, <1>3, Zenon
    <3>2. j \in 1..Len(y) /\ i = Len(x) + j
          BY <1>2, <2>2, <3>1
    <3> HIDE DEF j
    <3>3. Fits(y[j], level)
          BY <1>2, <3>2 DEF List
    <3>4. (x \o y)[i] = y[j]
          BY <1>3, <3>2, Zenon
    <3> QED BY <3>3, <3>4, Zenon
  <2> QED BY <2>1, <2>2
<1> QED BY <1>2, <1>4, Zenon DEF List

\* The head and the tail of what fits fit.
LEMMA ListHead ==
    ASSUME NEW level, NEW x, List(x, level), x # <<>>
    PROVE  Fits(Head(x), level) /\ List(Tail(x), level)
<1>1. PICK D : x \in Seq(D)
      BY DEF List, IsList
<1>2. 1 \in DOMAIN x /\ Head(x) = x[1]
      BY <1>1
<1>3. \A i \in DOMAIN Tail(x) : i + 1 \in DOMAIN x /\ Tail(x)[i] = x[i + 1]
      BY <1>1
<1>4. IsList(Tail(x))
  <2>1. Tail(x) \in Seq(D)
        BY <1>1
  <2> QED BY <2>1 DEF IsList
<1>5. \A i \in DOMAIN x : Fits(x[i], level)
      BY DEF List
<1>6. \A i \in DOMAIN Tail(x) : Fits(Tail(x)[i], level)
      BY <1>3, <1>5, Zenon
<1>7. Fits(Head(x), level)
      BY <1>2, <1>5, Zenon
<1> QED BY <1>4, <1>6, <1>7, Zenon DEF List

\* What is left of a list that fits, fits.
LEMMA ListRest ==
    ASSUME NEW level, NEW x, List(x, level), NEW k \in 0..Len(x)
    PROVE  List(Rest(x, k), level)
<1>1. IsList(x) /\ \A i \in DOMAIN x : Fits(x[i], level)
      BY DEF List
<1>2. Len(x) \in Nat /\ DOMAIN x = 1..Len(x)
      BY <1>1, Ends
<1>3. IsList(Rest(x, k)) /\ Len(Rest(x, k)) = Len(x) - k /\ \A i \in 1..(Len(x) - k) : Rest(x, k)[i] = x[k + i]
      BY <1>1, RestIs
<1>4. DOMAIN Rest(x, k) = 1..(Len(x) - k)
      BY <1>3, Ends
<1>5. ASSUME NEW i \in DOMAIN Rest(x, k) PROVE Fits(Rest(x, k)[i], level)
  <2>1. i \in 1..(Len(x) - k) /\ k + i \in DOMAIN x
        BY <1>2, <1>4
  <2>2. Rest(x, k)[i] = x[k + i]
        BY <1>3, <2>1, Zenon
  <2> QED BY <1>1, <2>1, <2>2, Zenon
<1> QED BY <1>3, <1>5, Zenon DEF List

\* A function on the first numbers is a list.
LEMMA ListOf ==
    ASSUME NEW level, NEW n \in Nat, NEW s, s = [i \in 1..n |-> s[i]],
           \A i \in 1..n : Fits(s[i], level)
    PROVE  List(s, level)
<1>1. DOMAIN s = 1..n
      BY Zenon
<1>2. IsList(s)
  <2> DEFINE D == {s[i] : i \in 1..n}
  <2>1. s \in [1..n -> D]
        BY Zenon
  <2>2. s \in Seq(D)
    <3> HIDE DEF D
    <3> QED BY <2>1
  <2> QED BY <2>2 DEF IsList
<1> QED BY <1>1, <1>2, Zenon DEF List

\* The members of such a list of lists are in a common set.
LEMMA ListOfLists ==
    ASSUME NEW n \in Nat, NEW s, s = [i \in 1..n |-> s[i]], \A i \in 1..n : IsList(s[i])
    PROVE  s \in Seq(Seq(UNION {{s[i][j] : j \in DOMAIN s[i]} : i \in 1..n}))
<1> DEFINE D == UNION {{s[i][j] : j \in DOMAIN s[i]} : i \in 1..n}
<1>1. ASSUME NEW i \in 1..n PROVE s[i] \in Seq(D)
  <2>1. PICK E : s[i] \in Seq(E)
        BY Zenon DEF IsList
  <2> DEFINE x == s[i]
  <2>2. x \in Seq(E)
        BY <2>1
  <2>3. \A j \in DOMAIN x : x[j] \in D
    <3>1. {s[i][j] : j \in DOMAIN s[i]} \subseteq D
          OBVIOUS
    <3>2. \A j \in DOMAIN x : x[j] \in {s[i][j2] : j2 \in DOMAIN s[i]}
          BY Zenon
    <3> QED BY <3>1, <3>2, Zenon
  <2> HIDE DEF x, D
  <2>4. Len(x) \in Nat /\ DOMAIN x = 1..Len(x) /\ x = [j \in 1..Len(x) |-> x[j]]
        BY <2>2
  <2>5. x \in [1..Len(x) -> D]
        BY <2>3, <2>4
  <2>6. x \in Seq(D)
        BY <2>4, <2>5
  <2> QED BY <2>6 DEF x
<1> HIDE DEF D
<1>2. s \in [1..n -> Seq(D)]
      BY <1>1, Zenon
<1>3. s \in Seq(Seq(D))
  <2> DEFINE S == Seq(D)
  <2>1. s \in [1..n -> S]
        BY <1>2
  <2> HIDE DEF S
  <2>2. s \in Seq(S)
        BY <2>1
  <2> QED BY <2>2 DEF S
<1> QED BY <1>3 DEF D

\* Lists that fit, flattened, fit.
LEMMA ListFlat ==
    ASSUME NEW level, NEW n \in Nat, NEW s, s = [i \in 1..n |-> s[i]],
           \A i \in 1..n : List(s[i], level)
    PROVE  List(FlattenSeq(s), level)
<1> DEFINE D == UNION {{s[i][j] : j \in DOMAIN s[i]} : i \in 1..n}
           x == FlattenSeq(s)
<1>1. \A i \in 1..n : IsList(s[i]) /\ \A j \in DOMAIN s[i] : Fits(s[i][j], level)
      BY DEF List
<1>2. s \in Seq(Seq(D))
  <2>1. \A i \in 1..n : IsList(s[i])
        BY <1>1
  <2> QED BY <2>1, ListOfLists
<1>3. \A c \in D : Fits(c, level)
      BY <1>1, Zenon
<1> HIDE DEF D
<1>4. x \in Seq(D)
      BY <1>2, FlatType, Zenon
<1> HIDE DEF x
<1>5. \A i \in DOMAIN x : x[i] \in D
      BY <1>4
<1>6. IsList(x)
      BY <1>4 DEF IsList
<1>7. List(x, level)
      BY <1>3, <1>5, <1>6, Zenon DEF List
<1> QED BY <1>7 DEF x

\* What fits at any time, and what discovers no plugins.
LEMMA ListWeaker ==
    ASSUME NEW x
    PROVE  /\ List(x, QuietWork) => \A level : List(x, level)
           /\ List(x, LateWork) => List(x, KnownWork)
<1>1. ASSUME NEW c, Fits(c, QuietWork) PROVE \A level : Fits(c, level)
      BY <1>1, Levels, Zenon DEF Fits
<1>2. ASSUME NEW c, Fits(c, LateWork) PROVE Fits(c, KnownWork)
  <2>1. ASSUME Late(c) PROVE ~Discovers(c)
    <3>1. CASE c.do \in {"run", "save"}
          BY <3>1 DEF Discovers
    <3>2. CASE c \in {Phase("user hooks"), Phase("plugin hooks"), Phase("prompt")}
      <4>1. \A name : Phase(name).key = name
            BY DEF Phase
      <4> QED BY <3>2, <4>1 DEF Discovers
    <3>3. CASE c \in EndItem({"typed", "prompt"})
          BY <3>3 DEF Discovers, EndItem
    <3> QED BY <2>1, <3>1, <3>2, <3>3, Zenon DEF Late
  <2> QED BY <1>2, <2>1, Levels, Zenon DEF Fits
<1> QED BY <1>1, <1>2, Zenon DEF List

\* A user's program is quiet: it stages, loads, ends and publishes nothing.
LEMMA ListOfCode ==
    ASSUME NEW s \in Program PROVE List(s, QuietWork)
<1>1. \A i \in DOMAIN s : s[i] \in Code
      BY DEF Program
<1>2. IsList(s)
      BY DEF Program, IsList
<1>3. \A c \in Code : Fits(c, QuietWork)
      BY CodeAssumption DEF Fits, Quiet
<1> QED BY <1>1, <1>2, <1>3, Zenon DEF List

(***************************************************************************)
(* Exceptions.                                                             *)
(***************************************************************************)
Catching(w, kind) == {i \in DOMAIN w : w[i].do = "end" /\ kind \in Caught(w[i].frame)}

Raised(c) == [c EXCEPT !.raised = TRUE]

UnwoundIn(w, kind) ==
    LET ends == Catching(w, kind)
        i    == CHOOSE j \in ends : \A m \in ends : j <= m
    IN IF ends = {} THEN <<>> ELSE <<Raised(w[i])>> \o Rest(w, i)

\* What an exception leaves of the work.
LEMMA UnwoundIs == ASSUME NEW kind PROVE Unwound(kind) = UnwoundIn(work, kind)
BY Zenon DEF Unwound, UnwoundIn, Catching, Raised, Rest

\* Where nothing catches the exception, nothing is left.
LEMMA UnwindsNot ==
    ASSUME NEW w, NEW kind, Catching(w, kind) = {} PROVE UnwoundIn(w, kind) = <<>>
BY Zenon DEF UnwoundIn

\* The first end that keeps the exception from the rest.
LEMMA UnwindsAt ==
    ASSUME NEW w, IsList(w), NEW kind, NEW i \in Catching(w, kind),
           \A m \in Catching(w, kind) : i <= m
    PROVE  UnwoundIn(w, kind) = <<Raised(w[i])>> \o Rest(w, i)
<1> DEFINE ends == Catching(w, kind)
           first == CHOOSE j \in ends : \A m \in ends : j <= m
<1>1. ends \subseteq Nat
  <2>1. DOMAIN w \subseteq Nat
        BY Ends
  <2> QED BY <2>1 DEF Catching
<1>2. first \in ends /\ \A m \in ends : first <= m
  <2> HIDE DEF ends
  <2>1. \E j \in ends : \A m \in ends : j <= m
        BY DEF ends
  <2> QED BY <2>1, Zenon
<1> HIDE DEF first
<1>3. i \in ends /\ i <= first /\ first <= i
      BY <1>2
<1>4. first = i
      BY <1>1, <1>2, <1>3
<1>5. ends # {}
      BY <1>3
<1>6. UnwoundIn(w, kind) = <<Raised(w[first])>> \o Rest(w, first)
      BY <1>5, Zenon DEF UnwoundIn, first
<1> QED BY <1>4, <1>6, Zenon

\* What catches an exception has a first member.
LEMMA SomeFirst ==
    ASSUME NEW w, IsList(w), NEW kind, Catching(w, kind) # {}
    PROVE  \E i \in Catching(w, kind) : \A m \in Catching(w, kind) : i <= m
<1>1. DOMAIN w \subseteq Nat
      BY Ends
<1>2. Catching(w, kind) \subseteq Nat
      BY <1>1 DEF Catching
<1> QED BY <1>2, LeastNumber, Zenon

\* Two lists, the first of which keeps it.
LEMMA UnwindsFirst ==
    ASSUME NEW x, NEW y, IsList(x), IsList(y), NEW kind, Catching(x, kind) # {}
    PROVE  \E i \in Catching(x, kind) :
              UnwoundIn(x \o y, kind) = (<<Raised(x[i])>> \o Rest(x, i)) \o y
<1> DEFINE w == x \o y
<1>1. PICK i \in Catching(x, kind) : \A m \in Catching(x, kind) : i <= m
      BY SomeFirst
<1>2. Len(x) \in Nat /\ Len(y) \in Nat /\ DOMAIN x = 1..Len(x)
      BY Ends
<1>3. IsList(w) /\ Len(w) = Len(x) + Len(y) /\ \A m \in 1..Len(x) : w[m] = x[m]
      BY Ends, JoinIsList
<1>4. DOMAIN w = 1..Len(w)
      BY <1>3, Ends
<1> HIDE DEF w
<1>5. i \in 1..Len(x) /\ i \in 0..Len(x)
      BY <1>2 DEF Catching
<1>6. i \in Catching(w, kind)
  <2>1. i \in DOMAIN w /\ w[i] = x[i]
        BY <1>2, <1>3, <1>4, <1>5
  <2>2. x[i].do = "end" /\ kind \in Caught(x[i].frame)
        BY DEF Catching
  <2> QED BY <2>1, <2>2, Zenon DEF Catching
<1>7. ASSUME NEW m \in Catching(w, kind) PROVE i <= m
  <2>1. m \in 1..Len(w)
        BY <1>4 DEF Catching
  <2>2. CASE m \in 1..Len(x)
    <3>1. w[m].do = "end" /\ kind \in Caught(w[m].frame)
          BY DEF Catching
    <3>2. m \in Catching(x, kind)
          BY <1>2, <1>3, <2>2, <3>1, Zenon DEF Catching
    <3> QED BY <1>1, <3>2
  <2>3. CASE m \notin 1..Len(x)
        BY <1>2, <1>5, <2>1, <2>3
  <2> QED BY <2>2, <2>3
<1>8. UnwoundIn(w, kind) = <<Raised(w[i])>> \o Rest(w, i)
      BY <1>3, <1>6, <1>7, UnwindsAt, Zenon
<1>9. Rest(w, i) = Rest(x, i) \o y /\ w[i] = x[i]
      BY <1>3, <1>5, RestOfJoin DEF w
<1>10. <<Raised(w[i])>> \o Rest(w, i) = (<<Raised(x[i])>> \o Rest(x, i)) \o y
  <2> DEFINE a == <<Raised(x[i])>>
             b == Rest(x, i)
  <2>1. IsList(a) /\ IsList(b)
        BY <1>5, RestIs, Joins
  <2> HIDE DEF a, b
  <2>2. a \o (b \o y) = (a \o b) \o y
    <3>1. PICK D : a \in Seq(D) /\ b \in Seq(D) /\ y \in Seq(D)
          BY <2>1, Together
    <3> QED BY <3>1
  <2>3. <<Raised(w[i])>> = a /\ Rest(w, i) = b \o y
        BY <1>9, Zenon DEF a, b
  <2>4. <<Raised(w[i])>> \o Rest(w, i) = (a \o b) \o y
        BY <2>2, <2>3, Zenon
  <2> QED BY <2>4 DEF a, b
<1> QED BY <1>8, <1>10, Zenon DEF w

\* Two lists, the first of which does not.
LEMMA UnwindsBehind ==
    ASSUME NEW x, NEW y, IsList(x), IsList(y), NEW kind, Catching(x, kind) = {}
    PROVE  UnwoundIn(x \o y, kind) = UnwoundIn(y, kind)
<1> DEFINE w == x \o y
<1>2. Len(x) \in Nat /\ Len(y) \in Nat /\ DOMAIN x = 1..Len(x) /\ DOMAIN y = 1..Len(y)
      BY Ends
<1>3. /\ IsList(w) /\ Len(w) = Len(x) + Len(y) /\ \A m \in 1..Len(x) : w[m] = x[m]
      /\ \A m \in 1..Len(y) : w[Len(x) + m] = y[m]
      BY Ends, JoinIsList
<1>4. DOMAIN w = 1..Len(w)
      BY <1>3, Ends
<1>5. \A k \in 0..Len(y) : Rest(w, Len(x) + k) = Rest(y, k)
      BY RestOfJoin
<1> HIDE DEF w
<1>6. ASSUME NEW m \in Catching(y, kind) PROVE Len(x) + m \in Catching(w, kind)
  <2>1. m \in 1..Len(y) /\ y[m].do = "end" /\ kind \in Caught(y[m].frame)
        BY <1>2 DEF Catching
  <2>2. Len(x) + m \in DOMAIN w /\ w[Len(x) + m] = y[m]
        BY <1>2, <1>3, <1>4, <2>1
  <2> QED BY <2>1, <2>2, Zenon DEF Catching
<1>7. ASSUME NEW m \in Catching(w, kind) PROVE \E k \in Catching(y, kind) : m = Len(x) + k
  <2>1. m \in 1..Len(w) /\ w[m].do = "end" /\ kind \in Caught(w[m].frame)
        BY <1>4 DEF Catching
  <2>2. m \notin 1..Len(x)
    <3>1. SUFFICES ASSUME m \in 1..Len(x) PROVE FALSE
          OBVIOUS
    <3>2. m \in Catching(x, kind)
          BY <1>2, <1>3, <2>1, <3>1, Zenon DEF Catching
    <3> QED BY <3>2
  <2> DEFINE k == m - Len(x)
  <2>3. k \in 1..Len(y) /\ m = Len(x) + k
        BY <1>2, <1>3, <2>1, <2>2
  <2> HIDE DEF k
  <2>4. k \in Catching(y, kind)
        BY <1>2, <1>3, <2>1, <2>3, Zenon DEF Catching
  <2> QED BY <2>3, <2>4, Zenon
<1>8. CASE Catching(y, kind) = {}
  <2>1. Catching(w, kind) = {}
        BY <1>7, <1>8, Zenon
  <2> QED BY <1>8, <2>1, UnwindsNot, Zenon DEF w
<1>9. CASE Catching(y, kind) # {}
  <2>1. PICK k \in Catching(y, kind) : \A m \in Catching(y, kind) : k <= m
        BY <1>9, SomeFirst
  <2>2. k \in 1..Len(y) /\ k \in 0..Len(y)
        BY <1>2 DEF Catching
  <2>3. UnwoundIn(y, kind) = <<Raised(y[k])>> \o Rest(y, k)
        BY <2>1, UnwindsAt, Zenon
  <2>4. Len(x) + k \in Catching(w, kind)
        BY <1>6
  <2>5. ASSUME NEW m \in Catching(w, kind) PROVE Len(x) + k <= m
    <3>1. PICK n \in Catching(y, kind) : m = Len(x) + n
          BY <1>7
    <3>2. n \in 1..Len(y) /\ k <= n
          BY <1>2, <2>1, <3>1 DEF Catching
    <3> QED BY <1>2, <2>2, <3>1, <3>2
  <2>6. UnwoundIn(w, kind) = <<Raised(w[Len(x) + k])>> \o Rest(w, Len(x) + k)
        BY <1>3, <2>4, <2>5, UnwindsAt, Zenon
  <2>7. w[Len(x) + k] = y[k] /\ Rest(w, Len(x) + k) = Rest(y, k)
        BY <1>3, <1>5, <2>2, Zenon
  <2>8. UnwoundIn(w, kind) = UnwoundIn(y, kind)
        BY <2>3, <2>6, <2>7, Zenon
  <2> QED BY <2>8 DEF w
<1> QED BY <1>8, <1>9

\* An end that keeps it before the rest.
LEMMA UnwindsHead ==
    ASSUME NEW c, NEW r, IsList(r), NEW kind, c.do = "end", kind \in Caught(c.frame)
    PROVE  UnwoundIn(<<c>> \o r, kind) = <<Raised(c)>> \o r
<1> DEFINE x == <<c>>
<1>1. IsList(x) /\ Len(x) = 1 /\ x[1] = c
      BY Joins
<1> HIDE DEF x
<1>2. DOMAIN x = 1..1
      BY <1>1, Ends
<1>3. 1 \in Catching(x, kind) /\ \A i \in Catching(x, kind) : i = 1
      BY <1>1, <1>2 DEF Catching
<1>4. PICK i \in Catching(x, kind) : UnwoundIn(x \o r, kind) = (<<Raised(x[i])>> \o Rest(x, i)) \o r
  <2>1. Catching(x, kind) # {}
        BY <1>3
  <2> QED BY <1>1, <2>1, UnwindsFirst, Zenon
<1>5. i = 1 /\ Rest(x, 1) = <<>>
  <2>1. 1 \in 0..Len(x)
        BY <1>1
  <2> QED BY <1>1, <1>3, <2>1, RestIs
<1>6. <<Raised(c)>> \o <<>> = <<Raised(c)>>
      BY Joins
<1>7. UnwoundIn(x \o r, kind) = <<Raised(c)>> \o r
      BY <1>1, <1>4, <1>5, <1>6, Zenon
<1> QED BY <1>7 DEF x

\* Items without ends.
Endless(x) == \A i \in DOMAIN x : x[i].do # "end"

\* Calls that end no frame do not catch an exception.
LEMMA UnwindsEndless ==
    ASSUME NEW x, NEW y, IsList(x), IsList(y), NEW kind, Endless(x)
    PROVE  UnwoundIn(x \o y, kind) = UnwoundIn(y, kind) /\ UnwoundIn(x, kind) = <<>>
<1>1. Catching(x, kind) = {}
      BY DEF Catching, Endless
<1>2. UnwoundIn(x \o y, kind) = UnwoundIn(y, kind)
      BY <1>1, UnwindsBehind
<1>3. UnwoundIn(x, kind) = <<>>
      BY <1>1, UnwindsNot
<1> QED BY <1>2, <1>3

\* What is left of a list that fits, fits.
LEMMA RaisedFits ==
    ASSUME NEW level, NEW c, Fits(c, level), c.do = "end"
    PROVE  Fits(Raised(c), level)
<1>1. \A frames : c \in EndItem(frames) => Raised(c) \in EndItem(frames)
      BY DEF Raised, EndItem
<1>2. CASE Quiet(c)
  <2>1. ~Written(c)
        BY DEF Written
  <2>2. c \in EndItem(QuietFrames)
        BY <1>2, <2>1 DEF Quiet
  <2> QED BY <1>1, <2>2, Zenon DEF Fits, Quiet
<1>3. CASE \E m : level = EarlyWork(m) /\ Early(c, m)
  <2>1. \A m : ~Early(c, m)
        BY DEF Early, Phase
  <2> QED BY <1>3, <2>1
<1>4. CASE level = LateWork /\ Late(c)
  <2>1. c \in EndItem({"typed", "prompt"})
    <3>1. \A name : Phase(name).do = "phase"
          BY DEF Phase
    <3> QED BY <1>4, <3>1 DEF Late
  <2> QED BY <1>1, <1>4, <2>1, Zenon DEF Fits, Late
<1>5. CASE level = KnownWork /\ ~Discovers(c)
  <2>1. Raised(c).do = c.do
        BY DEF Raised
  <2>2. ~Discovers(Raised(c))
        BY <2>1 DEF Discovers
  <2> QED BY <1>5, <2>2, Zenon DEF Fits
<1>6. Raised(c).do = c.do /\ Raised(c).frame = c.frame
      BY DEF Raised
<1>7. CASE level = PriorWork /\ Prior(c)
      BY <1>6, <1>7, Zenon DEF Fits, Prior
<1>8. CASE level = UntypedWork /\ Untyped(c)
      BY <1>6, <1>8, Zenon DEF Fits, Untyped
<1> QED BY <1>2, <1>3, <1>4, <1>5, <1>7, <1>8, Zenon DEF Fits

\* A list that fits, before one that does not keep the exception.
LEMMA Unwinding ==
    ASSUME NEW level, NEW x, NEW y, List(x, level), IsList(y), NEW kind
    PROVE  \/ UnwoundIn(x \o y, kind) = UnwoundIn(y, kind)
           \/ \E r : List(r, level) /\ UnwoundIn(x \o y, kind) = r \o y
<1>1. IsList(x)
      BY DEF List
<1>2. CASE Catching(x, kind) = {}
      BY <1>1, <1>2, UnwindsBehind, Zenon
<1>3. CASE Catching(x, kind) # {}
  <2>1. PICK i \in Catching(x, kind) : UnwoundIn(x \o y, kind) = (<<Raised(x[i])>> \o Rest(x, i)) \o y
        BY <1>1, <1>3, UnwindsFirst, Zenon
  <2>2. i \in 0..Len(x) /\ i \in DOMAIN x /\ x[i].do = "end"
        BY <1>1, Ends DEF Catching
  <2>3. Fits(Raised(x[i]), level)
        BY <2>2, RaisedFits, Zenon DEF List
  <2>4. List(<<Raised(x[i])>>, level) /\ List(Rest(x, i), level)
        BY <2>2, <2>3, ListOne, ListRest, Zenon
  <2>5. List(<<Raised(x[i])>> \o Rest(x, i), level)
        BY <2>4, ListJoin, Zenon
  <2> QED BY <2>1, <2>5, Zenon
<1> QED BY <1>2, <1>3

(***************************************************************************)
(* The calls that calls make.                                              *)
(***************************************************************************)
LEMMA Kinds ==
    /\ Range(HookKinds) = {"startup", "shutdown", "env"}
    /\ Range(SlotKinds) = {"command", "completer", "segment"}
BY DEF Range, HookKinds, SlotKinds

\* An assignment to the environment is quiet.
LEMMA PutQuiet == \A n, v : Fits(put(n, v), QuietWork)
BY DEF Fits, Quiet, Written, put

\* So is the end of a frame other than a register.
LEMMA EndQuiet == \A frame \in QuietFrames : Fits(EndOf(frame), QuietWork)
<1>1. ASSUME NEW frame \in QuietFrames PROVE EndOf(frame) \in EndItem(QuietFrames)
      BY DEF EndOf, EndItem
<1> QED BY <1>1, Zenon DEF Fits, Quiet

\* So are the calls the model is made of that are no plugin's.
LEMMA MovesQuiet ==
    /\ Fits([do |-> "file"], QuietWork)
    /\ \A k, v : Fits([do |-> "loopvar", key |-> k, value |-> v], QuietWork)
    /\ \A k, v : Fits([do |-> "prepend", key |-> k, value |-> v], QuietWork)
    /\ \A k, v : Fits([do |-> "locals", key |-> k, value |-> v], QuietWork)
    /\ \A h, k, v, w : Fits([do |-> "notice", hook |-> h, key |-> k, old |-> v, new |-> w], QuietWork)
    /\ \A v : Fits(Call("restore", v), QuietWork)
    /\ \A k : Fits([do |-> "tell", keys |-> k], QuietWork)
<1>1. /\ Quiet([do |-> "file"])
      /\ \A k, v : Quiet([do |-> "loopvar", key |-> k, value |-> v])
      /\ \A k, v : Quiet([do |-> "prepend", key |-> k, value |-> v])
      /\ \A k, v : Quiet([do |-> "locals", key |-> k, value |-> v])
      /\ \A h, k, v, w : Quiet([do |-> "notice", hook |-> h, key |-> k, old |-> v, new |-> w])
      /\ \A v : Quiet(Call("restore", v))
      /\ \A k : Quiet([do |-> "tell", keys |-> k])
      BY DEF Quiet, Call
<1> QED BY <1>1, Zenon DEF Fits

\* The history engine is told quietly, and the parts of a reset are quiet.
LEMMA TellingQuiet == ASSUME NEW keys PROVE List(Telling(keys), QuietWork)
<1> DEFINE c == [do |-> "tell", keys |-> keys]
<1>1. Fits(c, QuietWork)
      BY MovesQuiet, Zenon
<1>2. Telling(keys) = <<>> \/ Telling(keys) = <<c>>
      BY Zenon DEF Telling
<1> HIDE DEF c
<1> QED BY <1>1, <1>2, ListOne, ListEmpty, Zenon

LEMMA ResetQuiet == ASSUME NEW target PROVE List(ResetCalls(target), QuietWork)
<1> DEFINE parts == IF target = "all" THEN <<"profile", "theme", "prompt", "history", "colors", "aliases">>
                                      ELSE <<target>>
           s == [i \in DOMAIN parts |-> Call("restore", parts[i])]
<1>1. Len(parts) \in Nat /\ DOMAIN parts = 1..Len(parts)
  <2> DEFINE a == <<"profile", "theme", "prompt", "history", "colors", "aliases">>
             b == <<target>>
  <2>1. Len(a) \in Nat /\ DOMAIN a = 1..Len(a)
        OBVIOUS
  <2>2. Len(b) \in Nat /\ DOMAIN b = 1..Len(b)
        OBVIOUS
  <2>3. parts = a \/ parts = b
        BY Zenon
  <2> HIDE DEF a, b, parts
  <2> QED BY <2>1, <2>2, <2>3
<1>2. s = ResetCalls(target)
      BY Zenon DEF ResetCalls
<1> HIDE DEF parts
<1>3. s = [i \in 1..Len(parts) |-> s[i]] /\ \A i \in 1..Len(parts) : Fits(s[i], QuietWork)
      BY <1>1, MovesQuiet, Zenon
<1> HIDE DEF s
<1>4. List(s, QuietWork)
      BY <1>1, <1>3, ListOf
<1> QED BY <1>2, <1>4, Zenon

\* So are the calls of the configuration.
LEMMA CallsQuiet ==
    /\ \A k, v : Fits(SettingCall(k, v), QuietWork)
    /\ \A k \in AliasName : \A v : Fits(AliasCall(k, v), QuietWork)
    /\ \A v : Fits(Call("theme", v), QuietWork)
    /\ \A v : Fits(Call("profile", v), QuietWork)
    /\ \A v : Fits(Call("pack", v), QuietWork)
    /\ \A v : Fits([do |-> "activate", value |-> v], QuietWork)
    /\ Fits([do |-> "raise", value |-> "error"], QuietWork)
<1>1. /\ \A k, v : Written(SettingCall(k, v))
      /\ \A k \in AliasName : \A v : Written(AliasCall(k, v))
      BY DEF Written, SettingCall, AliasCall
<1>2. /\ \A v : Written(Call("theme", v))
      /\ \A v : Written(Call("profile", v))
      /\ \A v : Written(Call("pack", v))
      BY DEF Written, Call
<1>3. /\ \A v : Written([do |-> "activate", value |-> v])
      /\ Written([do |-> "raise", value |-> "error"])
      BY DEF Written
<1> QED BY <1>1, <1>2, <1>3, Zenon DEF Fits, Quiet

\* Two lists that fit, and one item before or behind.
LEMMA ListPair ==
    ASSUME NEW level, NEW c, NEW d, Fits(c, level), Fits(d, level)
    PROVE  List(<<c, d>>, level)
<1> DEFINE s == <<c, d>>
<1>1. s = [i \in 1..2 |-> s[i]] /\ s[1] = c /\ s[2] = d
      OBVIOUS
<1> HIDE DEF s
<1>2. \A i \in 1..2 : s[i] = c \/ s[i] = d
      BY <1>1
<1>3. \A i \in 1..2 : Fits(s[i], level)
      BY <1>2, Zenon
<1>4. List(s, level)
      BY <1>1, <1>3, ListOf
<1> QED BY <1>4 DEF s

\* The lines of a file that is sourced are quiet.
LEMMA LinesQuiet ==
    ASSUME NEW p \in Program PROVE List(Lines(p), QuietWork)
<1> DEFINE s == [i \in DOMAIN p |->
                   IF p[i].do = "unclosed" THEN <<[do |-> "raise", value |-> "error"]>>
                   ELSE <<p[i], EndOf("rc line")>>]
<1>1. Len(p) \in Nat /\ DOMAIN p = 1..Len(p) /\ \A i \in DOMAIN p : p[i] \in Code
      BY DEF Program
<1>2. s = [i \in 1..Len(p) |-> s[i]]
      BY <1>1
<1>3. ASSUME NEW i \in 1..Len(p) PROVE List(s[i], QuietWork)
  <2>1. List(<<[do |-> "raise", value |-> "error"]>>, QuietWork)
        BY CallsQuiet, ListOne, Zenon
  <2>2. Fits(p[i], QuietWork)
        BY <1>1, CodeAssumption, Zenon DEF Fits, Quiet
  <2>3. Fits(EndOf("rc line"), QuietWork)
        BY EndQuiet DEF QuietFrames
  <2>4. List(<<p[i], EndOf("rc line")>>, QuietWork)
        BY <2>2, <2>3, ListPair, Zenon
  <2> QED BY <1>1, <2>1, <2>4
<1> HIDE DEF s
<1>4. List(FlattenSeq(s), QuietWork)
      BY <1>1, <1>2, <1>3, ListFlat
<1> QED BY <1>4 DEF Lines, s

\* A file that is sourced is quiet.
LEMMA FileQuiet ==
    ASSUME NEW p \in Program, NEW frame \in QuietFrames PROVE List(File(p, frame), QuietWork)
<1>1. List(<<[do |-> "file"]>>, QuietWork) /\ List(<<EndOf(frame)>>, QuietWork)
      BY MovesQuiet, EndQuiet, ListOne
<1>2. List(<<[do |-> "file"]>> \o Lines(p), QuietWork)
      BY <1>1, LinesQuiet, ListJoin, Zenon
<1>3. List((<<[do |-> "file"]>> \o Lines(p)) \o <<EndOf(frame)>>, QuietWork)
      BY <1>1, <1>2, ListJoin, Zenon
<1> QED BY <1>3, Zenon DEF File

\* A for loop over a list is quiet.
LEMMA LoopQuiet ==
    ASSUME NEW k, NEW items, IsList(items), NEW p \in Program
    PROVE  List(FlattenSeq([i \in DOMAIN items |->
                    <<[do |-> "loopvar", key |-> k, value |-> items[i]]>> \o Lines(p)]), QuietWork)
<1> DEFINE s == [i \in DOMAIN items |->
                    <<[do |-> "loopvar", key |-> k, value |-> items[i]]>> \o Lines(p)]
<1>1. Len(items) \in Nat /\ DOMAIN items = 1..Len(items)
      BY Ends
<1>2. s = [i \in 1..Len(items) |-> s[i]]
      BY <1>1
<1>3. ASSUME NEW i \in 1..Len(items) PROVE List(s[i], QuietWork)
  <2> DEFINE a == <<[do |-> "loopvar", key |-> k, value |-> items[i]]>>
  <2>1. List(a, QuietWork)
        BY MovesQuiet, ListOne, Zenon
  <2>2. List(a \o Lines(p), QuietWork)
    <3> HIDE DEF a
    <3> QED BY <2>1, LinesQuiet, ListJoin, Zenon
  <2>3. s[i] = a \o Lines(p)
        BY <1>1
  <2> QED BY <2>2, <2>3, Zenon
<1> HIDE DEF s
<1>4. List(FlattenSeq(s), QuietWork)
      BY <1>1, <1>2, <1>3, ListFlat
<1> QED BY <1>4 DEF s

\* The settings of a document are quiet calls.
LEMMA SettingsQuiet ==
    ASSUME NEW set, NEW keys, IsList(keys)
    PROVE  List(SettingCalls(set, keys), QuietWork)
<1> DEFINE s == [i \in DOMAIN keys |-> IF set[keys[i]] = None THEN <<>>
                                       ELSE <<SettingCall(keys[i], set[keys[i]])>>]
<1>1. Len(keys) \in Nat /\ DOMAIN keys = 1..Len(keys)
      BY Ends
<1>2. s = [i \in 1..Len(keys) |-> s[i]]
      BY <1>1
<1>3. ASSUME NEW i \in 1..Len(keys) PROVE List(s[i], QuietWork)
  <2>1. List(<<>>, QuietWork)
        BY ListEmpty
  <2>2. List(<<SettingCall(keys[i], set[keys[i]])>>, QuietWork)
        BY CallsQuiet, ListOne, Zenon
  <2>3. s[i] = <<>> \/ s[i] = <<SettingCall(keys[i], set[keys[i]])>>
        BY <1>1
  <2> QED BY <2>1, <2>2, <2>3, Zenon
<1> HIDE DEF s
<1>4. List(FlattenSeq(s), QuietWork)
      BY <1>1, <1>2, <1>3, ListFlat
<1> QED BY <1>4 DEF SettingCalls, s

\* The orders in which settings are applied are lists.
LEMMA OrdersAreLists == IsList(OptionOrder) /\ IsList(ColorOrder) /\ IsList(OptionOrder \o ColorOrder)
<1>1. IsList(OptionOrder) /\ IsList(ColorOrder)
      BY SettingAssumption DEF IsList
<1> QED BY <1>1, JoinIsList, Zenon

\* A profile and a theme are quiet calls.
LEMMA ProfileQuiet ==
    ASSUME NEW name PROVE List(ProfileCalls(name), QuietWork) /\ List(ThemeCalls(name), QuietWork)
<1> DEFINE p == known.profiles[name]
           a == IF p.theme \in DOMAIN known.themes THEN <<Call("theme", p.theme)>> ELSE <<>>
           b == SettingCalls(p.set, OptionOrder)
<1>1. List(<<Call("theme", p.theme)>>, QuietWork) /\ List(<<>>, QuietWork)
      BY CallsQuiet, ListOne, ListEmpty, Zenon
<1>2. List(a, QuietWork)
      BY <1>1
<1>3. List(b, QuietWork)
      BY OrdersAreLists, SettingsQuiet, Zenon
<1>4. ProfileCalls(name) = a \o b
      BY Zenon DEF ProfileCalls
<1>5. List(a \o b, QuietWork)
  <2> HIDE DEF a, b
  <2> QED BY <1>2, <1>3, ListJoin, Zenon
<1>6. List(ThemeCalls(name), QuietWork)
      BY OrdersAreLists, SettingsQuiet, Zenon DEF ThemeCalls
<1> QED BY <1>4, <1>5, <1>6, Zenon

\* export is quiet.
LEMMA ExportQuiet ==
    ASSUME NEW n PROVE List(ExportName(n), QuietWork)
<1>1. List(<<put(n, locals[n])>>, QuietWork) /\ List(<<put(n, <<Empty>>)>>, QuietWork) /\ List(<<>>, QuietWork)
      BY PutQuiet, ListOne, ListEmpty, Zenon
<1> QED BY <1>1, Zenon DEF ExportName

\* activate and deactivate are quiet.
LEMMA VenvQuiet ==
    /\ \A root : List(Activating(root), QuietWork)
    /\ List(Deactivating, QuietWork)
<1>1. List(Restoring, QuietWork)
  <2> DEFINE s == [i \in DOMAIN VenvNames |-> put(VenvNames[i], snapshot.environ[VenvNames[i]])]
  <2>1. DOMAIN VenvNames = 1..3
        BY DEF VenvNames
  <2>2. s = [i \in 1..3 |-> s[i]]
        BY <2>1
  <2>3. \A i \in 1..3 : Fits(s[i], QuietWork)
        BY <2>1, PutQuiet, Zenon
  <2> HIDE DEF s
  <2>4. List(s, QuietWork)
        BY <2>2, <2>3, ListOf
  <2> QED BY <2>4 DEF Restoring, s
<1>2. ASSUME NEW root PROVE List(Entering(root), QuietWork)
  <2> DEFINE a == [do |-> "prepend", key |-> PATH, value |-> <<root>>]
             b == put(VIRTUAL_ENV, <<root>>)
             c == put(PYTHONHOME, Unset)
  <2>1. Fits(a, QuietWork) /\ Fits(b, QuietWork) /\ Fits(c, QuietWork)
        BY MovesQuiet, PutQuiet, Zenon
  <2>2. Entering(root) = <<a, b, c>>
        BY DEF Entering
  <2> HIDE DEF a, b, c
  <2> DEFINE s == <<a, b, c>>
  <2>3. s = [i \in 1..3 |-> s[i]] /\ s[1] = a /\ s[2] = b /\ s[3] = c
        OBVIOUS
  <2> HIDE DEF s
  <2>4. \A i \in 1..3 : s[i] = a \/ s[i] = b \/ s[i] = c
        BY <2>3
  <2>5. \A i \in 1..3 : Fits(s[i], QuietWork)
        BY <2>1, <2>4, Zenon
  <2>6. List(s, QuietWork)
        BY <2>3, <2>5, ListOf
  <2> QED BY <2>2, <2>6, Zenon DEF s
<1>3. \A v : List(<<[do |-> "locals", key |-> PATH, value |-> v]>>, QuietWork)
      BY MovesQuiet, ListOne, Zenon
<1>4. \A v : List(Restoring \o <<[do |-> "locals", key |-> PATH, value |-> v]>>, QuietWork)
      BY <1>1, <1>3, ListJoin, Zenon
<1>5. ASSUME NEW root PROVE List(Activating(root), QuietWork)
  <2>1. List((Restoring \o <<[do |-> "locals", key |-> PATH, value |-> <<"keep">>]>>) \o Entering(root), QuietWork)
        BY <1>2, <1>4, ListJoin, Zenon
  <2> QED BY <1>2, <2>1, Zenon DEF Activating
<1>6. List(Deactivating, QuietWork)
      BY <1>4, ListEmpty, Zenon DEF Deactivating
<1> QED BY <1>5, <1>6

\* Bodies, each with an item before it and one behind.
Bodies(s, n, before, body, closing, level) ==
    /\ n \in Nat /\ s = [i \in 1..n |-> s[i]]
    /\ \A i \in 1..n : /\ Fits(before[i], level) /\ body[i] \in Program /\ Fits(closing, level)
                       /\ s[i] = (<<before[i]>> \o body[i]) \o <<closing>>

\* Programs with a call before and a call behind each, flattened, fit.
LEMMA BodiesFit ==
    ASSUME NEW level, NEW n, NEW s, NEW before, NEW body, NEW closing,
           Bodies(s, n, before, body, closing, level)
    PROVE  List(FlattenSeq(s), level)
<1>0. /\ n \in Nat /\ s = [i \in 1..n |-> s[i]]
      /\ \A i \in 1..n : /\ Fits(before[i], level) /\ body[i] \in Program /\ Fits(closing, level)
                         /\ s[i] = (<<before[i]>> \o body[i]) \o <<closing>>
      BY DEF Bodies
<1>1. ASSUME NEW i \in 1..n PROVE List(s[i], level)
  <2>1. List(<<before[i]>>, level) /\ List(<<closing>>, level)
        BY <1>0, ListOne, Zenon
  <2>2. List(body[i], level)
        BY <1>0, ListOfCode, ListWeaker, Zenon
  <2>3. List((<<before[i]>> \o body[i]) \o <<closing>>, level)
        BY <2>1, <2>2, ListJoin, Zenon
  <2> QED BY <1>0, <2>3, Zenon
<1> QED BY <1>0, <1>1, ListFlat

\* Hooks, of which each has a body.
HookList(h) == IsList(h) /\ \A i \in DOMAIN h : h[i].body \in Program

Typed == /\ startupHooks \in Seq(Program)
         /\ \A kind \in Range(HookKinds) : HookList(hooks[kind])

\* The notices of a changed name are quiet.
LEMMA NoticesQuiet ==
    ASSUME HookList(hooks.env), NEW n, NEW old, NEW new
    PROVE  List(Notices(n, old, new), QuietWork)
<1> DEFINE h == hooks.env
           before == [i \in DOMAIN h |-> [do |-> "notice", hook |-> i, key |-> n, old |-> old, new |-> new]]
           body == [i \in DOMAIN h |-> h[i].body]
           closing == EndOf("plugin hook")
           s == [i \in DOMAIN h |-> (<<[do |-> "notice", hook |-> i, key |-> n, old |-> old, new |-> new]>>
                                        \o h[i].body) \o <<EndOf("plugin hook")>>]
<1>1. Len(h) \in Nat /\ DOMAIN h = 1..Len(h) /\ \A i \in DOMAIN h : h[i].body \in Program
      BY Ends DEF HookList
<1>2. Fits(EndOf("plugin hook"), QuietWork) /\ Fits(EndOf("dispatch"), QuietWork)
      BY EndQuiet DEF QuietFrames
<1>3. ASSUME NEW i \in 1..Len(h)
      PROVE  /\ Fits(before[i], QuietWork) /\ body[i] \in Program /\ Fits(closing, QuietWork)
             /\ s[i] = (<<before[i]>> \o body[i]) \o <<closing>>
      BY <1>1, <1>2, MovesQuiet, Zenon
<1>4. s = [i \in 1..Len(h) |-> s[i]]
      BY <1>1, Zenon
<1>5. Notices(n, old, new) = FlattenSeq(s) \o <<EndOf("dispatch")>>
      BY Zenon DEF Notices
<1> HIDE DEF s, before, body, closing
<1>6. List(FlattenSeq(s), QuietWork)
  <2>1. Len(h) \in Nat
        BY <1>1
  <2>2. Bodies(s, Len(h), before, body, closing, QuietWork)
        BY <2>1, <1>3, <1>4, Zenon DEF Bodies
  <2> QED BY <2>2, BodiesFit, Zenon
<1>7. List(<<EndOf("dispatch")>>, QuietWork)
      BY <1>2, ListOne, Zenon
<1>8. List(FlattenSeq(s) \o <<EndOf("dispatch")>>, QuietWork)
      BY <1>6, <1>7, ListJoin, Zenon
<1> QED BY <1>5, <1>8, Zenon

\* Running the hooks of a kind is late work: it records nothing.
LEMMA RunFits ==
    ASSUME Typed, NEW kind \in Range(HookKinds)
    PROVE  List(Run(kind), LateWork)
<1> DEFINE h == hooks[kind]
           before == [i \in DOMAIN h |-> [do |-> "run", key |-> kind, of |-> i]]
           body == [i \in DOMAIN h |-> h[i].body]
           closing == EndOf("plugin hook")
           s == [i \in DOMAIN h |-> (<<[do |-> "run", key |-> kind, of |-> i]>>
                                        \o h[i].body) \o <<EndOf("plugin hook")>>]
<1>1. Len(h) \in Nat /\ DOMAIN h = 1..Len(h) /\ \A i \in DOMAIN h : h[i].body \in Program
      BY Ends DEF Typed, HookList
<1>2. Fits(EndOf("plugin hook"), LateWork)
  <2>1. Fits(EndOf("plugin hook"), QuietWork)
        BY EndQuiet DEF QuietFrames
  <2> QED BY <2>1, Levels, Zenon DEF Fits
<1>3. \A i : Fits([do |-> "run", key |-> kind, of |-> i], LateWork)
      BY DEF Fits, Late
<1>4. ASSUME NEW i \in 1..Len(h)
      PROVE  /\ Fits(before[i], LateWork) /\ body[i] \in Program /\ Fits(closing, LateWork)
             /\ s[i] = (<<before[i]>> \o body[i]) \o <<closing>>
      BY <1>1, <1>2, <1>3, Zenon
<1>5. s = [i \in 1..Len(h) |-> s[i]]
      BY <1>1, Zenon
<1>6. Run(kind) = FlattenSeq(s)
      BY Zenon DEF Run
<1> HIDE DEF s, before, body, closing
<1>7. List(FlattenSeq(s), LateWork)
  <2>1. Len(h) \in Nat
        BY <1>1
  <2>2. Bodies(s, Len(h), before, body, closing, LateWork)
        BY <2>1, <1>4, <1>5, Zenon DEF Bodies
  <2> QED BY <2>2, BodiesFit, Zenon
<1> QED BY <1>6, <1>7, Zenon

\* A plugin's command is quiet.
LEMMA ContainedQuiet ==
    ASSUME NEW body \in Program PROVE List(Contained(body), QuietWork)
<1>1. Fits(EndOf("plugin hook"), QuietWork)
      BY EndQuiet DEF QuietFrames
<1>2. List(<<EndOf("plugin hook")>>, QuietWork) /\ List(body, QuietWork)
      BY <1>1, ListOne, ListOfCode, Zenon
<1>3. List(body \o <<EndOf("plugin hook")>>, QuietWork)
      BY <1>2, ListJoin, Zenon
<1> QED BY <1>3, Zenon DEF Contained

\* Some finite set in a list.
LEMMA Listed ==
    ASSUME NEW S, IsFiniteSet(S)
    PROVE  /\ SetToSeq(S) \in [1..Cardinality(S) -> S] /\ Cardinality(S) \in Nat
           /\ IsList(SetToSeq(S))
<1>1. Cardinality(S) \in Nat
      BY FS_CardinalityType
<1>2. PICK f \in Bijection(1..Cardinality(S), S) : TRUE
      BY FS_CardinalityType, Zenon DEF ExistsBijection
<1>3. f \in [1..Cardinality(S) -> S] /\ IsInjective(f)
      BY <1>2 DEF Bijection, Injection, Surjection, IsInjective
<1>4. SetToSeq(S) \in [1..Cardinality(S) -> S]
      BY <1>3, Zenon DEF SetToSeq
<1>5. IsList(SetToSeq(S))
  <2>1. SetToSeq(S) \in Seq(S)
        BY <1>1, <1>4
  <2> QED BY <2>1 DEF IsList
<1> QED BY <1>1, <1>4, <1>5

(***************************************************************************)
(* What the files of the configuration come to.                            *)
(***************************************************************************)
Largest(s, n) == n \in s /\ \A y \in s : y \in Nat /\ y <= n

\* The largest number of a set is its maximum.
LEMMA LargestIs == ASSUME NEW n \in Nat, NEW s, Largest(s, n) PROVE Max(s) = n
<1>1. \A y \in s : y \in Int /\ n >= y
      BY DEF Largest
<1>2. n \in s /\ \A x \in s : (\A y \in s : x >= y) => x = n
      BY <1>1 DEF Largest
<1> QED BY <1>1, <1>2 DEF Max

\* The fold over the first files, in any order of the positions.
Merges(f, n, docs) ==
    f = [s \in SUBSET (1..n) |-> IF s = {} THEN Nothing
                                 ELSE WithDocument(f[s \ {Max(s)}], docs[Max(s)])]

\* Documents can be merged one by one, for any number of them.
LEMMA MergeExists == ASSUME NEW docs PROVE \A n \in Nat : \E f : Merges(f, n, docs)
<1> DEFINE S == {n \in Nat : \E f : Merges(f, n, docs)}
<1>1. 0 \in S
  <2> DEFINE f == [s \in SUBSET (1..0) |-> Nothing]
  <2>1. \A s \in SUBSET (1..0) : s = {}
        OBVIOUS
  <2>2. f = [s \in SUBSET (1..0) |-> IF s = {} THEN Nothing
                                     ELSE WithDocument(f[s \ {Max(s)}], docs[Max(s)])]
        BY <2>1, Zenon
  <2> QED BY <2>2 DEF Merges
<1>2. ASSUME NEW n \in Nat, n \in S PROVE n + 1 \in S
  <2>1. PICK f : Merges(f, n, docs)
        BY <1>2
  <2>2. \A s \in SUBSET (1..n) : f[s] = IF s = {} THEN Nothing
                                 ELSE WithDocument(f[s \ {Max(s)}], docs[Max(s)])
        BY <2>1, Zenon DEF Merges
  <2> DEFINE g == [s \in SUBSET (1..(n + 1)) |->
                     IF n + 1 \in s THEN WithDocument(f[s \ {n + 1}], docs[n + 1]) ELSE f[s]]
  <2>3. ASSUME NEW s \in SUBSET (1..(n + 1))
        PROVE  g[s] = IF s = {} THEN Nothing
                      ELSE WithDocument(g[s \ {Max(s)}], docs[Max(s)])
    <3>1. CASE n + 1 \in s
      <4>1. Largest(s, n + 1)
            BY <3>1 DEF Largest
      <4>2. Max(s) = n + 1
        <5>1. n + 1 \in Nat
              OBVIOUS
        <5> QED BY <4>1, <5>1, LargestIs, Zenon
      <4>3. s \ {n + 1} \in SUBSET (1..(n + 1)) /\ n + 1 \notin s \ {n + 1} /\ s # {}
            BY <3>1
      <4>4. g[s \ {n + 1}] = f[s \ {n + 1}]
            BY <4>3, Zenon
      <4>5. g[s] = WithDocument(f[s \ {n + 1}], docs[n + 1])
            BY <3>1, Zenon
      <4> QED BY <4>2, <4>3, <4>4, <4>5, Zenon
    <3>2. CASE n + 1 \notin s
      <4>1. s \in SUBSET (1..n)
            BY <3>2
      <4>2. s \ {Max(s)} \in SUBSET (1..(n + 1)) /\ n + 1 \notin s \ {Max(s)}
            BY <3>2
      <4>3. g[s] = f[s] /\ g[s \ {Max(s)}] = f[s \ {Max(s)}]
            BY <3>2, <4>2, Zenon
      <4> QED BY <4>1, <4>3, <2>2, Zenon
    <3> QED BY <3>1, <3>2
  <2>4. g = [s \in SUBSET (1..(n + 1)) |-> g[s]]
        BY Zenon
  <2> HIDE DEF g
  <2>5. Merges(g, n + 1, docs)
        BY <2>3, <2>4, Zenon DEF Merges
  <2> QED BY <2>5
<1> HIDE DEF S
<1>3. \A n \in Nat : n \in S
      BY <1>1, <1>2, Numbers
<1> QED BY <1>3 DEF S

\* A document of a user: the packs it wants are a list, its tables have known names.
Document(doc) ==
    doc # None =>
        /\ doc.packs \in {None} \cup Seq(STRING)
        /\ DOMAIN doc.profiles \subseteq Range(ProfileNames)
        /\ DOMAIN doc.themes \subseteq Range(ThemeNames)

\* A configuration of which this is true.
Asks(c) ==
    /\ {"packs", "profiles", "themes"} \subseteq DOMAIN c
    /\ c.packs \in Seq(STRING)
    /\ DOMAIN c.profiles \subseteq Range(ProfileNames)
    /\ DOMAIN c.themes \subseteq Range(ThemeNames)

\* One table over another has the names of both.
LEMMA OverNames == ASSUME NEW t, NEW u PROVE DOMAIN Over(t, u) = DOMAIN t \cup DOMAIN u
BY DEF Over

\* A document keeps it true.
LEMMA Asked ==
    ASSUME NEW c, Asks(c), NEW doc, Document(doc)
    PROVE  Asks(WithDocument(c, doc))
<1>1. CASE doc = None
      BY <1>1, Zenon DEF WithDocument
<1>2. CASE doc # None
  <2> DEFINE m == MergeDocument(c, doc)
  <2>1. WithDocument(c, doc) = m
        BY <1>2, Zenon DEF WithDocument
  <2>2. /\ {"packs", "profiles", "themes"} \subseteq DOMAIN m
        /\ m.packs = IF doc.packs = None THEN c.packs ELSE doc.packs
        /\ m.profiles = Over(doc.profiles, c.profiles) /\ m.themes = Over(doc.themes, c.themes)
        BY DEF MergeDocument, MergeTables
  <2> HIDE DEF m
  <2>3. /\ doc.packs = None \/ doc.packs \in Seq(STRING)
        /\ DOMAIN doc.profiles \subseteq Range(ProfileNames)
        /\ DOMAIN doc.themes \subseteq Range(ThemeNames)
        BY <1>2 DEF Document
  <2>4. m.packs = c.packs \/ m.packs \in Seq(STRING)
        BY <2>2, <2>3, Zenon
  <2>5. /\ DOMAIN m.profiles = DOMAIN doc.profiles \cup DOMAIN c.profiles
        /\ DOMAIN m.themes = DOMAIN doc.themes \cup DOMAIN c.themes
        BY <2>2, OverNames, Zenon
  <2>6. /\ DOMAIN m.profiles \subseteq Range(ProfileNames)
        /\ DOMAIN m.themes \subseteq Range(ThemeNames)
        BY <2>3, <2>5 DEF Asks
  <2> QED BY <2>1, <2>2, <2>4, <2>6, Zenon DEF Asks
<1> QED BY <1>1, <1>2

\* The documents of a user are a list.
LEMMA FilesAre ==
    /\ Asks(Nothing)
    /\ \A u \in Users : IsList(Files(u.docs)) /\ \A i \in DOMAIN Files(u.docs) : Document(Files(u.docs)[i])
<1>1. /\ {"packs", "profiles", "themes"} \subseteq DOMAIN Nothing
      /\ Nothing.packs = <<>> /\ Nothing.profiles = NoTable /\ Nothing.themes = NoTable
      BY DEF Nothing
<1>2. <<>> \in Seq(STRING) /\ DOMAIN NoTable = {}
      BY DEF NoTable
<1>3. Template.packs = <<>> /\ Template.profiles = NoTable /\ Template.themes = NoTable
      BY DEF Template, Nothing
<1>4. IsList(<<Template>>) /\ \A i \in DOMAIN <<Template>> : <<Template>>[i] = Template
  <2>1. \A c : \A i \in DOMAIN <<c>> : <<c>>[i] = c
        OBVIOUS
  <2> QED BY <2>1, Joins, Zenon
<1>5. ASSUME NEW u \in Users PROVE IsList(u.docs) /\ \A i \in DOMAIN u.docs : Document(u.docs[i])
      BY UsersAssumption, Zenon DEF IsList, Document
<1>6. ASSUME NEW u \in Users
      PROVE  IsList(Files(u.docs)) /\ \A i \in DOMAIN Files(u.docs) : Document(Files(u.docs)[i])
  <2>1. CASE u.docs = <<>>
    <3>1. Files(u.docs) = <<Template>>
          BY <2>1, Zenon DEF Files
    <3>2. Document(Template)
          BY <1>2, <1>3 DEF Document
    <3> QED BY <1>4, <3>1, <3>2, Zenon
  <2>2. CASE u.docs # <<>>
    <3>1. Files(u.docs) = u.docs
          BY <2>2, Zenon DEF Files
    <3> QED BY <1>5, <3>1, Zenon
  <2> QED BY <2>1, <2>2
<1>7. Asks(Nothing)
      BY <1>1, <1>2 DEF Asks
<1> QED BY <1>6, <1>7, Zenon

\* What a user's files come to: a list of packs, and tables of known names, resolved.
LEMMA MergedIs ==
    ASSUME NEW u \in Users
    PROVE  LET m == MergeDocuments(Files(u.docs))
           IN /\ m.packs \in Seq(STRING)
              /\ \E c : Asks(c) /\ m.profiles = Profiles(c.profiles) /\ m.themes = Themes(c.themes)
<1> DEFINE docs == Files(u.docs)
           N == Len(docs)
           h == CHOOSE f : Merges(f, N, docs)
           all == FoldLeft(WithDocument, Nothing, docs)
<1>1. /\ N \in Nat /\ DOMAIN docs = 1..N
      /\ \A i \in 1..N : Document(docs[i])
  <2>1. IsList(docs)
        BY FilesAre
  <2>2. N \in Nat /\ DOMAIN docs = 1..N
        BY <2>1, Ends, Zenon
  <2> QED BY <2>2, FilesAre, Zenon
<1> HIDE DEF docs, N
<1>2. Merges(h, N, docs)
      BY <1>1, MergeExists, Zenon
<1>3. all = h[1..N]
      BY <1>1, Zenon DEF FoldLeft, MapThenFoldSet, Merges
<1> HIDE DEF h, all
<1>4. \A s \in SUBSET (1..N) : h[s] = IF s = {} THEN Nothing
                               ELSE WithDocument(h[s \ {Max(s)}], docs[Max(s)])
      BY <1>2, Zenon DEF Merges
<1> DEFINE P == {k \in Nat : k <= N => Asks(h[1..k])}
<1>5. 0 \in P
  <2>1. 1..0 = {} /\ 1..0 \in SUBSET (1..N)
        OBVIOUS
  <2>2. h[1..0] = Nothing
        BY <1>4, <2>1, Zenon
  <2> QED BY <2>2, FilesAre
<1>6. ASSUME NEW k \in Nat, k \in P PROVE k + 1 \in P
  <2>1. SUFFICES ASSUME k + 1 <= N PROVE Asks(h[1..(k + 1)])
        OBVIOUS
  <2>2. Asks(h[1..k])
        BY <1>1, <1>6, <2>1
  <2>3. /\ k + 1 \in Nat /\ k + 1 \in 1..N /\ 1..(k + 1) \in SUBSET (1..N) /\ 1..(k + 1) # {}
        /\ (1..(k + 1)) \ {k + 1} = 1..k
    <3>1. N \in Nat
          BY <1>1
    <3>2. k + 1 \in 1..N /\ 1..(k + 1) \in SUBSET (1..N)
          BY <2>1, <3>1
    <3>3. k + 1 \in 1..(k + 1)
          OBVIOUS
    <3>4. (1..(k + 1)) \ {k + 1} = 1..k
          OBVIOUS
    <3> QED BY <3>2, <3>3, <3>4
  <2>4. Max(1..(k + 1)) = k + 1
    <3>1. Largest(1..(k + 1), k + 1)
          BY DEF Largest
    <3> QED BY <2>3, <3>1, LargestIs, Zenon
  <2>5. h[1..(k + 1)] = WithDocument(h[1..k], docs[k + 1])
        BY <1>4, <2>3, <2>4, Zenon
  <2> QED BY <1>1, <2>2, <2>3, <2>5, Asked, Zenon
<1> HIDE DEF P
<1>7. N \in P
      BY <1>1, <1>5, <1>6, Numbers
<1>8. Asks(all)
      BY <1>1, <1>3, <1>7 DEF P
<1> DEFINE ps == Profiles(all.profiles)
           ts == Themes(all.themes)
           m == MergeDocuments(docs)
<1>9. PICK es : m = [all EXCEPT !.profiles = ps, !.themes = ts, !.errors = es]
      BY Zenon DEF MergeDocuments, all
<1>10. {"packs", "profiles", "themes"} \subseteq DOMAIN all /\ all.packs \in Seq(STRING)
       BY <1>8, Zenon DEF Asks
<1> HIDE DEF ps, ts, m
<1>11. m.packs = all.packs /\ m.profiles = ps /\ m.themes = ts
       BY <1>9, <1>10
<1> QED BY <1>8, <1>10, <1>11, Zenon DEF docs, ps, ts, m

\* The packs that a user asks for are a list of names.
LEMMA PacksAreList ==
    ASSUME NEW u \in Users PROVE MergeDocuments(Files(u.docs)).packs \in Seq(STRING)
BY MergedIs, Zenon

\* Applying a merged document is quiet.
LEMMA ApplyingQuiet ==
    ASSUME NEW c, c.packs \in Seq(STRING) PROVE List(Applying(c), QuietWork)
<1> DEFINE Free(section, key) == <<section, key>> \notin c.errors
           set   == [k \in Setting |-> IF Free("set", k) THEN c.set[k] ELSE None]
           names == SetToSeq({a \in AliasName : c.alias[a] # None /\ Free("alias", a)})
           profile == IF c.profile # None /\ Free("active", "profile")
                      THEN <<Call("profile", c.profile)>> ELSE <<>>
           theme == IF c.theme # None /\ Free("active", "theme") THEN <<Call("theme", c.theme)>> ELSE <<>>
           settings == SettingCalls(set, OptionOrder \o ColorOrder)
           packs == IF Free("packs", "enabled")
                    THEN [i \in DOMAIN c.packs |-> Call("pack", c.packs[i])] ELSE <<>>
           ours == [i \in DOMAIN names |-> AliasCall(names[i], c.alias[names[i]])]
<1>1. Applying(c) = (((profile \o theme) \o settings) \o packs) \o ours
      BY Zenon DEF Applying
<1>2. List(profile, QuietWork) /\ List(theme, QuietWork)
  <2>1. /\ List(<<Call("profile", c.profile)>>, QuietWork) /\ List(<<Call("theme", c.theme)>>, QuietWork)
        /\ List(<<>>, QuietWork)
        BY CallsQuiet, ListOne, ListEmpty, Zenon
  <2> QED BY <2>1, Zenon
<1>3. List(settings, QuietWork)
      BY OrdersAreLists, SettingsQuiet, Zenon
<1>4. List(packs, QuietWork)
  <2> DEFINE s == [i \in DOMAIN c.packs |-> Call("pack", c.packs[i])]
             x == c.packs
  <2>1. Len(x) \in Nat /\ DOMAIN x = 1..Len(x)
        OBVIOUS
  <2>2. s = [i \in 1..Len(x) |-> s[i]]
        BY <2>1, Zenon
  <2>3. \A i \in 1..Len(x) : Fits(s[i], QuietWork)
        BY <2>1, CallsQuiet, Zenon
  <2>4. List(s, QuietWork)
    <3> HIDE DEF s, x
    <3> QED BY <2>1, <2>2, <2>3, ListOf, Zenon
  <2> QED BY <2>4, ListEmpty, Zenon
<1>5. List(ours, QuietWork)
  <2> DEFINE S == {a \in AliasName : c.alias[a] # None /\ Free("alias", a)}
  <2>1. IsFiniteSet(S)
    <3>1. S \in SUBSET AliasName
          OBVIOUS
    <3> HIDE DEF S
    <3> QED BY <3>1, SettingAssumption, FS_Subset
  <2> HIDE DEF S
  <2>2. IsList(SetToSeq(S)) /\ SetToSeq(S) \in [1..Cardinality(S) -> S]
        BY <2>1, Listed, Zenon
  <2>a. \A i \in DOMAIN SetToSeq(S) : SetToSeq(S)[i] \in AliasName
    <3>1. S \subseteq AliasName
          BY DEF S
    <3> QED BY <2>2, <3>1
  <2> DEFINE x == SetToSeq(S)
             s == [i \in DOMAIN x |-> AliasCall(x[i], c.alias[x[i]])]
  <2>3. Len(x) \in Nat /\ DOMAIN x = 1..Len(x)
        BY <2>2, Ends, Zenon
  <2>b. \A i \in 1..Len(x) : x[i] \in AliasName
        BY <2>a, <2>3, Zenon
  <2> HIDE DEF x
  <2>4. s = [i \in 1..Len(x) |-> s[i]]
        BY <2>3, Zenon
  <2>5. \A i \in 1..Len(x) : Fits(s[i], QuietWork)
        BY <2>3, <2>b, CallsQuiet, Zenon
  <2>6. List(s, QuietWork)
    <3> HIDE DEF s
    <3> QED BY <2>3, <2>4, <2>5, ListOf, Zenon
  <2> QED BY <2>6, Zenon DEF x, S
<1> HIDE DEF profile, theme, settings, packs, ours
<1>6. List(((profile \o theme) \o settings) \o packs, QuietWork)
      BY <1>2, <1>3, <1>4, ListJoin, Zenon
<1>7. List((((profile \o theme) \o settings) \o packs) \o ours, QuietWork)
      BY <1>5, <1>6, ListJoin, Zenon
<1> QED BY <1>1, <1>7, Zenon

\* So it is with the handlers around it.
LEMMA SafelyQuiet ==
    ASSUME NEW calls, List(calls, QuietWork) PROVE List(Safely(calls), QuietWork)
<1> DEFINE s == [i \in DOMAIN calls |-> <<calls[i], EndOf("safely")>>]
<1>1. Len(calls) \in Nat /\ DOMAIN calls = 1..Len(calls) /\ \A i \in DOMAIN calls : Fits(calls[i], QuietWork)
      BY Ends, Zenon DEF List
<1>2. s = [i \in 1..Len(calls) |-> s[i]]
      BY <1>1, Zenon
<1>3. Fits(EndOf("safely"), QuietWork)
      BY EndQuiet DEF QuietFrames
<1>4. ASSUME NEW i \in 1..Len(calls) PROVE List(s[i], QuietWork)
  <2>1. List(<<calls[i], EndOf("safely")>>, QuietWork)
        BY <1>1, <1>3, ListPair, Zenon
  <2> QED BY <1>1, <2>1, Zenon
<1> HIDE DEF s
<1>5. List(FlattenSeq(s), QuietWork)
      BY <1>1, <1>2, <1>4, ListFlat, Zenon
<1> QED BY <1>5, Zenon DEF Safely, s

\* Puts of a finite set of variables.
LEMMA PutsQuiet ==
    ASSUME NEW S, IsFiniteSet(S), NEW value
    PROVE  List([i \in DOMAIN SetToSeq(S) |-> put(SetToSeq(S)[i], value[SetToSeq(S)[i]])], QuietWork)
<1> DEFINE x == SetToSeq(S)
           s == [i \in DOMAIN x |-> put(x[i], value[x[i]])]
<1>1. Len(x) \in Nat /\ DOMAIN x = 1..Len(x)
  <2>1. IsList(x)
        BY Listed
  <2> QED BY <2>1, Ends, Zenon
<1> HIDE DEF x
<1>2. s = [i \in 1..Len(x) |-> s[i]]
      BY <1>1, Zenon
<1>3. \A i \in 1..Len(x) : Fits(s[i], QuietWork)
      BY <1>1, PutQuiet, Zenon
<1>4. List(s, QuietWork)
  <2> HIDE DEF s
  <2> QED BY <1>1, <1>2, <1>3, ListOf, Zenon
<1> QED BY <1>4, Zenon DEF x

\* Loading the declarative configuration is quiet.
LEMMA DeclaredQuiet ==
    ASSUME NEW c, c.packs \in Seq(STRING)
    PROVE  LET names == SetToSeq(Name \cap DOMAIN c.env)
           IN List(Safely(Applying(c) \o [i \in DOMAIN names |-> put(names[i], c.env[names[i]])]), QuietWork)
<1> DEFINE S == Name \cap DOMAIN c.env
           puts == [i \in DOMAIN SetToSeq(S) |-> put(SetToSeq(S)[i], c.env[SetToSeq(S)[i]])]
<1>1. IsFiniteSet(S)
      BY NameAssumption, FS_Subset, Zenon
<1>2. List(puts, QuietWork)
  <2> HIDE DEF S
  <2> QED BY <1>1, PutsQuiet, Zenon
<1>3. List(Applying(c), QuietWork)
      BY ApplyingQuiet
<1>4. List(Safely(Applying(c) \o puts), QuietWork)
  <2> HIDE DEF puts
  <2>1. List(Applying(c) \o puts, QuietWork)
        BY <1>2, <1>3, ListJoin, Zenon
  <2> QED BY <2>1, SafelyQuiet, Zenon
<1> QED BY <1>4, Zenon

(***************************************************************************)
(* What the loaded plugins own.                                            *)
(***************************************************************************)
LoadedFiles == {j \in DOMAIN records : records[j] = "loaded"}

LoadedSlots == UNION {Offers(user.files[i]) : i \in LoadedFiles}

LoadedHooks(kind) ==
    FlattenSeq([i \in DOMAIN records |->
        IF records[i] = "loaded" THEN HooksOffered(user.files[i], kind) ELSE <<>>])

\* Every plugin that is loaded is of the first files and may run.
Loaded(m) ==
    /\ DOMAIN records = DOMAIN user.files
    /\ \A i \in LoadedFiles : i <= m /\ Verdict(user.files, i) = "discovered"

\* The code behind the names in the tables.
Served == IsFiniteSet(slots) /\ \A s \in slots : Handler(s) \in Program

\* The plugin files of a user.
LEMMA FilesOf ==
    ASSUME user \in Users
    PROVE  /\ IsList(user.files) /\ Len(user.files) \in Nat /\ DOMAIN user.files = 1..Len(user.files)
           /\ \A i \in DOMAIN user.files : /\ user.files[i].fault \in {"none", "error", "quit"}
                                           /\ user.files[i].register \in Registration
<1>1. /\ IsList(user.files)
      /\ \A i \in DOMAIN user.files : /\ user.files[i].fault \in {"none", "error", "quit"}
                                      /\ user.files[i].register \in Registration
      BY UsersAssumption, Zenon DEF IsList
<1> QED BY <1>1, Ends, Zenon

\* The calls of register: quiet, or the staging of a body.
LEMMA CallsOf ==
    ASSUME NEW r \in Registration
    PROVE  /\ IsList(r) /\ Len(r) \in Nat /\ DOMAIN r = 1..Len(r)
           /\ \A i \in DOMAIN r :
                \/ r[i].do # "stage" /\ Fits(r[i], QuietWork)
                \/ r[i].do = "stage" /\ r[i].key \in Range(SlotKinds) \cup Range(HookKinds)
                                     /\ r[i].body \in Program
<1>1. IsList(r) /\ \A i \in DOMAIN r : r[i] \in Code \cup Staging
      BY DEF Registration, IsList
<1>2. ASSUME NEW c \in Code PROVE c.do # "stage" /\ Fits(c, QuietWork)
  <2>1. Written(c)
        BY CodeAssumption
  <2>2. c.do # "stage"
        BY <2>1 DEF Written
  <2> QED BY <2>1, <2>2, Zenon DEF Fits, Quiet
<1> QED BY <1>1, <1>2, CodeAssumption, Ends, Zenon

\* Two files of a name do not both run.
LEMMA OneOfAName ==
    ASSUME user \in Users, NEW m, Loaded(m), NEW i \in LoadedFiles, NEW j \in LoadedFiles,
           user.files[i].name = user.files[j].name
    PROVE  i = j
<1>1. i \in 1..Len(user.files) /\ j \in 1..Len(user.files) /\ Len(user.files) \in Nat
  <2>1. i \in DOMAIN user.files /\ j \in DOMAIN user.files
        BY Zenon DEF Loaded, LoadedFiles
  <2> QED BY <2>1, FilesOf, Zenon
<1>2. \A k \in LoadedFiles : Verdict(user.files, k) = "discovered"
      BY Zenon DEF Loaded
<1>3. \A k \in LoadedFiles :
         /\ Permitted(user.files[k])
         /\ ~\E l \in 1..(k - 1) : user.files[l].name = user.files[k].name /\ Permitted(user.files[l])
      BY <1>2 DEF Verdict
<1>4. ~(i < j)
  <2>1. SUFFICES ASSUME i < j PROVE FALSE
        OBVIOUS
  <2>2. i \in 1..(j - 1)
        BY <1>1, <2>1
  <2> QED BY <1>3, <2>2, Zenon
<1>5. ~(j < i)
  <2>1. SUFFICES ASSUME j < i PROVE FALSE
        OBVIOUS
  <2>2. j \in 1..(i - 1)
        BY <1>1, <2>1
  <2> QED BY <1>3, <2>2, Zenon
<1> QED BY <1>1, <1>4, <1>5

\* A file offers what some call of its register stages.
LEMMA OfferedBy ==
    ASSUME NEW file, file.register \in Registration, NEW s \in Offers(file)
    PROVE  /\ s[3] = file.name
           /\ \E c \in DOMAIN file.register :
                /\ file.register[c].do = "stage"
                /\ file.register[c].key = s[1] /\ file.register[c].value = s[2]
<1> DEFINE r == file.register
<1>1. PICK d \in Range(r) : s = <<d.key, d.value, file.name>> /\ d.do = "stage"
      BY Zenon DEF Offers
<1>2. PICK c \in DOMAIN r : d = r[c]
      BY <1>1, Zenon DEF Range
<1>3. s[1] = d.key /\ s[2] = d.value /\ s[3] = file.name
      BY <1>1
<1> QED BY <1>1, <1>2, <1>3, Zenon

\* A function of finitely many arguments has finitely many values.
LEMMA ValuesFinite ==
    ASSUME NEW S, IsFiniteSet(S), NEW f, f = [i \in S |-> f[i]]
    PROVE  IsFiniteSet({f[i] : i \in S})
<1> DEFINE T == {f[i] : i \in S}
<1>1. f \in [S -> T]
      BY Zenon
<1>2. \A t \in T : \E i \in S : f[i] = t
      BY Zenon
<1>3. f \in Surjection(S, T)
  <2> HIDE DEF T
  <2> QED BY <1>1, <1>2 DEF Surjection
<1> HIDE DEF T
<1>4. IsFiniteSet(T)
      BY <1>3, FS_Surjection
<1> QED BY <1>4 DEF T

\* A register offers finitely many slots.
LEMMA OffersFinite ==
    ASSUME NEW file, file.register \in Registration PROVE IsFiniteSet(Offers(file))
<1> DEFINE r == file.register
           Op(i) == <<r[i].key, r[i].value, file.name>>
           T == {Op(i) : i \in 1..Len(r)}
<1>1. Len(r) \in Nat /\ DOMAIN r = 1..Len(r)
      BY CallsOf, Zenon
<1>2. IsFiniteSet(1..Len(r))
      BY <1>1, FS_Interval
<1>3. IsFiniteSet(T)
  <2> DEFINE f == [i \in 1..Len(r) |-> Op(i)]
  <2>1. f = [i \in 1..Len(r) |-> f[i]] /\ T = {f[i] : i \in 1..Len(r)}
    <3> HIDE DEF Op
    <3> QED BY Zenon
  <2> HIDE DEF f, T
  <2>2. IsFiniteSet({f[i] : i \in 1..Len(r)})
        BY <1>2, <2>1, ValuesFinite, Zenon
  <2> QED BY <2>1, <2>2, Zenon
<1>4. Offers(file) \in SUBSET T
  <2>1. ASSUME NEW s \in Offers(file) PROVE s \in T
    <3>1. PICK d \in Range(r) : s = <<d.key, d.value, file.name>>
          BY Zenon DEF Offers
    <3>2. PICK c \in DOMAIN r : d = r[c]
          BY <3>1, Zenon DEF Range
    <3> QED BY <1>1, <3>1, <3>2, Zenon
  <2> QED BY <2>1, Zenon
<1> HIDE DEF T
<1> QED BY <1>3, <1>4, FS_Subset

\* What loaded plugins offered can be served.
LEMMA LoadedServed ==
    ASSUME user \in Users, NEW m, Loaded(m), slots = LoadedSlots
    PROVE  Served
<1>1. \A i \in LoadedFiles : i \in DOMAIN user.files /\ user.files[i].register \in Registration
      BY FilesOf, Zenon DEF Loaded, LoadedFiles
<1>2. IsFiniteSet(slots)
  <2> DEFINE Op(i) == Offers(user.files[i])
             T == {Op(i) : i \in LoadedFiles}
  <2>1. IsFiniteSet(LoadedFiles)
    <3>1. LoadedFiles \in SUBSET (1..Len(user.files)) /\ Len(user.files) \in Nat
          BY <1>1, FilesOf, Zenon
    <3>2. IsFiniteSet(1..Len(user.files))
          BY <3>1, FS_Interval
    <3> QED BY <3>1, <3>2, FS_Subset
  <2>2. IsFiniteSet(T)
    <3> DEFINE f == [i \in LoadedFiles |-> Op(i)]
    <3>1. f = [i \in LoadedFiles |-> f[i]] /\ T = {f[i] : i \in LoadedFiles}
      <4> HIDE DEF Op
      <4> QED BY Zenon
    <3> HIDE DEF f, T
    <3>2. IsFiniteSet({f[i] : i \in LoadedFiles})
          BY <2>1, <3>1, ValuesFinite, Zenon
    <3> QED BY <3>1, <3>2, Zenon
  <2>3. \A t \in T : IsFiniteSet(t)
        BY <1>1, OffersFinite, Zenon
  <2> HIDE DEF T
  <2>4. IsFiniteSet(UNION T)
        BY <2>2, <2>3, FS_UNION
  <2> QED BY <2>4, Zenon DEF LoadedSlots, T
<1>3. ASSUME NEW s \in slots PROVE Handler(s) \in Program
  <2>1. PICK j \in LoadedFiles : s \in Offers(user.files[j])
        BY Zenon DEF LoadedSlots
  <2> DEFINE file == CHOOSE i \in DOMAIN records : records[i] = "loaded" /\ user.files[i].name = s[3]
             calls == user.files[file].register
             given == {c \in DOMAIN calls : /\ calls[c].do = "stage"
                                            /\ calls[c].key = s[1] /\ calls[c].value = s[2]}
             first == CHOOSE c \in given : \A d \in given : c <= d
  <2>2. user.files[j].register \in Registration
        BY <1>1
  <2>3. /\ s[3] = user.files[j].name
        /\ \E c \in DOMAIN user.files[j].register :
                /\ user.files[j].register[c].do = "stage"
                /\ user.files[j].register[c].key = s[1] /\ user.files[j].register[c].value = s[2]
        BY <2>1, <2>2, OfferedBy, Zenon
  <2>4. file \in LoadedFiles /\ user.files[file].name = user.files[j].name
        BY <2>3, Zenon DEF LoadedFiles
  <2>5. file = j
    <3> HIDE DEF file
    <3> QED BY <2>4, OneOfAName, Zenon
  <2>6. Handler(s) = calls[first].body
        BY Zenon DEF Handler
  <2> HIDE DEF file
  <2>7. /\ calls \in Registration /\ DOMAIN calls \subseteq Nat
        /\ \A i \in DOMAIN calls : calls[i].do = "stage" => calls[i].body \in Program
    <3>1. calls \in Registration
          BY <2>2, <2>5, Zenon
    <3> HIDE DEF calls
    <3>2. DOMAIN calls = 1..Len(calls)
          BY <3>1, CallsOf, Zenon
    <3> QED BY <3>1, <3>2, CallsOf
  <2>8. given # {} /\ given \subseteq Nat
    <3>1. given # {}
          BY <2>3, <2>5, Zenon
    <3>2. given \subseteq DOMAIN calls
          OBVIOUS
    <3> HIDE DEF given, calls
    <3> QED BY <2>7, <3>1, <3>2
  <2>9. first \in given
    <3> HIDE DEF given
    <3>1. \E c \in given : \A d \in given : c <= d
          BY <2>8, LeastNumber, Zenon
    <3> QED BY <3>1, Zenon
  <2> HIDE DEF first
  <2>10. first \in DOMAIN calls /\ calls[first].do = "stage"
         BY <2>9
  <2> QED BY <2>6, <2>7, <2>10, Zenon
<1> QED BY <1>2, <1>3, Zenon DEF Served

(***************************************************************************)
(* A step whose call is quiet.                                             *)
(***************************************************************************)
Adds(level) == \E new : List(new, level) /\ work' = new \o Tail(work)

\* With nothing left to be done the session is over.
Fails == stage' = IF stage = "closing" THEN "cut" ELSE "failed"

Throws == \E kind \in {"error", "quit"} : work' = Unwound(kind) /\ (work' = <<>> => Fails)

QuietDo == {"option", "profile", "theme", "pack", "alias", "unalias", "reset", "hook", "raise",
            "unclosed", "put", "assign", "export", "source", "activate", "deactivate",
            "import", "invoke", "if", "for", "while",
            "file", "loopvar", "prepend", "notice", "locals", "restore", "tell", "end"}

\* What a quiet call may do.
LEMMA QuietDoes ==
    ASSUME NEW c, Quiet(c)
    PROVE  /\ c.do \in QuietDo
           /\ c.do = "end" => c.frame \in QuietFrames
           /\ c.do \notin {"file", "loopvar", "prepend", "notice", "locals", "restore", "tell", "end"} => Written(c)
<1>1. CASE Written(c)
  <2>1. c.do \in QuietDo /\ c.do # "end"
        BY <1>1 DEF Written, QuietDo
  <2> QED BY <1>1, <2>1
<1>2. CASE c.do \in {"file", "loopvar", "prepend", "notice", "locals", "restore", "tell"}
      BY <1>2 DEF QuietDo
<1>3. CASE c \in EndItem(QuietFrames)
  <2>1. c.do = "end" /\ c.frame \in QuietFrames
        BY <1>3 DEF EndItem
  <2> QED BY <2>1 DEF QuietDo
<1> QED BY <1>1, <1>2, <1>3, Zenon DEF Quiet

\* A handler that calls others adds them to the work.
LEMMA ThenAdds ==
    ASSUME NEW level, NEW calls, List(calls, level), Then(calls)
    PROVE  Adds(level)
BY Zenon DEF Then, Adds

\* A handler that raises throws.
LEMMA RaiseThrows ==
    ASSUME NEW kind \in {"error", "quit"}, Raise(kind)
    PROVE  Throws
BY Zenon DEF Raise, Throws, Fails

\* What quiet calls come to, which leave the plugins and the user's hooks alone.
LEMMA QuietMoves ==
    ASSUME user \in Users, IsList(work), work # <<>>, Quiet(This), Typed, Served
    PROVE  /\ BeginFile \/ SetLoopvar \/ RunIf \/ RunFor \/ RunWhile \/ SourceFile => Adds(QuietWork)
           /\ Configure \/ TellEngine => Adds(QuietWork)
           /\ RefuseSetting => Adds(QuietWork) \/ Throws
           /\ Throw => Throws
           /\ PutVariable \/ Notice \/ AssignVariable \/ ExportVariable => Adds(QuietWork)
           /\ Activate \/ Deactivate \/ PutLocalsBack \/ ImportProfile => Adds(QuietWork)
           /\ RegisterHook => Adds(QuietWork)
           /\ InvokeCommand => Adds(QuietWork)
           /\ EndFrame => Adds(QuietWork)
<1>e. List(<<>>, QuietWork)
      BY ListEmpty
<1>w. This.do \notin {"file", "loopvar", "prepend", "notice", "locals", "restore", "tell", "end"} => Written(This)
      BY QuietDoes, Zenon
<1>1. ASSUME BeginFile \/ SetLoopvar PROVE Adds(QuietWork)
  <2>1. Then(<<>>)
        BY <1>1, Zenon DEF BeginFile, SetLoopvar
  <2> QED BY <1>e, <2>1, ThenAdds, Zenon
<1>2. ASSUME RunIf PROVE Adds(QuietWork)
  <2>1. This.do = "if"
        BY <1>2 DEF RunIf, Doing, This
  <2>2. This.body \in Program /\ This.else \in Program
        BY <1>w, <2>1 DEF Written
  <2> DEFINE p == IF Holds(This.test) THEN This.body ELSE This.else
  <2>3. p \in Program
        BY <2>2, Zenon
  <2>4. Then(Lines(p))
        BY <1>2, Zenon DEF RunIf
  <2> HIDE DEF p
  <2>5. List(Lines(p), QuietWork)
        BY <2>3, LinesQuiet
  <2> QED BY <2>4, <2>5, ThenAdds, Zenon
<1>3. ASSUME RunFor PROVE Adds(QuietWork)
  <2>1. This.do = "for"
        BY <1>3 DEF RunFor, Doing, This
  <2>2. This.body \in Program /\ IsList(This.items)
    <3>1. This.body \in Program /\ This.items \in Seq(Range(This.items))
          BY <1>w, <2>1 DEF Written
    <3> QED BY <3>1, Zenon DEF IsList
  <2> DEFINE calls == FlattenSeq([i \in DOMAIN This.items |->
                          <<[do |-> "loopvar", key |-> This.key, value |-> This.items[i]]>>
                               \o Lines(This.body)])
  <2>3. List(calls, QuietWork)
        BY <2>2, LoopQuiet, Zenon
  <2>4. Then(calls)
        BY <1>3, Zenon DEF RunFor
  <2> HIDE DEF calls
  <2> QED BY <2>3, <2>4, ThenAdds, Zenon
<1>4. ASSUME RunWhile PROVE Adds(QuietWork)
  <2>1. This.do = "while"
        BY <1>4 DEF RunWhile, Doing, This
  <2>2. This.body \in Program /\ DOMAIN This = {"do", "test", "body", "count"}
        BY <1>w, <2>1 DEF Written
  <2> DEFINE again == [This EXCEPT !.count = IF @ < WhileLimit THEN @ + 1 ELSE @]
             calls == Lines(This.body) \o <<again>>
  <2>3. Written(again)
    <3>1. again.do = This.do /\ again.body = This.body /\ DOMAIN again = DOMAIN This
          BY <2>2
    <3> HIDE DEF again
    <3> QED BY <2>1, <2>2, <3>1 DEF Written
  <2>4. List(calls, QuietWork)
    <3> HIDE DEF again
    <3>1. Fits(again, QuietWork)
          BY <2>3, Zenon DEF Fits, Quiet
    <3>2. List(Lines(This.body), QuietWork) /\ List(<<again>>, QuietWork)
          BY <2>2, <3>1, LinesQuiet, ListOne, Zenon
    <3> QED BY <3>2, ListJoin, Zenon
  <2>5. Then(calls) \/ Then(<<>>)
        BY <1>4, Zenon DEF RunWhile
  <2> HIDE DEF calls
  <2> QED BY <1>e, <2>4, <2>5, ThenAdds, Zenon
<1>5. ASSUME SourceFile PROVE Adds(QuietWork)
  <2>1. This.do = "source"
        BY <1>5 DEF SourceFile, Doing, This
  <2>2. This.program \in Program /\ This.name \in {"commands", "activate", "zsh"}
        BY <1>w, <2>1 DEF Written
  <2> DEFINE a == <<[do |-> "activate", value |-> This.root]>>
             b == File(This.program, "rc file")
             calls == CASE IsVenv(This) -> a
                        [] This.name = "commands" -> b
                        [] This.name = "activate" \/ This.name = "zsh" -> <<>>
  <2>3. List(a, QuietWork)
        BY CallsQuiet, ListOne, Zenon
  <2>4. List(b, QuietWork)
    <3>1. "rc file" \in QuietFrames
          BY DEF QuietFrames
    <3> QED BY <2>2, <3>1, FileQuiet, Zenon
  <2>5. Then(calls)
        BY <1>5, Zenon DEF SourceFile
  <2>6. calls = a \/ calls = b \/ calls = <<>>
    <3>1. IsVenv(This) \/ This.name = "commands" \/ This.name = "activate" \/ This.name = "zsh"
          BY <2>2
    <3>2. IsVenv(This) => This.name = "activate"
          BY Zenon DEF IsVenv
    <3> HIDE DEF a, b
    <3> QED BY <3>1, <3>2
  <2> HIDE DEF a, b, calls
  <2>7. List(calls, QuietWork)
        BY <1>e, <2>3, <2>4, <2>6, Zenon
  <2> QED BY <2>5, <2>7, ThenAdds, Zenon
<1>6. ASSUME Configure \/ TellEngine PROVE Adds(QuietWork)
  <2>1. \/ Then(<<>>) \/ Then(ProfileCalls(This.value)) \/ Then(ThemeCalls(This.value))
        \/ Then(ResetCalls(This.value)) \/ \E keys : Then(Telling(keys))
    <3>1. CASE Configure
          BY <3>1, Zenon DEF Configure
    <3>2. CASE TellEngine
          BY <3>2, Zenon DEF TellEngine
    <3> QED BY <1>6, <3>1, <3>2
  <2>2. List(ProfileCalls(This.value), QuietWork) /\ List(ThemeCalls(This.value), QuietWork)
        BY ProfileQuiet, Zenon
  <2> QED BY <1>e, <2>1, <2>2, ResetQuiet, TellingQuiet, ThenAdds, Zenon
<1>7. ASSUME RefuseSetting PROVE Adds(QuietWork) \/ Throws
  <2>1. Then(<<>>) \/ Raise("error")
        BY <1>7, Zenon DEF RefuseSetting
  <2> QED BY <1>e, <2>1, ThenAdds, RaiseThrows
<1>8. ASSUME Throw PROVE Throws
  <2>1. This.do = "raise" /\ Raise(This.value)
        BY <1>8 DEF Throw, Doing, This
  <2>2. This.value \in {"error", "quit"}
        BY <1>w, <2>1 DEF Written
  <2> QED BY <2>1, <2>2, RaiseThrows, Zenon
<1>9. ASSUME PutVariable PROVE Adds(QuietWork)
  <2>1. PICK n, v : work' = (IF Notifies(n, v) THEN Notices(n, environ[n], v) ELSE <<>>) \o Tail(work)
        BY <1>9, Zenon DEF PutVariable
  <2>2. HookList(hooks.env)
        BY Kinds DEF Typed
  <2>3. List(Notices(n, environ[n], v), QuietWork)
        BY <2>2, NoticesQuiet, Zenon
  <2> DEFINE calls == IF Notifies(n, v) THEN Notices(n, environ[n], v) ELSE <<>>
  <2>4. List(calls, QuietWork)
        BY <1>e, <2>3, Zenon
  <2> QED BY <2>1, <2>4, Zenon DEF Adds
<1>10. ASSUME Notice \/ AssignVariable \/ PutLocalsBack PROVE Adds(QuietWork)
  <2>1. Then(<<>>)
        BY <1>10, Zenon DEF Notice, AssignVariable, PutLocalsBack
  <2> QED BY <1>e, <2>1, ThenAdds, Zenon
<1>11. ASSUME ExportVariable PROVE Adds(QuietWork)
  <2>1. Then(ExportName(This.key))
        BY <1>11, Zenon DEF ExportVariable
  <2> QED BY <2>1, ExportQuiet, ThenAdds, Zenon
<1>12. ASSUME Activate \/ Deactivate PROVE Adds(QuietWork)
  <2>1. Then(Activating(This.value)) \/ Then(Deactivating)
        BY <1>12, Zenon DEF Activate, Deactivate
  <2> QED BY <2>1, VenvQuiet, ThenAdds, Zenon
<1>13. ASSUME ImportProfile PROVE Adds(QuietWork)
  <2>1. This.do = "import" /\ Then(This.calls)
        BY <1>13 DEF ImportProfile, Doing, This
  <2>2. This.calls \in Program
        BY <1>w, <2>1 DEF Written
  <2>3. List(This.calls, QuietWork)
        BY <2>2, ListOfCode
  <2> QED BY <2>1, <2>3, ThenAdds, Zenon
<1>14. ASSUME RegisterHook PROVE Adds(QuietWork)
  <2>1. Then(<<>>)
        BY <1>14, Zenon DEF RegisterHook
  <2> QED BY <1>e, <2>1, ThenAdds, Zenon
<1>15. ASSUME InvokeCommand PROVE Adds(QuietWork)
  <2> DEFINE own == {s \in slots : s[1] = "command" /\ s[2] = This.value}
             slot == CHOOSE s \in own : TRUE
             calls == IF own = {} THEN <<>> ELSE Contained(Handler(slot))
  <2>1. Then(calls)
        BY <1>15, Zenon DEF InvokeCommand
  <2>2. List(calls, QuietWork)
    <3>1. CASE own = {}
          BY <1>e, <3>1, Zenon
    <3>2. CASE own # {}
      <4>1. slot \in slots
            BY <3>2, Zenon
      <4> HIDE DEF slot
      <4>2. Handler(slot) \in Program
            BY <4>1, Zenon DEF Served
      <4>3. List(Contained(Handler(slot)), QuietWork)
            BY <4>2, ContainedQuiet
      <4> QED BY <3>2, <4>3, Zenon
    <3> QED BY <3>1, <3>2, Zenon
  <2> HIDE DEF calls
  <2> QED BY <2>1, <2>2, ThenAdds, Zenon
<1>16. ASSUME EndFrame PROVE Adds(QuietWork)
  <2>1. This.do = "end"
        BY <1>16 DEF EndFrame, Doing, This
  <2>2. This.frame \in QuietFrames
        BY <2>1, QuietDoes, Zenon
  <2>3. This.frame # "typed" /\ This.frame # "prompt"
        BY <2>2 DEF QuietFrames
  <2>4. work' = Tail(work)
        BY <1>16, <2>3, Zenon DEF EndFrame
  <2>5. Tail(work) = <<>> \o Tail(work)
        BY Ends, Joins, Zenon
  <2> QED BY <1>e, <2>4, <2>5, Zenon DEF Adds
<1> QED BY <1>1, <1>2, <1>3, <1>4, <1>5, <1>6, <1>7, <1>8, <1>9, <1>10, <1>11, <1>12, <1>13,
           <1>14, <1>15, <1>16, Zenon

\* A quiet call leaves the plugins' tables alone; it adds quiet calls or throws.
LEMMA QuietStep ==
    ASSUME user \in Users, IsList(work), work # <<>>, Quiet(This), Typed, Served, Step
    PROVE  /\ UNCHANGED <<user, plugins>>
           /\ startupHooks' \in Seq(Program)
           /\ Adds(QuietWork) \/ Throws
<1>d. This.do \in QuietDo /\ (This.do = "end" => This.frame \in QuietFrames)
      BY QuietDoes, Zenon
<1>h. startupHooks \in Seq(Program)
      BY DEF Typed
<1> DEFINE Alone == /\ UNCHANGED <<user, plugins>> /\ startupHooks' = startupHooks
<1>1. ASSUME \/ BeginFile \/ RunIf \/ RunFor \/ SetLoopvar \/ RunWhile
             \/ RefuseSetting \/ Throw \/ PutVariable \/ Notice \/ AssignVariable
             \/ ExportVariable \/ SourceFile \/ Activate \/ Deactivate \/ PutLocalsBack
             \/ ImportProfile \/ InvokeCommand
      PROVE  Alone
      BY <1>1, Zenon DEF BeginFile, RunIf, RunFor, SetLoopvar, RunWhile, RefuseSetting, Throw,
         PutVariable, Notice, AssignVariable, ExportVariable, SourceFile, Activate, Deactivate,
         PutLocalsBack, ImportProfile, InvokeCommand, ByUser
<1>2. ASSUME Configure \/ TellEngine PROVE Alone
      BY <1>2, Zenon DEF Configure, Calls, TellEngine, ByUser
<1>3. ASSUME RegisterHook
      PROVE  UNCHANGED <<user, plugins>> /\ startupHooks' \in Seq(Program)
  <2>1. This.do = "hook"
        BY <1>3 DEF RegisterHook, Doing, This
  <2>2. This.body \in Program
    <3>1. Written(This)
          BY <2>1, QuietDoes
    <3> QED BY <2>1, <3>1 DEF Written
  <2>3. startupHooks' = Append(startupHooks, This.body) /\ UNCHANGED <<user, plugins>>
        BY <1>3, Zenon DEF RegisterHook
  <2> QED BY <1>h, <2>2, <2>3
<1>4. ASSUME EndFrame PROVE Alone
  <2>1. This.do = "end"
        BY <1>4 DEF EndFrame, Doing, This
  <2>2. This.frame # "register"
        BY <1>d, <2>1 DEF QuietFrames
  <2> QED BY <1>4, <2>2, Zenon DEF EndFrame, ByUser
<1>5. ~(EnablePlugin \/ LoadPlugin \/ StageCall \/ Validate \/ PublishTable \/ RunHook)
      BY <1>d DEF EnablePlugin, LoadPlugin, StageCall, Validate, PublishTable, RunHook, Doing,
         This, QuietDo
<1>6. ~(LoadDeclarative \/ LoadPython \/ DiscoverPlugins \/ RunStartupHooks \/ StartPrompt \/ Save)
      BY <1>d DEF LoadDeclarative, LoadPython, DiscoverPlugins, RunStartupHooks, StartPrompt, Save,
         InPhase, Doing, This, QuietDo
<1> HIDE DEF Alone
<1>7. Alone => UNCHANGED <<user, plugins>> /\ startupHooks' \in Seq(Program)
      BY <1>h DEF Alone
<1> QED BY <1>1, <1>2, <1>3, <1>4, <1>5, <1>6, <1>7, QuietMoves, Zenon DEF Step

(***************************************************************************)
(* What is still to be done while plugins are loaded.                      *)
(***************************************************************************)
After == <<Phase("user hooks"), Phase("plugin hooks"), Phase("prompt")>>

LoadCall(i) == [do |-> "load", of |-> i]

RegisterEnd(i, raised) == [do |-> "end", frame |-> "register", raised |-> raised, of |-> i]

Turn(m, i) == IF i > m /\ Verdict(user.files, i) = "discovered" THEN Load(i) ELSE <<>>

LoadsBehind(m) == [i \in DOMAIN user.files |-> Turn(m, i)]

Remaining(m) == FlattenSeq(LoadsBehind(m))

\* From the end of a register call on, and from its validation on.
Ending(m, raised) == <<RegisterEnd(m, raised)>> \o (Remaining(m) \o After)

Committal(m) == <<[do |-> "validate"]>> \o (Publications \o Ending(m, FALSE))

KindAt(i) == IF i <= 3 THEN SlotKinds[i] ELSE HookKinds[i - 3]

Published(j) == {KindAt(i) : i \in 1..j}

\* The six tables in the order in which they are published.
LEMMA KindsInOrder ==
    /\ KindAt(1) = "command" /\ KindAt(2) = "completer" /\ KindAt(3) = "segment"
    /\ KindAt(4) = "startup" /\ KindAt(5) = "shutdown" /\ KindAt(6) = "env"
    /\ \A i \in 1..6 : i = 1 \/ i = 2 \/ i = 3 \/ i = 4 \/ i = 5 \/ i = 6
BY DEF KindAt, SlotKinds, HookKinds

\* A function on the first n numbers is a list of length n.
LEMMA FirstNumbers ==
    ASSUME NEW n \in Nat, NEW s, s = [i \in 1..n |-> s[i]]
    PROVE  IsList(s) /\ Len(s) = n
<1> DEFINE D == {s[i] : i \in 1..n}
<1>1. s \in [1..n -> D]
      BY Zenon
<1> HIDE DEF D
<1>2. s \in Seq(D) /\ Len(s) = n
      BY <1>1
<1> QED BY <1>2 DEF IsList

\* The six calls that publish.
LEMMA Publishes ==
    /\ IsList(Publications) /\ Len(Publications) = 6
    /\ \A i \in 1..6 : Publications[i] = [do |-> "publish", key |-> KindAt(i)]
<1> DEFINE a == [i \in DOMAIN SlotKinds |-> [do |-> "publish", key |-> SlotKinds[i]]]
           b == [i \in DOMAIN HookKinds |-> [do |-> "publish", key |-> HookKinds[i]]]
<1>1. DOMAIN SlotKinds = 1..3 /\ DOMAIN HookKinds = 1..3
      BY DEF SlotKinds, HookKinds
<1>2. Publications = a \o b
      BY Zenon DEF Publications
<1>3. /\ IsList(a) /\ Len(a) = 3 /\ \A i \in 1..3 : a[i] = [do |-> "publish", key |-> SlotKinds[i]]
  <2>1. a = [i \in 1..3 |-> a[i]] /\ \A i \in 1..3 : a[i] = [do |-> "publish", key |-> SlotKinds[i]]
        BY <1>1, Zenon
  <2> HIDE DEF a
  <2>3. IsList(a) /\ Len(a) = 3
        BY <2>1, FirstNumbers
  <2> QED BY <2>1, <2>3
<1>4. /\ IsList(b) /\ Len(b) = 3 /\ \A i \in 1..3 : b[i] = [do |-> "publish", key |-> HookKinds[i]]
  <2>1. b = [i \in 1..3 |-> b[i]] /\ \A i \in 1..3 : b[i] = [do |-> "publish", key |-> HookKinds[i]]
        BY <1>1, Zenon
  <2> HIDE DEF b
  <2>3. IsList(b) /\ Len(b) = 3
        BY <2>1, FirstNumbers
  <2> QED BY <2>1, <2>3
<1> HIDE DEF a, b
<1>5. IsList(a \o b) /\ Len(a \o b) = 6
  <2>1. Len(a \o b) = Len(a) + Len(b)
        BY <1>3, <1>4, LengthJoined, Zenon
  <2>2. Len(a \o b) = 6
        BY <1>3, <1>4, <2>1
  <2> QED BY <1>3, <1>4, <2>2, JoinIsList, Zenon
<1>6. /\ \A i \in 1..3 : (a \o b)[i] = a[i]
      /\ \A i \in 1..3 : (a \o b)[3 + i] = b[i]
  <2>1. IsList(a) /\ IsList(b) /\ Len(a) = 3 /\ Len(b) = 3
        BY <1>3, <1>4
  <2>2. PICK D : a \in Seq(D) /\ b \in Seq(D)
        BY <2>1, Together
  <2>3. /\ \A i \in 1..Len(a) : (a \o b)[i] = a[i]
        /\ \A i \in 1..Len(b) : (a \o b)[Len(a) + i] = b[i]
        BY <2>2
  <2> QED BY <2>1, <2>3, Zenon
<1>7. ASSUME NEW i \in 1..6 PROVE (a \o b)[i] = [do |-> "publish", key |-> KindAt(i)]
  <2>1. CASE i <= 3
    <3>1. i \in 1..3 /\ KindAt(i) = SlotKinds[i]
          BY <2>1 DEF KindAt
    <3> QED BY <1>3, <1>6, <3>1, Zenon
  <2>2. CASE ~(i <= 3)
    <3> DEFINE k == i - 3
    <3>1. k \in 1..3 /\ i = 3 + k /\ KindAt(i) = HookKinds[k]
          BY <2>2 DEF KindAt
    <3> HIDE DEF k
    <3>2. (a \o b)[3 + k] = b[k]
          BY <1>6, <3>1
    <3> QED BY <1>4, <3>1, <3>2, Zenon
  <2> QED BY <2>1, <2>2
<1> QED BY <1>2, <1>5, <1>7, Zenon

\* A pair is two lists of one.
LEMMA PairJoins == \A a, b : <<a, b>> = <<a>> \o <<b>>
<1> SUFFICES ASSUME NEW a, NEW b PROVE <<a, b>> = <<a>> \o <<b>>
    OBVIOUS
<1> DEFINE x == <<a>> \o <<b>>
<1>1. IsList(<<a>>) /\ IsList(<<b>>) /\ Len(<<a>>) = 1 /\ Len(<<b>>) = 1 /\ <<a>>[1] = a /\ <<b>>[1] = b
      BY Joins, Zenon
<1> DEFINE y == <<a>>
           z == <<b>>
<1>2. IsList(x) /\ Len(x) = 2 /\ x[1] = a /\ x[2] = b
  <2>1. IsList(y) /\ IsList(z) /\ Len(y) = 1 /\ Len(z) = 1 /\ y[1] = a /\ z[1] = b
        BY <1>1, Zenon
  <2> HIDE DEF y, z
  <2>2. /\ IsList(y \o z) /\ Len(y \o z) = Len(y) + Len(z)
        /\ \A i \in 1..Len(y) : (y \o z)[i] = y[i]
        /\ \A i \in 1..Len(z) : (y \o z)[Len(y) + i] = z[i]
        BY <2>1, Ends, JoinIsList
  <2>3. Len(y \o z) = 2 /\ (y \o z)[1] = a /\ (y \o z)[2] = b
        BY <2>1, <2>2
  <2> QED BY <2>2, <2>3, Zenon DEF y, z
<1> HIDE DEF x, y, z
<1>3. Len(x) = 2 /\ x[1] = a /\ x[2] = b
      BY <1>2
<1>4. PICK D : x \in Seq(D)
      BY <1>2 DEF IsList
<1>5. x = <<a, b>>
      BY <1>3, <1>4
<1> QED BY <1>5 DEF x

\* An EXCEPT on the end of a frame.
LEMMA Overwritten ==
    ASSUME NEW d, NEW f, NEW r, NEW o, NEW i
    PROVE  [[do |-> d, frame |-> f, raised |-> r, of |-> o] EXCEPT !.of = i]
               = [do |-> d, frame |-> f, raised |-> r, of |-> i]
OBVIOUS

\* A plugin is loaded by a call and the end of its register.
LEMMA LoadPair == \A i : Load(i) = <<LoadCall(i), RegisterEnd(i, FALSE)>>
<1>1. ASSUME NEW i PROVE [EndOf("register") EXCEPT !.of = i] = RegisterEnd(i, FALSE)
  <2>0. PICK no : no = FALSE
        OBVIOUS
  <2>1. EndOf("register") = [do |-> "end", frame |-> "register", raised |-> no, of |-> 0]
        BY <2>0 DEF EndOf
  <2>2. RegisterEnd(i, FALSE) = [do |-> "end", frame |-> "register", raised |-> no, of |-> i]
        BY <2>0 DEF RegisterEnd
  <2>3. [[do |-> "end", frame |-> "register", raised |-> no, of |-> 0] EXCEPT !.of = i]
            = [do |-> "end", frame |-> "register", raised |-> no, of |-> i]
        BY Overwritten
  <2> QED BY <2>1, <2>2, <2>3, Zenon
<1> QED BY <1>1, Zenon DEF Load, LoadCall

\* The same, in front of other work.
LEMMA LoadIs ==
    ASSUME NEW i, NEW x, IsList(x)
    PROVE  Load(i) \o x = <<LoadCall(i)>> \o (<<RegisterEnd(i, FALSE)>> \o x)
<1> DEFINE a == <<LoadCall(i)>>
           b == <<RegisterEnd(i, FALSE)>>
<1>1. Load(i) = a \o b
      BY LoadPair, PairJoins, Zenon
<1>2. IsList(a) /\ IsList(b)
      BY Joins, Zenon
<1> HIDE DEF a, b
<1>3. (a \o b) \o x = a \o (b \o x)
      BY <1>2, Joins
<1> QED BY <1>1, <1>3, Zenon DEF a, b

LoadItems == {LoadCall(i) : i \in Nat} \cup {RegisterEnd(i, FALSE) : i \in Nat}

\* The loads of the files behind file m.
LEMMA LoadsAre ==
    ASSUME user \in Users, NEW m
    PROVE  /\ LoadsBehind(m) \in Seq(Seq(LoadItems)) /\ Len(LoadsBehind(m)) = Len(user.files)
           /\ \A i \in 1..Len(user.files) :
                LoadsBehind(m)[i] = IF i > m /\ Verdict(user.files, i) = "discovered"
                                    THEN Load(i) ELSE <<>>
<1> DEFINE n == Len(user.files)
<1>1. n \in Nat /\ DOMAIN user.files = 1..n
      BY FilesOf, Zenon
<1> HIDE DEF n
<1>2. ASSUME NEW i \in 1..n PROVE Load(i) \in Seq(LoadItems) /\ <<>> \in Seq(LoadItems)
  <2> DEFINE a == LoadCall(i)
             b == RegisterEnd(i, FALSE)
  <2>1. Load(i) = <<a, b>>
        BY LoadPair, Zenon
  <2>2. a \in LoadItems /\ b \in LoadItems
    <3>1. i \in Nat
          BY <1>1
    <3> QED BY <3>1, Zenon DEF LoadItems
  <2> HIDE DEF a, b
  <2> QED BY <2>1, <2>2
<1>3. /\ LoadsBehind(m) = [i \in 1..n |-> LoadsBehind(m)[i]]
      /\ \A i \in 1..n : LoadsBehind(m)[i] = IF i > m /\ Verdict(user.files, i) = "discovered"
                                             THEN Load(i) ELSE <<>>
      BY <1>1, Zenon DEF LoadsBehind, Turn
<1> DEFINE s == LoadsBehind(m)
           S == Seq(LoadItems)
<1>4. \A i \in 1..n : s[i] \in S
      BY <1>2, <1>3
<1> HIDE DEF s, S
<1>5. s \in [1..n -> S]
      BY <1>3, <1>4, Zenon DEF s
<1>6. s \in Seq(S) /\ Len(s) = n
      BY <1>1, <1>5
<1> QED BY <1>3, <1>6, Zenon DEF s, S, n

\* What is left to load is a list.
LEMMA RemainingIsList ==
    ASSUME user \in Users, NEW m PROVE Remaining(m) \in Seq(LoadItems) /\ IsList(Remaining(m))
<1>1. Remaining(m) \in Seq(LoadItems)
      BY LoadsAre, FlatType, Zenon DEF Remaining
<1> QED BY <1>1, Zenon DEF IsList

\* The next file to be loaded, if there is one.
LEMMA RemainingNext ==
    ASSUME user \in Users, NEW m \in 0..Len(user.files)
    PROVE  \/ Remaining(m) = <<>>
           \/ \E i \in DOMAIN user.files :
                /\ m < i /\ Verdict(user.files, i) = "discovered"
                /\ Remaining(m) = Load(i) \o Remaining(i)
<1> DEFINE n == Len(user.files)
           Found1(i) == m < i /\ Verdict(user.files, i) = "discovered"
           T == {i \in 1..n : Found1(i)}
<1>1. n \in Nat /\ DOMAIN user.files = 1..n /\ m \in Nat
  <2>1. n \in Nat /\ DOMAIN user.files = 1..n
        BY FilesOf, Zenon
  <2> QED BY <2>1
<1>2. \A k, i \in 1..n : (i > k) <=> (k < i)
      OBVIOUS
<1>s. \A k \in 0..n : /\ LoadsBehind(k) \in Seq(Seq(LoadItems)) /\ Len(LoadsBehind(k)) = n
      /\ \A i \in 1..n : LoadsBehind(k)[i] = IF i > k /\ Verdict(user.files, i) = "discovered"
                                             THEN Load(i) ELSE <<>>
      BY LoadsAre, Zenon
<1> HIDE DEF n
<1>3. \A i \in 1..n : i \notin T => LoadsBehind(m)[i] = <<>>
  <2>1. \A i \in 1..n : (i > m) <=> (m < i)
        BY <1>1
  <2>2. m \in 0..n
        BY DEF n
  <2>3. \A i \in 1..n : LoadsBehind(m)[i] = IF i > m /\ Verdict(user.files, i) = "discovered"
                                             THEN Load(i) ELSE <<>>
        BY <1>s, <2>2
  <2> QED BY <2>1, <2>3, Zenon
<1>4. CASE T = {}
  <2> DEFINE s == LoadsBehind(m)
  <2>1. m \in 0..n
        BY DEF n
  <2>2. s \in Seq(Seq(LoadItems)) /\ Len(s) = n
        BY <1>s, <2>1, Zenon
  <2>3. \A k \in 1..Len(s) : s[k] = <<>>
        BY <1>3, <1>4, <2>2, Zenon
  <2> HIDE DEF s
  <2>4. FlattenSeq(s) = <<>>
        BY <2>2, <2>3, FlatEmpty, Zenon
  <2> QED BY <2>4, Zenon DEF Remaining, s
<1>5. CASE T # {}
  <2>0. T \subseteq Nat
        OBVIOUS
  <2> HIDE DEF T
  <2>1. PICK i \in T : \A k \in T : i <= k
        BY <1>5, <2>0, LeastNumber, Zenon
  <2>2. i \in 1..n /\ m < i /\ Verdict(user.files, i) = "discovered" /\ i \in 0..n
        BY <2>1 DEF T
  <2> DEFINE s == LoadsBehind(m)
             t == LoadsBehind(i)
  <2>3. m \in 0..n
        BY DEF n
  <2>4. /\ s \in Seq(Seq(LoadItems)) /\ Len(s) = n /\ t \in Seq(Seq(LoadItems)) /\ Len(t) = n
        BY <1>s, <2>2, <2>3, Zenon
  <2>5. /\ \A k \in 1..n : s[k] = IF k > m /\ Verdict(user.files, k) = "discovered" THEN Load(k) ELSE <<>>
        /\ \A k \in 1..n : t[k] = IF k > i /\ Verdict(user.files, k) = "discovered" THEN Load(k) ELSE <<>>
        BY <1>s, <2>2, <2>3, Zenon
  <2> HIDE DEF s, t
  <2>6. \A k \in 1..(i - 1) : s[k] = <<>>
    <3>1. ASSUME NEW k \in 1..(i - 1) PROVE k \in 1..n /\ k \notin T
          BY <1>1, <2>1, <2>2
    <3> QED BY <1>3, <3>1, Zenon DEF s
  <2>7. s[i] = Load(i) /\ t[i] = <<>>
    <3>1. i > m /\ ~(i > i)
          BY <1>1, <2>2
    <3> QED BY <2>2, <2>5, <3>1, Zenon
  <2>8. ASSUME NEW k \in 1..n, k # i PROVE t[k] = s[k]
    <3>1. CASE k < i
      <4>1. k \in 1..(i - 1) /\ ~(k > i)
            BY <1>1, <2>2, <3>1
      <4> QED BY <2>5, <2>6, <4>1, Zenon
    <3>2. CASE ~(k < i)
      <4>1. k > i /\ k > m
            BY <1>1, <2>2, <2>8, <3>2
      <4> QED BY <2>5, <4>1, Zenon
    <3> QED BY <3>1, <3>2
  <2>9. FlattenSeq(s) = s[i] \o FlattenSeq(t)
    <3>1. i \in 1..Len(s) /\ Len(t) = Len(s) /\ \A k \in 1..Len(s) : k # i => t[k] = s[k]
          BY <2>2, <2>4, <2>8, Zenon
    <3> QED BY <2>4, <2>6, <2>7, <3>1, FlatFirst, Zenon
  <2> QED BY <1>1, <2>2, <2>7, <2>9, Zenon DEF Remaining, s, t
<1> QED BY <1>4, <1>5, Zenon

\* So are the other parts of the work.
LEMMA PartsAreLists ==
    ASSUME user \in Users
    PROVE  /\ IsList(After)
           /\ \A m : IsList(Remaining(m) \o After)
           /\ \A m, raised : IsList(Ending(m, raised))
           /\ \A m : IsList(Publications \o Ending(m, FALSE))
           /\ \A m : IsList(Committal(m))
<1>1. IsList(After)
  <2> DEFINE a == Phase("user hooks")
             b == Phase("plugin hooks")
             c == Phase("prompt")
  <2>1. After = <<a, b, c>>
        BY DEF After
  <2> HIDE DEF a, b, c
  <2>2. <<a, b, c>> \in Seq({a, b, c})
        OBVIOUS
  <2> QED BY <2>1, <2>2 DEF IsList
<1>2. \A m : IsList(Remaining(m) \o After)
      BY <1>1, RemainingIsList, JoinIsList, Zenon
<1>3. \A m, raised : IsList(Ending(m, raised))
      BY <1>2, Joins, JoinIsList, Zenon DEF Ending
<1>4. \A m : IsList(Publications \o Ending(m, FALSE))
      BY <1>3, Publishes, JoinIsList, Zenon
<1>5. \A m : IsList(Committal(m))
      BY <1>4, Joins, JoinIsList, Zenon DEF Committal
<1> QED BY <1>1, <1>2, <1>3, <1>4, <1>5

(***************************************************************************)
(* What a plugin has staged.                                               *)
(***************************************************************************)
Register(m) == user.files[m].register

\* The calls of register that stage a name.
Names(d) == /\ d.do = "stage" /\ d.key \in Range(SlotKinds)
            /\ Registrable(d) /\ ~(d.key = "command" /\ d.value \in Builtin)

Offered(m, k) ==
    {<<Register(m)[i].key, Register(m)[i].value>> : i \in {j \in 1..k : Names(Register(m)[j])}}

HookAt(m, i, kind) ==
    IF Register(m)[i].do = "stage" /\ Register(m)[i].key = kind
    THEN <<[plugin |-> user.files[m].name, body |-> Register(m)[i].body]>> ELSE <<>>

HooksUpTo(m, k, kind) == FlattenSeq([i \in 1..k |-> HookAt(m, i, kind)])

\* After the first calls of register.
Staged(m, k) ==
    /\ DOMAIN bundle = {"plugin", "slots", "hooks"} /\ DOMAIN bundle.hooks = Range(HookKinds)
    /\ bundle.plugin = user.files[m].name /\ bundle.slots = Offered(m, k)
    /\ \A kind \in Range(HookKinds) : bundle.hooks[kind] = HooksUpTo(m, k, kind)

\* The calls of file m's register.
LEMMA RegisterIs ==
    ASSUME user \in Users, NEW m \in DOMAIN user.files
    PROVE  /\ Register(m) \in Registration /\ IsList(Register(m))
           /\ Len(Register(m)) \in Nat /\ DOMAIN Register(m) = 1..Len(Register(m))
           /\ \A i \in 1..Len(Register(m)) :
                \/ Register(m)[i].do # "stage" /\ Fits(Register(m)[i], QuietWork)
                \/ /\ Register(m)[i].do = "stage"
                   /\ Register(m)[i].key \in Range(SlotKinds) \cup Range(HookKinds)
                   /\ Register(m)[i].body \in Program
<1> DEFINE r == user.files[m].register
<1>1. r \in Registration
      BY FilesOf, Zenon
<1> HIDE DEF r
<1>2. /\ IsList(r) /\ Len(r) \in Nat /\ DOMAIN r = 1..Len(r)
      /\ \A i \in DOMAIN r :
                \/ r[i].do # "stage" /\ Fits(r[i], QuietWork)
                \/ r[i].do = "stage" /\ r[i].key \in Range(SlotKinds) \cup Range(HookKinds)
                                     /\ r[i].body \in Program
      BY <1>1, CallsOf, Zenon
<1>3. \A i \in 1..Len(r) :
                \/ r[i].do # "stage" /\ Fits(r[i], QuietWork)
                \/ r[i].do = "stage" /\ r[i].key \in Range(SlotKinds) \cup Range(HookKinds)
                                     /\ r[i].body \in Program
      BY <1>2, Zenon
<1> QED BY <1>1, <1>2, <1>3, Zenon DEF Register, r

\* The hooks of the first k calls, one call at a time.
LEMMA HooksMore ==
    ASSUME NEW m, NEW kind
    PROVE  /\ \A k \in Nat : IsList(HooksUpTo(m, k, kind))
           /\ HooksUpTo(m, 0, kind) = <<>>
           /\ \A k \in Nat : HooksUpTo(m, k + 1, kind) = HooksUpTo(m, k, kind) \o HookAt(m, k + 1, kind)
<1> DEFINE s(k) == [i \in 1..k |-> HookAt(m, i, kind)]
           D == {[plugin |-> user.files[m].name, body |-> Register(m)[i].body] : i \in Nat}
           S == Seq(D)
<1>1. ASSUME NEW i \in Nat PROVE HookAt(m, i, kind) \in S
  <2> DEFINE c == [plugin |-> user.files[m].name, body |-> Register(m)[i].body]
  <2>1. HookAt(m, i, kind) = <<c>> \/ HookAt(m, i, kind) = <<>>
        BY Zenon DEF HookAt
  <2>2. c \in D
        OBVIOUS
  <2> HIDE DEF c, D
  <2>3. <<c>> \in S /\ <<>> \in S
        BY <2>2
  <2> QED BY <2>1, <2>3, Zenon
<1> HIDE DEF D
<1>2. ASSUME NEW k \in Nat
      PROVE  s(k) \in Seq(S) /\ Len(s(k)) = k /\ \A i \in 1..k : s(k)[i] = HookAt(m, i, kind)
  <2> HIDE DEF S
  <2>1. \A i \in 1..k : HookAt(m, i, kind) \in S
        BY <1>1
  <2>2. s(k) \in [1..k -> S]
        BY <2>1, Zenon
  <2>3. \A i \in 1..k : s(k)[i] = HookAt(m, i, kind)
        BY Zenon
  <2> HIDE DEF s
  <2> QED BY <2>2, <2>3
<1> HIDE DEF s
<1>3. ASSUME NEW k \in Nat PROVE IsList(FlattenSeq(s(k)))
  <2>1. FlattenSeq(s(k)) \in Seq(D)
        BY <1>2, FlatType, Zenon
  <2> QED BY <2>1, Zenon DEF IsList
<1>4. FlattenSeq(s(0)) = <<>>
  <2>1. s(0) \in Seq(Seq(D)) /\ Len(s(0)) = 0
        BY <1>2
  <2>2. \A i \in 1..Len(s(0)) : s(0)[i] = <<>>
        BY <2>1
  <2> QED BY <2>1, <2>2, FlatEmpty
<1>5. ASSUME NEW k \in Nat
      PROVE  FlattenSeq(s(k + 1)) = FlattenSeq(s(k)) \o HookAt(m, k + 1, kind)
  <2> DEFINE x == s(k)
             y == s(k + 1)
  <2>1. k + 1 \in Nat /\ k + 1 \in 1..(k + 1) /\ 1..k \subseteq 1..(k + 1)
        OBVIOUS
  <2>2. /\ x \in Seq(Seq(D)) /\ y \in Seq(Seq(D)) /\ Len(x) = k /\ Len(y) = k + 1
        /\ \A i \in 1..k : y[i] = x[i]
        /\ y[k + 1] = HookAt(m, k + 1, kind)
        BY <1>2, <2>1, Zenon
  <2> HIDE DEF x, y
  <2>3. Len(y) = Len(x) + 1 /\ \A i \in 1..Len(x) : y[i] = x[i]
        BY <2>2, Zenon
  <2>4. FlattenSeq(y) = FlattenSeq(x) \o y[Len(y)]
        BY <2>2, <2>3, FlatMore, Zenon
  <2> QED BY <2>2, <2>4, Zenon DEF x, y
<1> QED BY <1>3, <1>4, <1>5, Zenon DEF HooksUpTo, s

\* The slots of the first k calls, one call at a time.
LEMMA OfferedMore ==
    ASSUME NEW m
    PROVE  /\ Offered(m, 0) = {}
           /\ \A k \in Nat : Offered(m, k + 1) = Offered(m, k) \cup
                 {<<Register(m)[i].key, Register(m)[i].value>> :
                     i \in {j \in {k + 1} : Names(Register(m)[j])}}
<1>1. 1..0 = {}
      OBVIOUS
<1>2. \A k \in Nat : 1..(k + 1) = (1..k) \cup {k + 1}
      OBVIOUS
<1> QED BY <1>1, <1>2, Zenon DEF Offered

\* With all calls made, all that a file offers has been staged.
LEMMA OfferedAll ==
    ASSUME user \in Users, NEW m \in DOMAIN user.files
    PROVE  /\ Offers(user.files[m]) =
                {<<s[1], s[2], user.files[m].name>> : s \in Offered(m, Len(Register(m)))}
           /\ \A kind : HooksOffered(user.files[m], kind) = HooksUpTo(m, Len(Register(m)), kind)
<1> DEFINE r == Register(m)
           n == Len(r)
           name == user.files[m].name
<1>1. DOMAIN r = 1..n
      BY RegisterIs
<1>2. \A kind : HooksOffered(user.files[m], kind) = HooksUpTo(m, n, kind)
  <2>1. \A kind : [c \in DOMAIN user.files[m].register |->
                   IF user.files[m].register[c].do = "stage" /\ user.files[m].register[c].key = kind
                   THEN <<[plugin |-> user.files[m].name, body |-> user.files[m].register[c].body]>> ELSE <<>>]
              = [i \in 1..n |-> HookAt(m, i, kind)]
        BY <1>1, Zenon DEF HookAt, Register
  <2> QED BY <2>1, Zenon DEF HooksOffered, HooksUpTo
<1>3. Offers(user.files[m]) = {<<d.key, d.value, name>> : d \in {c \in Range(r) : Names(c)}}
      BY Zenon DEF Offers, Names, Register
<1>4. Range(r) = {r[i] : i \in 1..n}
      BY <1>1, Zenon DEF Range
<1>5. \A s \in Offered(m, n) : \E i \in 1..n : Names(r[i]) /\ s = <<r[i].key, r[i].value>>
      BY Zenon DEF Offered
<1>6. \A i \in 1..n : Names(r[i]) => <<r[i].key, r[i].value>> \in Offered(m, n)
      BY Zenon DEF Offered
<1>7. \A a, b : <<a, b>>[1] = a /\ <<a, b>>[2] = b
      OBVIOUS
<1> DEFINE T == {<<s[1], s[2], name>> : s \in Offered(m, n)}
<1>8. ASSUME NEW x \in Offers(user.files[m]) PROVE x \in T
  <2>1. PICK i \in 1..n : Names(r[i]) /\ x = <<r[i].key, r[i].value, name>>
        BY <1>3, <1>4, Zenon
  <2> DEFINE s == <<r[i].key, r[i].value>>
  <2>2. s \in Offered(m, n)
        BY <1>6, <2>1, Zenon
  <2>3. s[1] = r[i].key /\ s[2] = r[i].value
        BY <1>7, Zenon
  <2> HIDE DEF s
  <2> QED BY <2>1, <2>2, <2>3, Zenon
<1>9. ASSUME NEW x \in T PROVE x \in Offers(user.files[m])
  <2>1. PICK s \in Offered(m, n) : x = <<s[1], s[2], name>>
        BY Zenon
  <2>2. PICK i \in 1..n : Names(r[i]) /\ s = <<r[i].key, r[i].value>>
        BY <1>5
  <2>3. s[1] = r[i].key /\ s[2] = r[i].value
        BY <1>7, <2>2, Zenon
  <2> QED BY <1>3, <1>4, <2>1, <2>2, <2>3, Zenon
<1>10. Offers(user.files[m]) = T
       BY <1>8, <1>9, Zenon
<1> QED BY <1>2, <1>10, Zenon

(***************************************************************************)
(* The phases.                                                             *)
(***************************************************************************)
\* One owner for each name, and none of the shell's.
Owned(s) ==
    /\ \A t, u \in s : <<t[1], t[2]>> = <<u[1], u[2]>> => t = u
    /\ \A t \in s : t[1] = "command" => t[2] \notin Builtin

\* The tables hold what the loaded files of the first m offered, and nothing else.
Whole(m) ==
    /\ Loaded(m)
    /\ slots = LoadedSlots /\ Owned(slots)
    /\ \A kind \in Range(HookKinds) : hooks[kind] = LoadedHooks(kind)

Discovery == <<Phase("discover")>> \o After

\* The start has not come to the plugins: the configuration is applied, rc files run.
Awaiting(q) ==
    /\ records = <<>> /\ slots = {} /\ hooks = NoHooks /\ bundle = <<>>
    /\ List(q, EarlyWork(Ours)) /\ work = q \o Discovery

\* Files up to m have their verdicts; loads of the others are next.
Between(m) ==
    /\ m \in 0..Len(user.files) /\ Whole(m) /\ bundle = <<>>
    /\ work = Remaining(m) \o After

IsNext(m) == m \in DOMAIN user.files /\ Verdict(user.files, m) = "discovered"

\* k calls of the register of file m are over; q is what the last of them left to do.
Registering(m, k, q) ==
    /\ IsNext(m) /\ Whole(m - 1)
    /\ k \in 0..Len(Register(m)) /\ Staged(m, k)
    /\ List(q, QuietWork) /\ work = q \o (Rest(Register(m), k) \o Committal(m))

\* The bundle of file m has passed validation, and j of its six tables are published.
Committing(m, j) ==
    /\ IsNext(m) /\ Loaded(m - 1)
    /\ j \in 0..6 /\ Staged(m, Len(Register(m)))
    /\ Owned(LoadedSlots \cup Offers(user.files[m]))
    /\ slots = LoadedSlots \cup {s \in Offers(user.files[m]) : s[1] \in Published(j)}
    /\ \A kind \in Range(HookKinds) :
          hooks[kind] = LoadedHooks(kind) \o (IF kind \in Published(j)
                                              THEN HooksOffered(user.files[m], kind) ELSE <<>>)
    /\ work = Rest(Publications, j) \o Ending(m, FALSE)

\* The register of file m has raised.
Abandoned(m) == IsNext(m) /\ Whole(m - 1) /\ work = Ending(m, TRUE)

\* All verdicts are in, or the start failed before the first.
Finished ==
    /\ \/ records = <<>> /\ slots = {} /\ hooks = NoHooks
       \/ Whole(Len(user.files))
    /\ bundle = <<>> /\ List(work, LateWork)

Phases ==
    \/ \E q : Awaiting(q)
    \/ \E m : Between(m)
    \/ \E m, k, q : Registering(m, k, q)
    \/ \E m, j : Committing(m, j)
    \/ \E m : Abandoned(m)
    \/ Finished

\* What plugins stage has a body, too.
StagedTyped ==
    /\ DOMAIN hooks = Range(HookKinds)
    /\ bundle # <<>> => \A kind \in Range(HookKinds) : HookList(bundle.hooks[kind])

\* The inductive invariant.
IInv == user \in Users /\ Typed /\ StagedTyped /\ Phases

\* Files that are not loaded make no difference to what is whole.
LEMMA WholeLater ==
    ASSUME user \in Users, NEW m, Whole(m), NEW n, \A i \in LoadedFiles : i <= m => i <= n
    PROVE  Whole(n)
BY Zenon DEF Whole, Loaded

\* Whole tables can be served.
LEMMA WholeServed == ASSUME user \in Users, NEW m, Whole(m) PROVE Served
BY LoadedServed, Zenon DEF Whole

\* So can empty ones.
LEMMA NoSlotsServed == ASSUME slots = {} PROVE Served
BY FS_EmptySet DEF Served

\* Nothing that is said of the files changes unless one is loaded.
LEMMA Frozen ==
    ASSUME UNCHANGED <<user, enabled, allowed>>
    PROVE  /\ \A i : Verdict(user.files, i)' = Verdict(user.files, i)
           /\ \A m : Remaining(m)' = Remaining(m)
           /\ \A m : (Remaining(m) \o After)' = Remaining(m) \o After
           /\ \A m, raised : Ending(m, raised)' = Ending(m, raised)
           /\ \A m : Committal(m)' = Committal(m)
           /\ \A m : Register(m)' = Register(m)
           /\ \A m : IsNext(m)' <=> IsNext(m)
           /\ \A m, k : Offered(m, k)' = Offered(m, k)
           /\ \A m, k, kind : HooksUpTo(m, k, kind)' = HooksUpTo(m, k, kind)
<1>1. user' = user /\ enabled' = enabled /\ allowed' = allowed
      OBVIOUS
<1>2. \A i : Verdict(user.files, i)' = Verdict(user.files, i)
  <2>1. ASSUME NEW i PROVE Verdict(user.files, i)' = Verdict(user.files, i)
        BY <1>1 DEF Verdict, Permitted
  <2> QED BY <2>1, Zenon
<1>3. ASSUME NEW m PROVE LoadsBehind(m)' = LoadsBehind(m)
  <2>1. \A i : Turn(m, i)' = Turn(m, i)
        BY <1>2, Zenon DEF Turn
  <2>2. [i \in DOMAIN user.files |-> Turn(m, i)]' = [i \in DOMAIN user.files |-> Turn(m, i)]
        BY <1>1, <2>1, Zenon
  <2> QED BY <2>2, Zenon DEF LoadsBehind
<1>4. \A m : Remaining(m)' = Remaining(m)
      BY <1>3, Zenon DEF Remaining
<1>5. \A m, raised : Ending(m, raised)' = Ending(m, raised)
      BY <1>4, Zenon DEF Ending
<1>6. \A m : Committal(m)' = Committal(m)
      BY <1>5, Zenon DEF Committal
<1>7. \A m : Register(m)' = Register(m)
      BY <1>1, Zenon DEF Register
<1>8. \A m : IsNext(m)' <=> IsNext(m)
      BY <1>1, <1>2, Zenon DEF IsNext
<1>9. \A m, k : Offered(m, k)' = Offered(m, k)
      BY <1>7, Zenon DEF Offered
<1>10. \A m, i, kind : HookAt(m, i, kind)' = HookAt(m, i, kind)
      BY <1>1, <1>7, Zenon DEF HookAt
<1>11. ASSUME NEW m, NEW k, NEW kind PROVE HooksUpTo(m, k, kind)' = HooksUpTo(m, k, kind)
  <2>1. [i \in 1..k |-> HookAt(m, i, kind)]' = [i \in 1..k |-> HookAt(m, i, kind)]
        BY <1>10, Zenon
  <2> QED BY <2>1, Zenon DEF HooksUpTo
<1> QED BY <1>2, <1>4, <1>5, <1>6, <1>7, <1>8, <1>9, <1>11, Zenon

\* Steps that leave files, verdicts and permissions alone.
LEMMA FrozenTables ==
    ASSUME UNCHANGED <<user, enabled, allowed, records>>
    PROVE  /\ LoadedFiles' = LoadedFiles /\ LoadedSlots' = LoadedSlots
           /\ \A kind : LoadedHooks(kind)' = LoadedHooks(kind)
           /\ \A m : Loaded(m)' <=> Loaded(m)
           /\ UNCHANGED <<slots, hooks>> => \A m : Whole(m)' <=> Whole(m)
<1>1. user' = user /\ enabled' = enabled /\ allowed' = allowed /\ records' = records
      OBVIOUS
<1>2. LoadedFiles' = LoadedFiles
      BY <1>1, Zenon DEF LoadedFiles
<1>3. LoadedSlots' = LoadedSlots
      BY <1>1, <1>2, Zenon DEF LoadedSlots
<1>4. \A kind : LoadedHooks(kind)' = LoadedHooks(kind)
  <2>1. \A kind : [i \in DOMAIN records |->
                      IF records[i] = "loaded" THEN HooksOffered(user.files[i], kind) ELSE <<>>]'
                = [i \in DOMAIN records |->
                      IF records[i] = "loaded" THEN HooksOffered(user.files[i], kind) ELSE <<>>]
        BY <1>1, Zenon
  <2> QED BY <2>1, Zenon DEF LoadedHooks
<1>5. \A m : Loaded(m)' <=> Loaded(m)
  <2>1. \A i : Verdict(user.files, i)' = Verdict(user.files, i)
        BY <1>1, Frozen, Zenon
  <2> QED BY <1>1, <1>2, <2>1, Zenon DEF Loaded
<1>6. ASSUME UNCHANGED <<slots, hooks>> PROVE \A m : Whole(m)' <=> Whole(m)
  <2>1. slots' = slots /\ hooks' = hooks
        BY <1>6
  <2> QED BY <1>3, <1>4, <1>5, <2>1, Zenon DEF Whole, Owned
<1> QED BY <1>2, <1>3, <1>4, <1>5, <1>6, Zenon

(***************************************************************************)
(* The lists of the phases.                                                *)
(***************************************************************************)
LEMMA Unphased ==
    ASSUME NEW c, c.do # "phase" PROVE Fits(c, KnownWork)
BY DEF Fits, Discovers

\* The phases behind the discovery.
LEMMA PhasesLate ==
    /\ Fits(Phase("user hooks"), LateWork) /\ Fits(Phase("plugin hooks"), LateWork)
    /\ Fits(Phase("prompt"), LateWork)
BY Zenon DEF Fits, Late

\* The work behind the loading of plugins.
LEMMA AfterIs ==
    /\ List(After, LateWork) /\ List(After, KnownWork) /\ Endless(After)
    /\ After = (<<Phase("user hooks")>> \o <<Phase("plugin hooks")>>) \o <<Phase("prompt")>>
<1> DEFINE a == Phase("user hooks")
           b == Phase("plugin hooks")
           c == Phase("prompt")
           s == <<a, b, c>>
<1>1. After = s
      BY DEF After
<1>2. Fits(a, LateWork) /\ Fits(b, LateWork) /\ Fits(c, LateWork)
      BY PhasesLate
<1>3. a.do = "phase" /\ b.do = "phase" /\ c.do = "phase"
      BY DEF Phase
<1> HIDE DEF a, b, c
<1>4. /\ s = [i \in 1..3 |-> s[i]] /\ s[1] = a /\ s[2] = b /\ s[3] = c /\ DOMAIN s = 1..3
      /\ s = (<<a>> \o <<b>>) \o <<c>>
  <2>1. s = [i \in 1..3 |-> s[i]] /\ s[1] = a /\ s[2] = b /\ s[3] = c /\ DOMAIN s = 1..3
        OBVIOUS
  <2>2. s = (<<a>> \o <<b>>) \o <<c>>
    <3> DEFINE x == <<a, b>>
               y == <<c>>
    <3>1. x = <<a>> \o <<b>>
          BY PairJoins, Zenon
    <3>2. x \in Seq({a, b, c}) /\ y \in Seq({a, b, c}) /\ s \in Seq({a, b, c})
          OBVIOUS
    <3>3. Len(x) = 2 /\ x[1] = a /\ x[2] = b /\ Len(y) = 1 /\ y[1] = c
          OBVIOUS
    <3>4. Len(s) = 3
          OBVIOUS
    <3>5. s = x \o y
      <4>1. IsList(x) /\ IsList(y) /\ IsList(s)
            BY <3>2, Zenon DEF IsList
      <4> DEFINE z == x \o y
      <4> HIDE DEF x, y, s
      <4>2. /\ IsList(x \o y) /\ Len(x \o y) = Len(x) + Len(y)
            /\ \A i \in 1..Len(x) : (x \o y)[i] = x[i]
            /\ \A i \in 1..Len(y) : (x \o y)[Len(x) + i] = y[i]
            BY <4>1, Ends, JoinIsList
      <4>3. Len(z) = 3 /\ z[1] = a /\ z[2] = b /\ z[3] = c
            BY <3>3, <4>2
      <4>4. PICK D : z \in Seq(D) /\ s \in Seq(D)
            BY <4>1, <4>2, Together
      <4> HIDE DEF z
      <4>5. s = z
            BY <2>1, <3>4, <4>3, <4>4
      <4> QED BY <4>5 DEF z
    <3> QED BY <3>1, <3>5, Zenon
  <2> QED BY <2>1, <2>2
<1> HIDE DEF s
<1>5. \A i \in 1..3 : s[i] = a \/ s[i] = b \/ s[i] = c
      BY <1>4
<1>6. List(s, LateWork)
  <2>1. \A i \in 1..3 : Fits(s[i], LateWork)
        BY <1>2, <1>5, Zenon
  <2> QED BY <1>4, <2>1, ListOf
<1>7. Endless(s)
  <2>1. \A i \in DOMAIN s : s[i].do = "phase"
        BY <1>3, <1>4, <1>5, Zenon
  <2> QED BY <2>1 DEF Endless
<1>8. List(s, KnownWork)
      BY <1>6, ListWeaker
<1> QED BY <1>1, <1>4, <1>6, <1>7, <1>8, Zenon DEF a, b, c

\* Once the files are known, no part of the work is a discovery.
LEMMA PartsKnown ==
    ASSUME user \in Users
    PROVE  /\ \A m : List(Remaining(m), KnownWork) /\ List(Remaining(m) \o After, KnownWork)
           /\ \A m, raised : List(Ending(m, raised), KnownWork)
           /\ List(Publications, KnownWork) /\ Endless(Publications)
           /\ \A m : List(Committal(m), KnownWork)
           /\ \A m \in DOMAIN user.files :
                 List(Register(m), KnownWork) /\ Endless(Register(m))
<1>1. ASSUME NEW m PROVE List(Remaining(m), KnownWork)
  <2> DEFINE x == Remaining(m)
  <2>1. x \in Seq(LoadItems) /\ IsList(x)
        BY RemainingIsList
  <2>2. \A c \in LoadItems : c.do # "phase"
        BY DEF LoadItems, LoadCall, RegisterEnd
  <2> HIDE DEF x
  <2>3. \A i \in DOMAIN x : x[i] \in LoadItems
        BY <2>1
  <2>4. List(x, KnownWork)
        BY <2>1, <2>2, <2>3, Unphased, Zenon DEF List
  <2> QED BY <2>4 DEF x
<1>2. ASSUME NEW m PROVE List(Remaining(m) \o After, KnownWork)
      BY <1>1, AfterIs, ListJoin, Zenon
<1>3. ASSUME NEW m, NEW raised PROVE List(Ending(m, raised), KnownWork)
  <2>1. RegisterEnd(m, raised).do # "phase"
        BY DEF RegisterEnd
  <2>2. List(<<RegisterEnd(m, raised)>>, KnownWork)
        BY <2>1, Unphased, ListOne, Zenon
  <2> QED BY <1>2, <2>2, ListJoin, Zenon DEF Ending
<1>4. List(Publications, KnownWork) /\ Endless(Publications)
  <2>1. \A i \in DOMAIN Publications : Publications[i].do = "publish"
    <3>1. DOMAIN Publications = 1..6
          BY Publishes, Ends, Zenon
    <3>2. \A i : [do |-> "publish", key |-> KindAt(i)].do = "publish"
          OBVIOUS
    <3> QED BY <3>1, <3>2, Publishes, Zenon
  <2>2. \A i \in DOMAIN Publications : Publications[i].do # "phase" /\ Publications[i].do # "end"
        BY <2>1
  <2> QED BY <2>2, Unphased, Publishes, Zenon DEF List, Endless
<1>5. ASSUME NEW m PROVE List(Committal(m), KnownWork)
  <2>1. [do |-> "validate"].do # "phase"
        OBVIOUS
  <2>2. List(<<[do |-> "validate"]>>, KnownWork)
        BY <2>1, Unphased, ListOne, Zenon
  <2>3. List(Publications \o Ending(m, FALSE), KnownWork)
        BY <1>3, <1>4, ListJoin, Zenon
  <2> QED BY <2>2, <2>3, ListJoin, Zenon DEF Committal
<1>6. ASSUME NEW m \in DOMAIN user.files
      PROVE  List(Register(m), KnownWork) /\ Endless(Register(m))
  <2> DEFINE r == Register(m)
  <2>1. /\ IsList(r) /\ DOMAIN r = 1..Len(r) /\ r \in Registration
        BY RegisterIs, Zenon
  <2>2. \A c \in Code \cup Staging : c.do # "phase" /\ c.do # "end"
    <3>1. \A c \in Code : c.do # "phase" /\ c.do # "end"
          BY CodeAssumption DEF Written
    <3>2. \A c \in Staging : c.do # "phase" /\ c.do # "end"
          BY CodeAssumption
    <3> QED BY <3>1, <3>2
  <2> HIDE DEF r
  <2>3. \A i \in DOMAIN r : r[i].do # "phase" /\ r[i].do # "end"
        BY <2>1, <2>2 DEF Registration
  <2>4. List(r, KnownWork) /\ Endless(r)
        BY <2>1, <2>3, Unphased, Zenon DEF List, Endless
  <2> QED BY <2>4 DEF r
<1> QED BY <1>1, <1>2, <1>3, <1>4, <1>5, <1>6

(***************************************************************************)
(* What the invariant says of the tables.                                  *)
(***************************************************************************)
LEMMA NothingLoaded ==
    ASSUME user \in Users, records = <<>>, slots = {}, hooks = NoHooks
    PROVE  PluginsWhole(user.files)
<1>1. DOMAIN records = {}
      OBVIOUS
<1>2. UNION {Offers(user.files[i]) : i \in {j \in DOMAIN records : records[j] = "loaded"}} = {}
      BY <1>1
<1>3. ASSUME NEW kind \in Range(HookKinds)
      PROVE  hooks[kind] = FlattenSeq([i \in DOMAIN records |->
                                IF records[i] = "loaded" THEN HooksOffered(user.files[i], kind) ELSE <<>>])
  <2> DEFINE s == [i \in DOMAIN records |->
                     IF records[i] = "loaded" THEN HooksOffered(user.files[i], kind) ELSE <<>>]
  <2>1. s = <<>>
        BY <1>1
  <2>3. FlattenSeq(<<>>) = <<>>
    <3> DEFINE z == <<>>
    <3>1. z \in Seq(Seq({})) /\ \A k \in 1..Len(z) : z[k] = <<>>
          OBVIOUS
    <3> HIDE DEF z
    <3>2. FlattenSeq(z) = <<>>
          BY <3>1, FlatEmpty, Zenon
    <3> QED BY <3>2 DEF z
  <2>4. hooks[kind] = <<>>
        BY DEF NoHooks
  <2> QED BY <2>1, <2>3, <2>4, Zenon
<1> QED BY <1>1, <1>2, <1>3, Zenon DEF PluginsWhole

\* Tables whole up to a file, with nothing loaded behind it, are whole.
LEMMA WholeIsWhole ==
    ASSUME user \in Users, NEW m, Whole(m)
    PROVE  PluginsWhole(user.files)
<1>1. slots = UNION {Offers(user.files[i]) : i \in {j \in DOMAIN records : records[j] = "loaded"}}
      BY Zenon DEF Whole, LoadedSlots, LoadedFiles
<1>2. \A kind \in Range(HookKinds) :
          hooks[kind] = FlattenSeq([i \in DOMAIN records |->
                            IF records[i] = "loaded" THEN HooksOffered(user.files[i], kind) ELSE <<>>])
      BY Zenon DEF Whole, LoadedHooks
<1>3. \A i, j \in DOMAIN records :
          records[i] = "loaded" /\ records[j] = "loaded" /\ user.files[i].name = user.files[j].name => i = j
      BY OneOfAName, Zenon DEF Whole, LoadedFiles
<1>4. Owned(slots)
      BY Zenon DEF Whole
<1>5. \A i \in LoadedFiles : Permitted(user.files[i])
  <2>1. \A i \in LoadedFiles : Verdict(user.files, i) = "discovered"
        BY Zenon DEF Whole, Loaded
  <2> QED BY <2>1 DEF Verdict
<1>6. \A i \in DOMAIN records : records[i] = "loaded" =>
          user.files[i].name \in enabled /\ (user.files[i].project => allowed)
      BY <1>5, Zenon DEF LoadedFiles, Permitted
<1> QED BY <1>1, <1>2, <1>3, <1>4, <1>6, Zenon DEF PluginsWhole, Owned

\* Work of known files holds no discovery.
LEMMA KnownLists ==
    ASSUME List(work, KnownWork) PROVE ~\E i \in DOMAIN work : work[i].do = "phase" /\ work[i].key = "discover"
<1>1. ASSUME NEW c, Fits(c, KnownWork) PROVE ~Discovers(c)
  <2>1. /\ KnownWork # LateWork /\ KnownWork # PriorWork /\ KnownWork # UntypedWork
        /\ \A m : KnownWork # EarlyWork(m)
        BY Levels, Zenon
  <2>2. CASE Quiet(c)
    <3>1. c.do \in QuietDo
          BY <2>2, QuietDoes
    <3> QED BY <3>1 DEF Discovers, QuietDo
  <2> QED BY <1>1, <2>1, <2>2 DEF Fits
<1> QED BY <1>1, Zenon DEF List, Discovers

\* The inductive invariant implies the property.
LEMMA InvImplies == IInv => PluginsPublishedWhole
<1> SUFFICES ASSUME IInv PROVE PluginsPublishedWhole
    OBVIOUS
<1>1. user \in Users /\ Phases
      BY DEF IInv
<1>2. CASE \E q : Awaiting(q)
      BY <1>1, <1>2, NothingLoaded, Zenon DEF Awaiting, PluginsPublishedWhole
<1>3. CASE \E m : Between(m)
  <2>1. PICK m : Between(m)
        BY <1>3
  <2>2. List(work, KnownWork)
        BY <1>1, <2>1, PartsKnown, Zenon DEF Between
  <2>3. PluginsWhole(user.files)
        BY <1>1, <2>1, WholeIsWhole, Zenon DEF Between
  <2> QED BY <2>2, <2>3, KnownLists, Zenon DEF PluginsPublishedWhole
<1>4. CASE \E m, k, q : Registering(m, k, q)
  <2>1. PICK m, k, q : Registering(m, k, q)
        BY <1>4
  <2>2. /\ m \in DOMAIN user.files /\ k \in 0..Len(Register(m))
        /\ List(q, QuietWork) /\ work = q \o (Rest(Register(m), k) \o Committal(m)) /\ Whole(m - 1)
        BY <2>1, Zenon DEF Registering, IsNext
  <2>3. List(q, KnownWork)
        BY <2>2, ListWeaker, Zenon
  <2>4. List(Register(m), KnownWork) /\ List(Committal(m), KnownWork)
        BY <1>1, <2>2, PartsKnown, Zenon
  <2>5. List(Rest(Register(m), k), KnownWork)
        BY <2>2, <2>4, ListRest, Zenon
  <2>6. List(q \o (Rest(Register(m), k) \o Committal(m)), KnownWork)
        BY <2>3, <2>4, <2>5, ListJoin, Zenon
  <2>7. PluginsWhole(user.files)
        BY <1>1, <2>2, WholeIsWhole, Zenon
  <2> QED BY <2>2, <2>6, <2>7, KnownLists, Zenon DEF PluginsPublishedWhole
<1>5. CASE \E m, j : Committing(m, j)
  <2>1. PICK m, j : Committing(m, j)
        BY <1>5
  <2>2. j \in 0..6 /\ work = Rest(Publications, j) \o Ending(m, FALSE) /\ Staged(m, Len(Register(m)))
        BY <2>1, Zenon DEF Committing
  <2>3. List(Rest(Publications, j), KnownWork)
    <3>1. j \in 0..Len(Publications) /\ List(Publications, KnownWork)
          BY <1>1, <2>2, Publishes, PartsKnown
    <3> QED BY <3>1, ListRest, Zenon
  <2>4. List(Ending(m, FALSE), KnownWork)
        BY <1>1, PartsKnown, Zenon
  <2>5. List(work, KnownWork)
        BY <2>2, <2>3, <2>4, ListJoin, Zenon
  <2>6. bundle # <<>>
    <3>1. DOMAIN bundle = {"plugin", "slots", "hooks"}
          BY <2>2, Zenon DEF Staged
    <3>2. DOMAIN <<>> = {}
          OBVIOUS
    <3>3. "plugin" \in {"plugin", "slots", "hooks"} /\ "plugin" \notin {}
          OBVIOUS
    <3> QED BY <3>1, <3>2, <3>3, Zenon
  <2> QED BY <2>5, <2>6, KnownLists, Zenon DEF PluginsPublishedWhole, PluginsWhole
<1>6. CASE \E m : Abandoned(m)
  <2>1. PICK m : Abandoned(m)
        BY <1>6
  <2>2. List(work, KnownWork)
        BY <1>1, <2>1, PartsKnown, Zenon DEF Abandoned
  <2>3. PluginsWhole(user.files)
        BY <1>1, <2>1, WholeIsWhole, Zenon DEF Abandoned
  <2> QED BY <2>2, <2>3, KnownLists, Zenon DEF PluginsPublishedWhole
<1>7. CASE Finished
  <2>1. List(work, KnownWork)
        BY <1>7, ListWeaker, Zenon DEF Finished
  <2>2. PluginsWhole(user.files)
        BY <1>1, <1>7, NothingLoaded, WholeIsWhole, Zenon DEF Finished
  <2> QED BY <2>1, <2>2, KnownLists, Zenon DEF PluginsPublishedWhole
<1> QED BY <1>1, <1>2, <1>3, <1>4, <1>5, <1>6, <1>7, Zenon DEF Phases

(***************************************************************************)
(* Exceptions while plugins are loaded.                                    *)
(***************************************************************************)
LEMMA RegisterKeeps == Caught("register") = {"error", "quit"}
BY DEF Caught

\* An exception marks the end of the register that it passes.
LEMMA RaisedEnd == \A m, raised : Raised(RegisterEnd(m, raised)) = RegisterEnd(m, TRUE)
<1> SUFFICES ASSUME NEW m, NEW raised PROVE Raised(RegisterEnd(m, raised)) = RegisterEnd(m, TRUE)
    OBVIOUS
<1>1. PICK yes : yes = TRUE
      OBVIOUS
<1>2. ASSUME NEW d, NEW f, NEW r, NEW o, NEW s
      PROVE  [[do |-> d, frame |-> f, raised |-> r, of |-> o] EXCEPT !.raised = s]
               = [do |-> d, frame |-> f, raised |-> s, of |-> o]
      OBVIOUS
<1>3. [[do |-> "end", frame |-> "register", raised |-> raised, of |-> m] EXCEPT !.raised = yes]
          = [do |-> "end", frame |-> "register", raised |-> yes, of |-> m]
      BY <1>2
<1> QED BY <1>1, <1>3, Zenon DEF Raised, RegisterEnd

\* An exception leaves the end of the register, marked.
LEMMA EndingUnwinds ==
    ASSUME user \in Users, NEW m, NEW raised, NEW kind \in {"error", "quit"}
    PROVE  UnwoundIn(Ending(m, raised), kind) = Ending(m, TRUE)
<1> DEFINE c == RegisterEnd(m, raised)
           r == Remaining(m) \o After
<1>1. IsList(r)
      BY PartsAreLists, Zenon
<1>2. c.do = "end" /\ c.frame = "register"
      BY DEF RegisterEnd
<1>3. kind \in Caught(c.frame)
      BY <1>2, RegisterKeeps
<1>4. Raised(c) = RegisterEnd(m, TRUE)
      BY RaisedEnd, Zenon
<1> HIDE DEF c, r
<1>5. UnwoundIn(<<c>> \o r, kind) = <<Raised(c)>> \o r
      BY <1>1, <1>2, <1>3, UnwindsHead
<1> QED BY <1>4, <1>5, Zenon DEF Ending, c, r

\* A single call that is no end.
LEMMA OneEndless == ASSUME NEW c, c.do # "end" PROVE Endless(<<c>>) /\ IsList(<<c>>)
<1> DEFINE s == <<c>>
<1>1. IsList(s) /\ Len(s) = 1 /\ s[1] = c
      BY Joins, Zenon
<1> HIDE DEF s
<1>2. DOMAIN s = 1..1
      BY <1>1, Ends, Zenon
<1>3. \A i \in 1..1 : i = 1
      OBVIOUS
<1>4. Endless(s)
      BY <1>1, <1>2, <1>3, Zenon DEF Endless
<1> QED BY <1>1, <1>4 DEF s

\* Before the register begins the exception meets the same end.
LEMMA LoadUnwinds ==
    ASSUME user \in Users, NEW m, NEW kind \in {"error", "quit"}
    PROVE  UnwoundIn(<<LoadCall(m)>> \o Ending(m, FALSE), kind) = Ending(m, TRUE)
<1> DEFINE c == <<LoadCall(m)>>
           e == Ending(m, FALSE)
<1>1. Endless(c) /\ IsList(c)
      BY OneEndless DEF LoadCall
<1>2. IsList(e)
      BY PartsAreLists, Zenon
<1>3. UnwoundIn(e, kind) = Ending(m, TRUE)
      BY EndingUnwinds, Zenon
<1> HIDE DEF c, e
<1>4. UnwoundIn(c \o e, kind) = UnwoundIn(e, kind)
      BY <1>1, <1>2, UnwindsEndless
<1> QED BY <1>3, <1>4, Zenon DEF c, e

\* So it does between validation and publication.
LEMMA CommittalUnwinds ==
    ASSUME user \in Users, NEW m, NEW kind \in {"error", "quit"}
    PROVE  UnwoundIn(Committal(m), kind) = Ending(m, TRUE)
<1> DEFINE v == <<[do |-> "validate"]>>
           p == Publications
           e == Ending(m, FALSE)
<1>1. Endless(v) /\ IsList(v)
      BY OneEndless
<1>2. Endless(p) /\ IsList(p)
      BY PartsKnown, Publishes, Zenon
<1>3. IsList(e) /\ IsList(p \o e)
      BY PartsAreLists, Zenon
<1>4. UnwoundIn(e, kind) = Ending(m, TRUE)
      BY EndingUnwinds, Zenon
<1>5. Committal(m) = v \o (p \o e)
      BY Zenon DEF Committal
<1> HIDE DEF v, p, e
<1>6. UnwoundIn(p \o e, kind) = UnwoundIn(e, kind)
      BY <1>2, <1>3, UnwindsEndless
<1>7. UnwoundIn(v \o (p \o e), kind) = UnwoundIn(p \o e, kind)
      BY <1>1, <1>3, UnwindsEndless
<1> QED BY <1>4, <1>5, <1>6, <1>7, Zenon

\* And so it does in the middle of the register.
LEMMA RegisterUnwinds ==
    ASSUME user \in Users, NEW m \in DOMAIN user.files, NEW k \in 0..Len(Register(m)),
           NEW kind \in {"error", "quit"}
    PROVE  /\ IsList(Rest(Register(m), k) \o Committal(m))
           /\ UnwoundIn(Rest(Register(m), k) \o Committal(m), kind) = Ending(m, TRUE)
<1> DEFINE r == Register(m)
           n == Len(r)
           s == Rest(r, k)
<1>1. IsList(r) /\ n \in Nat /\ DOMAIN r = 1..n
      BY RegisterIs, Zenon
<1>2. /\ IsList(s) /\ Len(s) = n - k
      /\ \A i \in 1..(n - k) : s[i] = r[k + i]
      BY <1>1, RestIs, Zenon
<1>3. \A i \in 1..n : r[i].do # "end"
      BY <1>1, PartsKnown, Zenon DEF Endless
<1> HIDE DEF r, n
<1>4. k \in 0..n
      BY DEF n, r
<1>5. \A i \in 1..(n - k) : k + i \in 1..n
      BY <1>1, <1>4
<1> HIDE DEF s
<1>6. DOMAIN s = 1..(n - k)
      BY <1>2, Ends, Zenon
<1>7. Endless(s)
      BY <1>2, <1>3, <1>5, <1>6, Zenon DEF Endless
<1>8. IsList(Committal(m))
      BY PartsAreLists, Zenon
<1>9. UnwoundIn(s \o Committal(m), kind) = UnwoundIn(Committal(m), kind)
      BY <1>2, <1>7, <1>8, UnwindsEndless
<1>10. UnwoundIn(Committal(m), kind) = Ending(m, TRUE)
       BY CommittalUnwinds, Zenon
<1>11. IsList(s \o Committal(m))
       BY <1>2, <1>8, JoinIsList, Zenon
<1> QED BY <1>9, <1>10, <1>11, Zenon DEF s, r

\* Nothing catches an exception before the discovery: the start is over.
LEMMA DiscoveryUnwinds ==
    ASSUME NEW kind PROVE IsList(Discovery) /\ UnwoundIn(Discovery, kind) = <<>>
<1> DEFINE d == <<Phase("discover")>>
<1>1. Endless(d) /\ IsList(d)
      BY OneEndless DEF Phase
<1>2. Endless(After) /\ IsList(After)
      BY AfterIs, Zenon DEF List
<1>3. Discovery = d \o After
      BY Zenon DEF Discovery
<1> HIDE DEF d
<1>4. UnwoundIn(d \o After, kind) = UnwoundIn(After, kind)
      BY <1>1, <1>2, UnwindsEndless
<1>5. UnwoundIn(After, kind) = <<>>
      BY <1>2, UnwindsEndless
<1>6. IsList(d \o After)
      BY <1>1, <1>2, JoinIsList, Zenon
<1> QED BY <1>3, <1>4, <1>5, <1>6, Zenon

\* A list before others goes on with a list of its level, or an exception leaves it.
Onward(rest, level) ==
    \/ \E new : List(new, level) /\ work' = new \o rest
    \/ \E kind \in {"error", "quit"} : work' = UnwoundIn(rest, kind) /\ (work' = <<>> => Fails)

\* A throw in front of the rest either reaches the rest or leaves calls before it.
LEMMA ThrowsOnward ==
    ASSUME NEW q, NEW rest, NEW level, List(q, level), IsList(rest), work = q \o rest, Throws
    PROVE  Onward(rest, level)
<1>1. PICK kind \in {"error", "quit"} : work' = Unwound(kind) /\ (work' = <<>> => Fails)
      BY Zenon DEF Throws
<1>2. work' = UnwoundIn(q \o rest, kind)
      BY <1>1, UnwoundIs, Zenon
<1>3. \/ UnwoundIn(q \o rest, kind) = UnwoundIn(rest, kind)
      \/ \E r : List(r, level) /\ UnwoundIn(q \o rest, kind) = r \o rest
      BY Unwinding, SMTT(40)
<1> QED BY <1>1, <1>2, <1>3, Zenon DEF Onward

\* Calls are added in front of the rest.
LEMMA AddsOnward ==
    ASSUME NEW q, NEW rest, NEW level, List(q, level), IsList(rest), work = q \o rest, q # <<>>,
           Adds(level)
    PROVE  Onward(rest, level)
<1>1. PICK new : List(new, level) /\ work' = new \o Tail(work)
      BY Zenon DEF Adds
<1>2. IsList(q)
      BY Zenon DEF List
<1>3. Tail(work) = Tail(q) \o rest
      BY <1>2, Ends, Zenon
<1>4. List(Tail(q), level)
      BY ListHead, Zenon
<1>5. List(new \o Tail(q), level)
      BY <1>1, <1>4, ListJoin, Zenon
<1>6. IsList(new) /\ IsList(Tail(q))
      BY <1>1, <1>4, Zenon DEF List
<1>7. JoinsEitherWay(new, Tail(q), rest)
      BY <1>1, <1>6, ThreeJoined, Zenon
<1> QED BY <1>1, <1>3, <1>5, <1>7, Zenon DEF Onward, JoinsEitherWay

\* Quiet calls fit every level.
LEMMA QuietAdds == ASSUME NEW level, Adds(QuietWork) PROVE Adds(level)
BY ListWeaker, Zenon DEF Adds

\* A quiet call that is first in its list.
LEMMA QuietOnward ==
    ASSUME user \in Users, Typed, Served, NEW q, NEW rest, NEW level, List(q, level), IsList(rest),
           work = q \o rest, q # <<>>, Quiet(Head(q)), Step
    PROVE  /\ UNCHANGED <<user, plugins>> /\ startupHooks' \in Seq(Program)
           /\ Onward(rest, level)
<1>1. IsList(q)
      BY Zenon DEF List
<1>2. IsList(work) /\ work # <<>> /\ This = Head(q)
  <2>1. IsList(q \o rest)
        BY <1>1, JoinIsList, Zenon
  <2>2. q \o rest # <<>>
        BY <1>1, Ends
  <2>3. Head(q \o rest) = Head(q)
        BY <1>1, HeadJoined, Zenon
  <2> QED BY <2>1, <2>2, <2>3, Zenon DEF This
<1>3. Quiet(This)
      BY <1>2, Zenon
<1>4. /\ UNCHANGED <<user, plugins>> /\ startupHooks' \in Seq(Program)
      /\ Adds(QuietWork) \/ Throws
      BY <1>2, <1>3, QuietStep, Zenon
<1>5. Onward(rest, level)
      BY <1>4, ThrowsOnward, QuietAdds, AddsOnward, Zenon
<1> QED BY <1>4, <1>5, Zenon

(***************************************************************************)
(* What steps leave alone.                                                 *)
(***************************************************************************)
LEMMA TypedKept ==
    ASSUME Typed, hooks' = hooks, startupHooks' \in Seq(Program) PROVE Typed'
BY Zenon DEF Typed

\* Steps that leave the hooks and the bundle alone keep them typed.
LEMMA StagedKept ==
    ASSUME StagedTyped, hooks' = hooks, bundle' = bundle PROVE StagedTyped'
BY Zenon DEF StagedTyped

\* The tables of the plugins unchanged, each phase depends on what is left to do.
LEMMA AwaitingTo ==
    ASSUME UNCHANGED <<user, records, slots, hooks, bundle>>, NEW q, Awaiting(q),
           NEW r, List(r, EarlyWork(Ours)), work' = r \o Discovery
    PROVE  Awaiting(r)'
<1>1. /\ user' = user /\ records' = records /\ slots' = slots /\ hooks' = hooks
      /\ bundle' = bundle
      OBVIOUS
<1>2. Ours' = Ours
      BY <1>1, Zenon DEF Ours
<1> QED BY <1>1, <1>2, Zenon DEF Awaiting, Discovery, After

\* Late work leads to late work.
LEMMA FinishedTo ==
    ASSUME UNCHANGED <<user, plugins>>, bundle = <<>>,
           \/ records = <<>> /\ slots = {} /\ hooks = NoHooks
           \/ Whole(Len(user.files)),
           List(work', LateWork)
    PROVE  Finished'
<1>1. /\ user' = user /\ records' = records /\ slots' = slots /\ hooks' = hooks /\ bundle' = bundle
      /\ enabled' = enabled /\ allowed' = allowed
      BY DEF plugins
<1>2. \A m : Whole(m)' <=> Whole(m)
      BY <1>1, FrozenTables, Zenon
<1>3. Whole(Len(user.files)) => Whole(Len(user.files))'
      BY <1>1, <1>2
<1>4. List(work, LateWork)'
      OBVIOUS
<1> QED BY <1>1, <1>3, <1>4, Zenon DEF Finished

\* A quiet call inside a register leads to other quiet calls inside it.
LEMMA RegisteringTo ==
    ASSUME UNCHANGED <<user, plugins>>, NEW m, NEW k, NEW q, Registering(m, k, q), NEW r, List(r, QuietWork),
           work' = r \o (Rest(Register(m), k) \o Committal(m))
    PROVE  Registering(m, k, r)'
<1>1. /\ user' = user /\ records' = records /\ slots' = slots /\ hooks' = hooks /\ bundle' = bundle
      /\ enabled' = enabled /\ allowed' = allowed
      BY DEF plugins
<1>2. \A n : Whole(n)' <=> Whole(n)
      BY <1>1, FrozenTables, Zenon
<1>3. /\ \A n : Committal(n)' = Committal(n)
      /\ \A n : Register(n)' = Register(n)
      /\ \A n : IsNext(n)' <=> IsNext(n)
      /\ \A n, j : Offered(n, j)' = Offered(n, j)
      /\ \A n, j, kind : HooksUpTo(n, j, kind)' = HooksUpTo(n, j, kind)
      BY <1>1, Frozen, Zenon
<1>4. Staged(m, k)'
      BY <1>1, <1>3, Zenon DEF Registering, Staged
<1>5. Whole(m - 1)'
      BY <1>2, Zenon DEF Registering
<1>6. work' = (r \o (Rest(Register(m), k) \o Committal(m)))'
      BY <1>3, Zenon
<1>7. IsNext(m)' /\ (k \in 0..Len(Register(m)))'
      BY <1>3, Zenon DEF Registering
<1> QED BY <1>4, <1>5, <1>6, <1>7, Zenon DEF Registering

\* A register that raised is abandoned, with nothing of it published.
LEMMA AbandonedTo ==
    ASSUME UNCHANGED <<user, enabled, allowed, records, slots, hooks>>, NEW m, IsNext(m), Whole(m - 1),
           work' = Ending(m, TRUE)
    PROVE  Abandoned(m)'
<1>1. \A n : Whole(n)' <=> Whole(n)
      BY FrozenTables, Zenon
<1>2. /\ \A n, raised : Ending(n, raised)' = Ending(n, raised)
      /\ \A n : IsNext(n)' <=> IsNext(n)
      BY Frozen, Zenon
<1> QED BY <1>1, <1>2, Zenon DEF Abandoned

(***************************************************************************)
(* The action that is for a call.                                          *)
(***************************************************************************)
LEMMA Does ==
    /\ BeginFile => This.do = "file"
    /\ RunIf => This.do = "if"
    /\ RunFor => This.do = "for"
    /\ SetLoopvar => This.do = "loopvar"
    /\ RunWhile => This.do = "while"
    /\ Configure => This.do \in {"option", "profile", "theme", "pack", "alias", "unalias", "reset",
                                 "restore"}
    /\ TellEngine => This.do = "tell"
    /\ RefuseSetting => This.do \in {"option", "profile", "theme", "pack"}
    /\ RegisterHook => This.do = "hook"
    /\ EnablePlugin => This.do \in {"enable", "disable", "allow"}
    /\ Throw => This.do = "raise"
    /\ PutVariable => This.do \in {"put", "prepend"}
    /\ Notice => This.do = "notice"
    /\ AssignVariable => This.do = "assign"
    /\ ExportVariable => This.do = "export"
    /\ SourceFile => This.do = "source"
    /\ Activate => This.do = "activate"
    /\ Deactivate => This.do = "deactivate"
    /\ PutLocalsBack => This.do = "locals"
    /\ ImportProfile => This.do = "import"
    /\ LoadPlugin => This.do = "load"
    /\ StageCall => This.do = "stage"
    /\ Validate => This.do = "validate"
    /\ PublishTable => This.do = "publish"
    /\ RunHook => This.do = "run"
    /\ InvokeCommand => This.do = "invoke"
    /\ LoadDeclarative => This.do = "declare"
    /\ LoadPython => This.do = "phase" /\ This.key = "configure"
    /\ DiscoverPlugins => This.do = "phase" /\ This.key = "discover"
    /\ RunStartupHooks => This.do = "phase" /\ This.key \in {"user hooks", "plugin hooks"}
    /\ StartPrompt => This.do = "phase" /\ This.key = "prompt"
    /\ EndFrame => This.do = "end"
    /\ Save => This.do = "save"
<1>1. /\ BeginFile => This.do = "file"
      /\ RunIf => This.do = "if"
      /\ RunFor => This.do = "for"
      /\ SetLoopvar => This.do = "loopvar"
      /\ RunWhile => This.do = "while"
      BY DEF BeginFile, RunIf, RunFor, SetLoopvar, RunWhile, Doing, This
<1>2. /\ Configure => This.do \in {"option", "profile", "theme", "pack", "alias", "unalias", "reset",
                                   "restore"}
      /\ TellEngine => This.do = "tell"
      BY DEF Configure, Calls, TellEngine, Doing, This
<1>3. /\ RefuseSetting => This.do \in {"option", "profile", "theme", "pack"}
      /\ RegisterHook => This.do = "hook"
      /\ EnablePlugin => This.do \in {"enable", "disable", "allow"}
      /\ Throw => This.do = "raise"
      /\ PutVariable => This.do \in {"put", "prepend"}
      /\ Notice => This.do = "notice"
      BY DEF RefuseSetting, RegisterHook, EnablePlugin, Throw, PutVariable, Notice, Doing, This
<1>4. /\ AssignVariable => This.do = "assign"
      /\ ExportVariable => This.do = "export"
      /\ SourceFile => This.do = "source"
      /\ Activate => This.do = "activate"
      /\ Deactivate => This.do = "deactivate"
      /\ PutLocalsBack => This.do = "locals"
      /\ ImportProfile => This.do = "import"
      BY DEF AssignVariable, ExportVariable, SourceFile, Activate, Deactivate, PutLocalsBack,
         ImportProfile, Doing, This
<1>5. /\ LoadPlugin => This.do = "load"
      /\ StageCall => This.do = "stage"
      /\ Validate => This.do = "validate"
      /\ PublishTable => This.do = "publish"
      /\ RunHook => This.do = "run"
      /\ InvokeCommand => This.do = "invoke"
      /\ LoadDeclarative => This.do = "declare"
      BY DEF LoadPlugin, StageCall, Validate, PublishTable, RunHook, InvokeCommand, LoadDeclarative,
         Doing, This
<1>6. /\ LoadPython => This.do = "phase" /\ This.key = "configure"
      /\ DiscoverPlugins => This.do = "phase" /\ This.key = "discover"
      /\ RunStartupHooks => This.do = "phase" /\ This.key \in {"user hooks", "plugin hooks"}
      /\ StartPrompt => This.do = "phase" /\ This.key = "prompt"
      /\ EndFrame => This.do = "end"
      /\ Save => This.do = "save"
      BY DEF LoadPython, DiscoverPlugins, RunStartupHooks, StartPrompt, EndFrame, Save, InPhase,
         Doing, This
<1> QED BY <1>1, <1>2, <1>3, <1>4, <1>5, <1>6

\* Which handler a step is.
LEMMA StepOf ==
    ASSUME Step
    PROVE  /\ This.do \in {"enable", "disable", "allow"} => EnablePlugin
           /\ This.do = "load" => LoadPlugin
           /\ This.do = "stage" => StageCall
           /\ This.do = "validate" => Validate
           /\ This.do = "publish" => PublishTable
           /\ This.do = "run" => RunHook
           /\ This.do = "declare" => LoadDeclarative
           /\ This.do = "end" => EndFrame
           /\ This.do = "save" => Save
           /\ This.do = "phase" =>
                /\ This.key = "configure" => LoadPython
                /\ This.key = "discover" => DiscoverPlugins
                /\ This.key \in {"user hooks", "plugin hooks"} => RunStartupHooks
                /\ This.key = "prompt" => StartPrompt
BY Does DEF Step

(***************************************************************************)
(* Before the plugins are looked for.                                      *)
(***************************************************************************)
\* A call of ~/.pyshrc.py that is for the plugin manager, a declaration, or the file itself.
LEMMA EarlyMoves ==
    ASSUME user \in Users, IsList(work), work # <<>>, Early(This, Ours), Step
    PROVE  /\ UNCHANGED <<user, records, slots, hooks, bundle, startupHooks>>
           /\ Adds(EarlyWork(Ours)) \/ Throws
<1> DEFINE Kept == UNCHANGED <<user, records, slots, hooks, bundle, startupHooks>>
           Goes == Adds(EarlyWork(Ours)) \/ Throws
<1>1. CASE This.do \in {"enable", "disable", "allow"}
  <2>1. EnablePlugin
        BY <1>1, StepOf, Zenon
  <2>2. Kept
        BY <2>1, Zenon DEF EnablePlugin, Enable, Disable, Allow, ByUser, plugins
  <2>3. Then(<<>>) \/ Raise("error")
        BY <2>1, Zenon DEF EnablePlugin
  <2>4. "error" \in {"error", "quit"}
        OBVIOUS
  <2> QED BY <2>2, <2>3, <2>4, ListEmpty, ThenAdds, RaiseThrows, Zenon
<1>2. CASE This.do = "declare" /\ This.config = Ours
  <2>1. LoadDeclarative
        BY <1>2, StepOf, Zenon
  <2>2. Kept
        BY <2>1, Zenon DEF LoadDeclarative, ByUser, plugins
  <2> DEFINE c == This.config
             names == SetToSeq(Name \cap DOMAIN c.env)
             calls == Safely(Applying(c) \o [i \in DOMAIN names |-> put(names[i], c.env[names[i]])])
  <2>3. Then(calls)
        BY <2>1, Zenon DEF LoadDeclarative
  <2>p. c.packs \in Seq(STRING)
        BY <1>2, PacksAreList DEF Ours
  <2>4. List(calls, QuietWork)
        BY <2>p, DeclaredQuiet, Zenon
  <2> HIDE DEF calls
  <2> QED BY <2>2, <2>3, <2>4, ListWeaker, ThenAdds, Zenon
<1>3. CASE This = Phase("configure")
  <2>1. This.do = "phase" /\ This.key = "configure"
        BY <1>3 DEF Phase
  <2>2. LoadPython
        BY <2>1, StepOf, Zenon
  <2>3. Kept
        BY <2>2, Zenon DEF LoadPython, ByUser, plugins
  <2> DEFINE r == user.configure
             e == EndOf("configure")
  <2>4. Then(r \o <<e>>)
        BY <2>2, Zenon DEF LoadPython
  <2>5. Fits(e, QuietWork)
        BY EndQuiet DEF QuietFrames
  <2>6. r \in Seq(Code \cup Enabling)
        BY UsersAssumption DEF Request
  <2>7. \A d \in Code \cup Enabling : Fits(d, EarlyWork(Ours))
        BY CodeAssumption DEF Fits, Quiet, Early
  <2> HIDE DEF r, e
  <2>8. List(r, EarlyWork(Ours))
    <3>1. IsList(r)
          BY <2>6, Zenon DEF IsList
    <3>2. \A i \in DOMAIN r : r[i] \in Code \cup Enabling
          BY <2>6
    <3> QED BY <2>7, <3>1, <3>2, Zenon DEF List
  <2>9. List(<<e>>, EarlyWork(Ours))
        BY <2>5, ListOne, ListWeaker, Zenon
  <2>10. List(r \o <<e>>, EarlyWork(Ours))
         BY <2>8, <2>9, ListJoin, Zenon
  <2> QED BY <2>3, <2>4, <2>10, ThenAdds, Zenon
<1>4. \/ This.do \in {"enable", "disable", "allow"}
      \/ This.do = "declare" /\ This.config = Ours
      \/ This = Phase("configure")
      BY Zenon DEF Early
<1> QED BY <1>1, <1>2, <1>3, <1>4, Zenon

\* Before the discovery: what is left of the work before it, or the end of the start.
LEMMA AwaitingOnward ==
    ASSUME user \in Users, Typed, StagedTyped, NEW q, Awaiting(q),
           UNCHANGED <<user, records, slots, hooks, bundle>>, startupHooks' \in Seq(Program),
           Onward(Discovery, EarlyWork(Ours))
    PROVE  IInv'
<1>1. user' = user /\ records' = records /\ slots' = slots /\ hooks' = hooks /\ bundle' = bundle
      OBVIOUS
<1>2. Typed' /\ StagedTyped'
      BY <1>1, TypedKept, StagedKept, Zenon
<1>3. CASE \E new : List(new, EarlyWork(Ours)) /\ work' = new \o Discovery
  <2>1. PICK new : List(new, EarlyWork(Ours)) /\ work' = new \o Discovery
        BY <1>3
  <2>2. Awaiting(new)'
        BY <1>1, <2>1, AwaitingTo, Zenon
  <2> QED BY <1>1, <1>2, <2>2, Zenon DEF IInv, Phases
<1>4. CASE \E kind \in {"error", "quit"} : work' = UnwoundIn(Discovery, kind)
  <2>1. work' = <<>>
        BY <1>4, DiscoveryUnwinds, Zenon
  <2>2. List(work, LateWork)'
        BY <2>1, ListEmpty, Zenon
  <2>3. Finished'
        BY <1>1, <2>2, Zenon DEF Awaiting, Finished
  <2> QED BY <1>1, <1>2, <2>3, Zenon DEF IInv, Phases
<1> QED BY <1>3, <1>4, Zenon DEF Onward

\* Discovery starts with the first file.
LEMMA Started ==
    ASSUME user \in Users, Discover(user.files), UNCHANGED user,
           slots = {}, hooks = NoHooks, bundle = <<>>, work' = Loading(user.files) \o After
    PROVE  Between(0)'
<1> DEFINE n == Len(user.files)
<1>1. /\ records' = [i \in DOMAIN user.files |-> Verdict(user.files, i)]
      /\ user' = user /\ enabled' = enabled /\ allowed' = allowed
      /\ slots' = {} /\ hooks' = NoHooks /\ bundle' = <<>>
      BY Zenon DEF Discover
<1>2. n \in Nat /\ DOMAIN user.files = 1..n
      BY FilesOf, Zenon
<1>3. \A i : Verdict(user.files, i) \in {"failed", "disabled", "discovered"}
  <2>1. ASSUME NEW i PROVE Verdict(user.files, i) \in {"failed", "disabled", "discovered"}
        BY DEF Verdict
  <2> QED BY <2>1
<1>4. \A i \in DOMAIN user.files : records'[i] # "loaded"
      BY <1>1, <1>3
<1>5. DOMAIN records' = DOMAIN user.files
      BY <1>1, Zenon
<1>6. LoadedFiles' = {}
      BY <1>4, <1>5, Zenon DEF LoadedFiles
<1>7. LoadedSlots' = {}
      BY <1>6, Zenon DEF LoadedSlots
<1>8. ASSUME NEW kind PROVE LoadedHooks(kind)' = <<>>
  <2> DEFINE s == [i \in DOMAIN records' |->
                      IF records'[i] = "loaded" THEN HooksOffered(user.files[i], kind)' ELSE <<>>]
  <2>1. s = [i \in 1..n |-> s[i]] /\ \A i \in 1..n : s[i] = <<>>
        BY <1>2, <1>4, <1>5, Zenon
  <2>2. LoadedHooks(kind)' = FlattenSeq(s)
        BY <1>1, Zenon DEF LoadedHooks
  <2> HIDE DEF s, n
  <2>0. <<>> \in Seq({})
        OBVIOUS
  <2>3. \A i \in 1..n : s[i] \in Seq({})
        BY <2>0, <2>1, Zenon
  <2>4. s \in [1..n -> Seq({})]
        BY <2>1, <2>3, Zenon
  <2> DEFINE S == Seq({})
  <2>5. s \in [1..n -> S]
        BY <2>4
  <2> HIDE DEF S
  <2>6. s \in Seq(S) /\ Len(s) = n
        BY <1>2, <2>5
  <2>7. \A k \in 1..Len(s) : s[k] = <<>>
        BY <2>1, <2>6
  <2>8. FlattenSeq(s) = <<>>
        BY <2>6, <2>7, FlatEmpty, Zenon DEF S
  <2> QED BY <2>2, <2>8, Zenon
<1>9. Whole(0)'
  <2>1. Loaded(0)'
        BY <1>1, <1>5, <1>6, Zenon DEF Loaded
  <2>2. \A kind \in Range(HookKinds) : hooks'[kind] = <<>>
        BY <1>1, Zenon DEF NoHooks
  <2>3. Owned(slots)'
        BY <1>1, Zenon DEF Owned
  <2> QED BY <1>1, <1>7, <1>8, <2>1, <2>2, <2>3, Zenon DEF Whole
<1>10. Loading(user.files) = Remaining(0)
  <2>1. \A i \in 1..n : i > 0
        BY <1>2
  <2>2. \A i \in DOMAIN user.files :
           Turn(0, i) = IF Verdict(user.files, i) = "discovered" THEN Load(i) ELSE <<>>
        BY <1>2, <2>1, Zenon DEF Turn
  <2>3. [i \in DOMAIN user.files |-> IF Verdict(user.files, i) = "discovered" THEN Load(i) ELSE <<>>]
            = LoadsBehind(0)
        BY <2>2, Zenon DEF LoadsBehind
  <2> QED BY <2>3, Zenon DEF Loading, Remaining
<1>11. work' = (Remaining(0) \o After)'
  <2>1. (Remaining(0) \o After)' = Remaining(0) \o After
        BY <1>1, Frozen, Zenon
  <2> QED BY <1>10, <2>1, Zenon
<1>12. 0 \in 0..n /\ n' = n
       BY <1>1, <1>2
<1> QED BY <1>1, <1>9, <1>11, <1>12, Zenon DEF Between

\* Before the discovery, one step of the work.
LEMMA AwaitingStep ==
    ASSUME user \in Users, Typed, StagedTyped, NEW q, Awaiting(q), Step
    PROVE  IInv'
<1>0. List(q, EarlyWork(Ours)) /\ work = q \o Discovery /\ IsList(q)
      BY Zenon DEF Awaiting, List
<1>d. IsList(Discovery)
      BY DiscoveryUnwinds
<1>1. CASE q = <<>>
  <2> DEFINE d == Phase("discover")
  <2>1. work = Discovery
        BY <1>0, <1>1, <1>d, Joins, Zenon
  <2>2. IsList(<<d>>) /\ IsList(After) /\ <<d>> # <<>> /\ Head(<<d>>) = d /\ Tail(<<d>>) = <<>>
    <3>1. IsList(<<d>>)
          BY Joins, Zenon
    <3>2. <<d>> # <<>> /\ Head(<<d>>) = d /\ Tail(<<d>>) = <<>>
      <4> HIDE DEF d
      <4> QED OBVIOUS
    <3> QED BY <3>1, <3>2, AfterIs, Zenon DEF List
  <2>3. This = d /\ Tail(work) = After
    <3> DEFINE x == <<d>>
    <3>1. work = x \o After
          BY <2>1, Zenon DEF Discovery
    <3>2. Head(x) = d /\ Tail(x) = <<>> /\ x # <<>> /\ IsList(x)
          BY <2>2, Zenon
    <3> HIDE DEF x, d
    <3>3. Head(x \o After) = Head(x)
          BY <2>2, <3>2, Ends, Zenon
    <3>4. Tail(x \o After) = Tail(x) \o After
          BY <2>2, <3>2, Ends, Zenon
    <3>5. <<>> \o After = After
          BY <2>2, Joins, Zenon
    <3> QED BY <3>1, <3>2, <3>3, <3>4, <3>5, Zenon DEF This
  <2>4. This.do = "phase" /\ This.key = "discover"
        BY <2>3 DEF Phase
  <2>5. DiscoverPlugins
        BY <2>4, StepOf, Zenon
  <2>6. Discover(user.files) /\ work' = Loading(user.files) \o After /\ UNCHANGED <<user, startupHooks>>
        BY <2>3, <2>5, Zenon DEF DiscoverPlugins, Then, ByUser
  <2>7. Between(0)'
        BY <2>6, Started, Zenon DEF Awaiting
  <2>8. hooks' = hooks /\ bundle' = bundle /\ startupHooks' = startupHooks /\ user' = user
        BY <2>6, Zenon DEF Discover
  <2>9. Typed' /\ StagedTyped'
    <3>1. startupHooks' \in Seq(Program)
          BY <2>8 DEF Typed
    <3> QED BY <2>8, <3>1, TypedKept, StagedKept, Zenon
  <2> QED BY <2>7, <2>8, <2>9, Zenon DEF IInv, Phases
<1>2. CASE q # <<>>
  <2>1. Served
        BY NoSlotsServed, Zenon DEF Awaiting
  <2>2. IsList(work) /\ work # <<>> /\ This = Head(q)
    <3>1. IsList(q \o Discovery)
          BY <1>0, <1>d, JoinIsList, Zenon
    <3>2. q \o Discovery # <<>>
          BY <1>0, <1>d, <1>2, Ends
    <3>3. Head(q \o Discovery) = Head(q)
          BY <1>0, <1>d, <1>2, HeadJoined, Zenon
    <3> QED BY <1>0, <3>1, <3>2, <3>3, Zenon DEF This
  <2>3. Fits(Head(q), EarlyWork(Ours))
        BY <1>0, <1>2, ListHead, Zenon
  <2>4. Quiet(Head(q)) \/ Early(Head(q), Ours)
        BY <2>3, Levels, Zenon DEF Fits
  <2>5. startupHooks \in Seq(Program)
        BY Zenon DEF Typed
  <2>6. /\ UNCHANGED <<user, records, slots, hooks, bundle>> /\ startupHooks' \in Seq(Program)
        /\ Onward(Discovery, EarlyWork(Ours))
    <3>1. CASE Quiet(Head(q))
          BY <1>0, <1>d, <1>2, <2>1, <3>1, QuietOnward, Zenon DEF plugins
    <3>2. CASE Early(Head(q), Ours)
      <4>1. Early(This, Ours)
            BY <2>2, <3>2, Zenon
      <4>2. /\ UNCHANGED <<user, records, slots, hooks, bundle, startupHooks>>
            /\ Adds(EarlyWork(Ours)) \/ Throws
            BY <2>2, <4>1, EarlyMoves, Zenon
      <4>3. Onward(Discovery, EarlyWork(Ours))
            BY <1>0, <1>d, <1>2, <4>2, ThrowsOnward, AddsOnward, Zenon
      <4> QED BY <2>5, <4>2, <4>3, Zenon
    <3> QED BY <2>4, <3>1, <3>2, Zenon
  <2> QED BY <2>6, AwaitingOnward, Zenon
<1> QED BY <1>1, <1>2

\* Ctrl+C is an exception in the middle of the work.
LEMMA CtrlCThrows ==
    ASSUME CtrlC
    PROVE  /\ Throws /\ work' = Unwound("quit")
           /\ UNCHANGED <<user, plugins, startupHooks>>
<1>1. "quit" \in {"error", "quit"}
      OBVIOUS
<1>2. Raise("quit") /\ work' = Unwound("quit") /\ UNCHANGED <<user, plugins, startupHooks>>
      BY Zenon DEF CtrlC, Raise
<1> QED BY <1>1, <1>2, RaiseThrows, Zenon

\* Before the discovery, Ctrl+C.
LEMMA AwaitingCtrlC ==
    ASSUME user \in Users, Typed, StagedTyped, NEW q, Awaiting(q), CtrlC
    PROVE  IInv'
<1>1. List(q, EarlyWork(Ours)) /\ work = q \o Discovery
      BY Zenon DEF Awaiting
<1>2. IsList(Discovery)
      BY DiscoveryUnwinds
<1>3. Throws /\ UNCHANGED <<user, plugins, startupHooks>>
      BY CtrlCThrows
<1>4. Onward(Discovery, EarlyWork(Ours))
      BY <1>1, <1>2, <1>3, ThrowsOnward, Zenon
<1>5. UNCHANGED <<user, records, slots, hooks, bundle>> /\ startupHooks' \in Seq(Program)
  <2>1. startupHooks \in Seq(Program) /\ startupHooks' = startupHooks
        BY <1>3, Zenon DEF Typed
  <2>2. UNCHANGED <<user, records, slots, hooks, bundle>>
        BY <1>3, Zenon DEF plugins
  <2> QED BY <2>1, <2>2, Zenon
<1> QED BY <1>4, <1>5, AwaitingOnward, Zenon

\* Before the discovery there is work.
LEMMA AwaitingWorks == ASSUME NEW q, Awaiting(q) PROVE work # <<>>
<1>1. IsList(q) /\ work = q \o Discovery
      BY Zenon DEF Awaiting, List
<1>2. IsList(Discovery)
      BY DiscoveryUnwinds
<1>3. Discovery # <<>>
  <2> DEFINE d == <<Phase("discover")>>
  <2>1. d # <<>>
        OBVIOUS
  <2>2. IsList(d) /\ IsList(After) /\ Discovery = d \o After
        BY AfterIs, Joins, Zenon DEF Discovery, List
  <2> HIDE DEF d
  <2>3. d \o After # <<>>
        BY <2>1, <2>2, Ends
  <2> QED BY <2>2, <2>3, Zenon
<1>4. q \o Discovery # <<>>
      BY <1>1, <1>2, <1>3, Ends
<1> QED BY <1>1, <1>4, Zenon

(***************************************************************************)
(* Between two plugins.                                                    *)
(***************************************************************************)
Due(i) ==
    /\ IsNext(i) /\ Whole(i - 1) /\ bundle = <<>>
    /\ work = <<LoadCall(i)>> \o Ending(i, FALSE)

\* Between two plugins: another one is due, or none is left.
LEMMA BetweenIs ==
    ASSUME user \in Users, NEW m, Between(m)
    PROVE  Finished \/ \E i : Due(i)
<1> DEFINE n == Len(user.files)
<1>0. m \in 0..n /\ Whole(m) /\ bundle = <<>> /\ work = Remaining(m) \o After
      BY Zenon DEF Between
<1>n. n \in Nat /\ DOMAIN user.files = 1..n
      BY FilesOf, Zenon
<1>l. LoadedFiles \subseteq 1..n
  <2>1. DOMAIN records = DOMAIN user.files
        BY <1>0, Zenon DEF Whole, Loaded
  <2> QED BY <1>n, <2>1, Zenon DEF LoadedFiles
<1>a. IsList(After)
      BY AfterIs, Zenon DEF List
<1>1. CASE Remaining(m) = <<>>
  <2>1. work = After
        BY <1>0, <1>1, <1>a, Joins, Zenon
  <2>2. List(work, LateWork)
        BY <2>1, AfterIs, Zenon
  <2>3. \A f \in LoadedFiles : f <= m => f <= n
        BY <1>l, <1>n
  <2>4. Whole(n)
    <3> HIDE DEF n
    <3> QED BY <1>0, <2>3, WholeLater, Zenon
  <2> QED BY <1>0, <2>2, <2>4, Zenon DEF Finished
<1>2. ASSUME NEW i \in DOMAIN user.files, m < i, Verdict(user.files, i) = "discovered",
             Remaining(m) = Load(i) \o Remaining(i)
      PROVE  Due(i)
  <2> DEFINE l == Load(i)
             r == Remaining(i)
             c == LoadCall(i)
             e == RegisterEnd(i, FALSE)
  <2>1. IsNext(i)
        BY <1>2, Zenon DEF IsNext
  <2>2. \A f \in LoadedFiles : f <= m => f <= i - 1
    <3>1. i \in 1..n /\ m \in 0..n
          BY <1>0, <1>2, <1>n
    <3> HIDE DEF n
    <3> QED BY <1>2, <1>l, <1>n, <3>1
  <2>3. Whole(i - 1)
        BY <1>0, <2>2, WholeLater, Zenon
  <2>4. IsList(r) /\ IsList(r \o After)
        BY RemainingIsList, PartsAreLists, Zenon
  <2>5. IsList(l)
    <3>1. l = <<c, e>>
          BY LoadPair, Zenon
    <3>2. l = <<c>> \o <<e>>
          BY <3>1, PairJoins, Zenon
    <3> QED BY <3>2, Joins, JoinIsList, Zenon
  <2>6. (l \o r) \o After = l \o (r \o After)
    <3> HIDE DEF l, r
    <3>1. JoinsEitherWay(l, r, After)
          BY <1>a, <2>4, <2>5, ThreeJoined, Zenon
    <3> QED BY <3>1, Zenon DEF JoinsEitherWay
  <2>7. l \o (r \o After) = <<c>> \o (<<e>> \o (r \o After))
    <3> DEFINE x == r \o After
    <3>1. IsList(x)
          BY <2>4
    <3> HIDE DEF x
    <3>2. Load(i) \o x = <<LoadCall(i)>> \o (<<RegisterEnd(i, FALSE)>> \o x)
          BY <3>1, LoadIs
    <3> QED BY <3>2 DEF x
  <2>8. work = <<LoadCall(i)>> \o Ending(i, FALSE)
        BY <1>0, <1>2, <2>6, <2>7, Zenon DEF Ending
  <2> QED BY <1>0, <2>1, <2>3, <2>8, Zenon DEF Due
<1>3. \/ Remaining(m) = <<>>
      \/ \E i \in DOMAIN user.files :
            m < i /\ Verdict(user.files, i) = "discovered" /\ Remaining(m) = Load(i) \o Remaining(i)
      BY <1>0, RemainingNext, Zenon
<1> QED BY <1>1, <1>2, <1>3, Zenon

\* A plugin that is due is at the head of the work.
LEMMA DueHead ==
    ASSUME user \in Users, NEW i, Due(i)
    PROVE  This = LoadCall(i) /\ Tail(work) = Ending(i, FALSE) /\ work # <<>> /\ IsList(work)
<1> DEFINE c == LoadCall(i)
           e == Ending(i, FALSE)
           x == <<c>>
<1>1. IsList(e)
      BY PartsAreLists, Zenon
<1>2. work = x \o e
      BY Zenon DEF Due
<1> HIDE DEF c, e
<1>3. IsList(x)
      BY Joins, Zenon
<1>4. x # <<>> /\ Head(x) = c /\ Tail(x) = <<>>
      OBVIOUS
<1> HIDE DEF x
<1>5. Head(x \o e) = Head(x)
      BY <1>1, <1>3, <1>4, HeadJoined, Zenon
<1>6. Tail(x \o e) = Tail(x) \o e
      BY <1>1, <1>3, <1>4, Ends, Zenon
<1>7. <<>> \o e = e
      BY <1>1, Joins, Zenon
<1>8. x \o e # <<>>
      BY <1>1, <1>3, <1>4, Ends
<1>9. IsList(x \o e)
      BY <1>1, <1>3, JoinIsList, Zenon
<1> QED BY <1>2, <1>4, <1>5, <1>6, <1>7, <1>8, <1>9, Zenon DEF This, c, e

\* A register that raised keeps the invariant.
LEMMA AbandonedInv ==
    ASSUME user \in Users, Typed, StagedTyped, UNCHANGED <<user, plugins>>, startupHooks' \in Seq(Program),
           NEW m, IsNext(m), Whole(m - 1), work' = Ending(m, TRUE)
    PROVE  IInv'
<1>1. UNCHANGED <<user, enabled, allowed, records, slots, hooks>> /\ hooks' = hooks /\ bundle' = bundle
      /\ user' = user
      BY Zenon DEF plugins
<1>2. Typed' /\ StagedTyped'
      BY <1>1, TypedKept, StagedKept, Zenon
<1>3. Abandoned(m)'
      BY <1>1, AbandonedTo, Zenon
<1> QED BY <1>1, <1>2, <1>3, Zenon DEF IInv, Phases

\* A plugin that is not read.
LEMMA DueThrows ==
    ASSUME user \in Users, Typed, StagedTyped, UNCHANGED <<user, plugins, startupHooks>>, NEW i, Due(i), Throws
    PROVE  IInv'
<1>1. PICK kind \in {"error", "quit"} : work' = Unwound(kind)
      BY Zenon DEF Throws
<1>2. work' = UnwoundIn(work, kind)
      BY <1>1, UnwoundIs, Zenon
<1>3. work' = Ending(i, TRUE)
      BY <1>2, LoadUnwinds, Zenon DEF Due
<1>4. startupHooks' \in Seq(Program) /\ UNCHANGED <<user, plugins>>
  <2>1. startupHooks' = startupHooks
        OBVIOUS
  <2> QED BY <2>1, Zenon DEF Typed
<1> QED BY <1>3, <1>4, AbandonedInv, Zenon DEF Due

\* A register starts with an empty bundle.
LEMMA RegisteringStarts ==
    ASSUME user \in Users, NEW m, IsNext(m), Whole(m - 1), Begin(user.files[m].name), UNCHANGED user,
           work' = (Register(m) \o <<[do |-> "validate"]>> \o Publications) \o Ending(m, FALSE)
    PROVE  Registering(m, 0, <<>>)'
<1>0. m \in DOMAIN user.files
      BY Zenon DEF IsNext
<1>1. /\ user' = user /\ enabled' = enabled /\ allowed' = allowed /\ records' = records
      /\ slots' = slots /\ hooks' = hooks
      /\ bundle' = [plugin |-> user.files[m].name, slots |-> {}, hooks |-> NoHooks]
      BY Zenon DEF Begin
<1>2. Whole(m - 1)'
  <2>1. \A n : Whole(n)' <=> Whole(n)
        BY <1>1, FrozenTables, Zenon
  <2> QED BY <2>1
<1>3. /\ \A n : Committal(n)' = Committal(n)
      /\ \A n : Register(n)' = Register(n)
      /\ \A n : IsNext(n)' <=> IsNext(n)
      /\ \A n, j : Offered(n, j)' = Offered(n, j)
      /\ \A n, j, kind : HooksUpTo(n, j, kind)' = HooksUpTo(n, j, kind)
      BY <1>1, Frozen, Zenon
<1>4. Staged(m, 0)'
  <2>1. DOMAIN bundle' = {"plugin", "slots", "hooks"} /\ bundle'.plugin = user.files[m].name
        /\ bundle'.slots = {} /\ bundle'.hooks = NoHooks
        BY <1>1
  <2>2. /\ DOMAIN NoHooks = Range(HookKinds)
        /\ \A kind \in Range(HookKinds) : NoHooks[kind] = <<>>
        BY Zenon DEF NoHooks
  <2>3. Offered(m, 0) = {} /\ \A kind : HooksUpTo(m, 0, kind) = <<>>
        BY OfferedMore, HooksMore, Zenon
  <2> QED BY <1>1, <1>3, <2>1, <2>2, <2>3, Zenon DEF Staged
<1>5. Len(Register(m)) \in Nat /\ IsList(Register(m))
      BY <1>0, RegisterIs, Zenon
<1>6. 0 \in 0..Len(Register(m)) /\ (0 \in 0..Len(Register(m)))'
  <2>1. 0 \in 0..Len(Register(m))
        BY <1>5
  <2> QED BY <1>3, <2>1, Zenon
<1>7. work' = <<>> \o (Rest(Register(m), 0) \o Committal(m))
  <2> DEFINE r == Register(m)
             v == <<[do |-> "validate"]>>
             p == Publications
             e == Ending(m, FALSE)
  <2>1. Rest(r, 0) = r
        BY <1>5, <1>6, RestIs, Zenon
  <2>2. IsList(r) /\ IsList(v) /\ IsList(p) /\ IsList(e) /\ IsList(p \o e) /\ IsList(Committal(m))
        BY <1>5, PartsAreLists, Publishes, Joins, Zenon
  <2>3. Committal(m) = v \o (p \o e)
        BY Zenon DEF Committal
  <2> HIDE DEF r, v, p, e
  <2>4. IsList(r \o v) /\ IsList(r \o Committal(m))
        BY <2>2, JoinIsList, Zenon
  <2>5. ((r \o v) \o p) \o e = (r \o v) \o (p \o e)
    <3> DEFINE x == r \o v
    <3>1. IsList(x)
          BY <2>4
    <3>0. IsList(p) /\ IsList(e)
          BY <2>2
    <3> HIDE DEF x
    <3>2. (x \o p) \o e = x \o (p \o e)
          BY <3>0, <3>1, Joined
    <3> QED BY <3>2 DEF x
  <2>6. (r \o v) \o (p \o e) = r \o (v \o (p \o e))
    <3> DEFINE x == p \o e
    <3>1. IsList(x)
          BY <2>2
    <3> HIDE DEF x
    <3>2. JoinsEitherWay(r, v, x)
          BY <2>2, <3>1, ThreeJoined, Zenon
    <3> QED BY <3>2, Zenon DEF JoinsEitherWay, x
  <2>7. <<>> \o (r \o Committal(m)) = r \o Committal(m)
        BY <2>4, Joins, Zenon
  <2>8. work' = ((r \o v) \o p) \o e
        BY Zenon DEF r, v, p, e
  <2> QED BY <2>1, <2>3, <2>5, <2>6, <2>7, <2>8, Zenon DEF r
<1>8. work' = (<<>> \o (Rest(Register(m), 0) \o Committal(m)))'
      BY <1>3, <1>7, Zenon
<1>9. List(<<>>, QuietWork)
      BY ListEmpty
<1> QED BY <1>2, <1>3, <1>4, <1>6, <1>8, <1>9, Zenon DEF Registering

\* A plugin that is due: its file is refused, fails, or its register starts.
LEMMA DueStep ==
    ASSUME user \in Users, Typed, StagedTyped, NEW i, Due(i), Step
    PROVE  IInv'
<1>1. This = LoadCall(i) /\ Tail(work) = Ending(i, FALSE)
      BY DueHead, Zenon
<1>2. This.do = "load" /\ This.of = i
      BY <1>1 DEF LoadCall
<1>3. LoadPlugin
      BY <1>2, StepOf, Zenon
<1> DEFINE file == user.files[i]
<1>4. i \in DOMAIN user.files /\ file.fault \in {"none", "error", "quit"}
  <2>1. i \in DOMAIN user.files
        BY Zenon DEF Due, IsNext
  <2> QED BY <2>1, FilesOf, Zenon
<1>5. CASE file.fault # "none"
  <2>1. Raise(file.fault) /\ UNCHANGED <<user, plugins, startupHooks>>
        BY <1>2, <1>3, <1>5, Zenon DEF LoadPlugin, ByUser
  <2>2. file.fault \in {"error", "quit"}
        BY <1>4, <1>5
  <2>3. Throws
        BY <2>1, <2>2, RaiseThrows, Zenon
  <2> QED BY <2>1, <2>3, DueThrows, Zenon
<1>6. CASE file.fault = "none"
  <2>1. /\ Begin(file.name) /\ UNCHANGED <<user, startupHooks>>
        /\ Then(file.register \o <<[do |-> "validate"]>> \o Publications)
        BY <1>2, <1>3, <1>6, Zenon DEF LoadPlugin, ByUser
  <2>2. work' = (Register(i) \o <<[do |-> "validate"]>> \o Publications) \o Ending(i, FALSE)
        BY <1>1, <2>1, Zenon DEF Then, Register
  <2>3. IsNext(i) /\ Whole(i - 1)
        BY Zenon DEF Due
  <2>4. Registering(i, 0, <<>>)'
        BY <2>1, <2>2, <2>3, RegisteringStarts, Zenon
  <2>5. user' = user /\ startupHooks' = startupHooks /\ hooks' = hooks
        /\ bundle' = [plugin |-> file.name, slots |-> {}, hooks |-> NoHooks]
        BY <2>1, Zenon DEF Begin
  <2>6. Typed'
    <3>1. startupHooks' \in Seq(Program)
          BY <2>5, Zenon DEF Typed
    <3> QED BY <2>5, <3>1, TypedKept, Zenon
  <2>7. StagedTyped'
    <3>1. bundle'.hooks = NoHooks
          BY <2>5
    <3>2. \A kind \in Range(HookKinds) : NoHooks[kind] = <<>>
          BY Zenon DEF NoHooks
    <3>3. HookList(<<>>)
      <4>1. DOMAIN <<>> = {}
            OBVIOUS
      <4> QED BY <4>1, Joins, Zenon DEF HookList
    <3>4. DOMAIN hooks = Range(HookKinds)
          BY Zenon DEF StagedTyped
    <3> QED BY <2>5, <3>1, <3>2, <3>3, <3>4, Zenon DEF StagedTyped
  <2> QED BY <2>4, <2>5, <2>6, <2>7, Zenon DEF IInv, Phases
<1> QED BY <1>5, <1>6

(***************************************************************************)
(* While a plugin registers.                                               *)
(***************************************************************************)
LEMMA RegisteringIs ==
    ASSUME user \in Users, NEW m, NEW k, NEW q, Registering(m, k, q)
    PROVE  /\ IsNext(m) /\ Whole(m - 1) /\ m \in DOMAIN user.files /\ k \in 0..Len(Register(m)) /\ Served
           /\ List(q, QuietWork) /\ IsList(q) /\ IsList(Rest(Register(m), k) \o Committal(m))
           /\ work = q \o (Rest(Register(m), k) \o Committal(m))
<1>1. /\ IsNext(m) /\ Whole(m - 1) /\ m \in DOMAIN user.files /\ k \in 0..Len(Register(m))
      /\ List(q, QuietWork) /\ IsList(q)
      /\ work = q \o (Rest(Register(m), k) \o Committal(m))
      BY Zenon DEF Registering, IsNext, List
<1>2. Served
      BY <1>1, WholeServed, Zenon
<1>3. "quit" \in {"error", "quit"}
      OBVIOUS
<1>4. IsList(Rest(Register(m), k) \o Committal(m))
      BY <1>1, <1>3, RegisterUnwinds, Zenon
<1> QED BY <1>1, <1>2, <1>4

\* Inside a register: calls before the rest, or the exception at its end.
LEMMA RegisteringOnward ==
    ASSUME user \in Users, Typed, StagedTyped, NEW m, NEW k, NEW q, Registering(m, k, q),
           UNCHANGED <<user, plugins>>, startupHooks' \in Seq(Program),
           Onward(Rest(Register(m), k) \o Committal(m), QuietWork)
    PROVE  IInv'
<1> DEFINE rest == Rest(Register(m), k) \o Committal(m)
<1>1. /\ IsNext(m) /\ Whole(m - 1) /\ m \in DOMAIN user.files /\ k \in 0..Len(Register(m))
      BY RegisteringIs, Zenon
<1>2. CASE \E new : List(new, QuietWork) /\ work' = new \o rest
  <2>1. PICK new : List(new, QuietWork) /\ work' = new \o rest
        BY <1>2
  <2>2. Registering(m, k, new)'
        BY <2>1, RegisteringTo, Zenon
  <2>3. user' = user /\ hooks' = hooks /\ bundle' = bundle
        BY Zenon DEF plugins
  <2>4. Typed' /\ StagedTyped'
        BY <2>3, TypedKept, StagedKept, Zenon
  <2> QED BY <2>2, <2>3, <2>4, Zenon DEF IInv, Phases
<1>3. CASE \E kind \in {"error", "quit"} : work' = UnwoundIn(rest, kind)
  <2>1. PICK kind \in {"error", "quit"} : work' = UnwoundIn(rest, kind)
        BY <1>3
  <2>2. work' = Ending(m, TRUE)
        BY <1>1, <2>1, RegisterUnwinds, Zenon
  <2> QED BY <1>1, <2>2, AbandonedInv, Zenon
<1> QED BY <1>2, <1>3, Zenon DEF Onward

\* Inside a register, an exception.
LEMMA RegisteringThrows ==
    ASSUME user \in Users, Typed, StagedTyped, NEW m, NEW k, NEW q, Registering(m, k, q),
           UNCHANGED <<user, plugins, startupHooks>>, Throws
    PROVE  IInv'
<1>1. Onward(Rest(Register(m), k) \o Committal(m), QuietWork)
      BY RegisteringIs, ThrowsOnward, Zenon
<1>2. UNCHANGED <<user, plugins>> /\ startupHooks' \in Seq(Program)
      BY Zenon DEF Typed
<1> QED BY <1>1, <1>2, RegisteringOnward, Zenon

\* Quiet is a level.
LEMMA QuietFits == ASSUME NEW c PROVE Fits(c, QuietWork) <=> Quiet(c)
BY Levels, Zenon DEF Fits

\* Inside a register, a step of something that one of its calls began.
LEMMA RegisteringQuiet ==
    ASSUME user \in Users, Typed, StagedTyped, NEW m, NEW k, NEW q, Registering(m, k, q), q # <<>>, Step
    PROVE  IInv'
<1>1. Quiet(Head(q))
  <2>1. Fits(Head(q), QuietWork)
        BY RegisteringIs, ListHead, Zenon
  <2> QED BY <2>1, QuietFits, Zenon
<1>2. /\ UNCHANGED <<user, plugins>> /\ startupHooks' \in Seq(Program)
      /\ Onward(Rest(Register(m), k) \o Committal(m), QuietWork)
      BY <1>1, RegisteringIs, QuietOnward, Zenon
<1> QED BY <1>2, RegisteringOnward, Zenon

\* The head of the work.
LEMMA HeadOf ==
    ASSUME NEW c, NEW rest, IsList(rest), work = <<c>> \o rest
    PROVE  This = c /\ Tail(work) = rest /\ work # <<>> /\ IsList(work)
<1> DEFINE x == <<c>>
<1>2. work = x \o rest
      OBVIOUS
<1>3. IsList(x)
      BY Joins, Zenon
<1>4. x # <<>> /\ Head(x) = c /\ Tail(x) = <<>>
      OBVIOUS
<1> HIDE DEF x
<1>5. Head(x \o rest) = Head(x)
      BY <1>3, <1>4, HeadJoined, Zenon
<1>6. Tail(x \o rest) = Tail(x) \o rest
      BY <1>3, <1>4, Ends, Zenon
<1>7. <<>> \o rest = rest
      BY Joins, Zenon
<1>8. x \o rest # <<>>
      BY <1>3, <1>4, Ends
<1>9. IsList(x \o rest)
      BY <1>3, JoinIsList, Zenon
<1> QED BY <1>2, <1>4, <1>5, <1>6, <1>7, <1>8, <1>9, Zenon DEF This

\* What one more call offers.
LEMMA OfferedNext ==
    ASSUME NEW m, NEW k \in Nat
    PROVE  LET c == Register(m)[k + 1]
           IN /\ ~Names(c) => Offered(m, k + 1) = Offered(m, k)
              /\ Names(c) => Offered(m, k + 1) = Offered(m, k) \cup {<<c.key, c.value>>}
<1> DEFINE c == Register(m)[k + 1]
           new == {<<Register(m)[i].key, Register(m)[i].value>> : i \in {j \in {k + 1} : Names(Register(m)[j])}}
<1>1. Offered(m, k + 1) = Offered(m, k) \cup new
      BY OfferedMore, Zenon
<1>2. ~Names(c) => new = {}
      BY Zenon
<1>3. Names(c) => new = {<<c.key, c.value>>}
      BY Zenon
<1> HIDE DEF new
<1>4. ~Names(c) => Offered(m, k + 1) = Offered(m, k)
      BY <1>1, <1>2
<1>5. Names(c) => Offered(m, k + 1) = Offered(m, k) \cup {<<c.key, c.value>>}
      BY <1>1, <1>3, Zenon
<1> QED BY <1>4, <1>5, Zenon

\* Appending is joining a list of one.
LEMMA Appended ==
    ASSUME NEW x, NEW e, IsList(x) PROVE x \o <<e>> = Append(x, e) /\ IsList(Append(x, e))
<1>1. PICK D : x \in Seq(D)
      BY DEF IsList
<1> DEFINE B == D \cup {e}
<1>2. x \in Seq(B) /\ e \in B
      BY <1>1
<1> HIDE DEF B
<1>3. Append(x, e) \in Seq(B) /\ x \o <<e>> = Append(x, e)
      BY <1>2
<1> QED BY <1>3, Zenon DEF IsList

\* The hooks with one more call.
LEMMA HooksNext ==
    ASSUME NEW m, NEW k \in Nat, NEW kind
    PROVE  LET c == Register(m)[k + 1]
           IN /\ ~(c.do = "stage" /\ c.key = kind) => HooksUpTo(m, k + 1, kind) = HooksUpTo(m, k, kind)
              /\ c.do = "stage" /\ c.key = kind =>
                    HooksUpTo(m, k + 1, kind) =
                       Append(HooksUpTo(m, k, kind), [plugin |-> user.files[m].name, body |-> c.body])
<1> DEFINE c == Register(m)[k + 1]
           h == HooksUpTo(m, k, kind)
           e == [plugin |-> user.files[m].name, body |-> c.body]
<1>1. HooksUpTo(m, k + 1, kind) = h \o HookAt(m, k + 1, kind) /\ IsList(h)
      BY HooksMore, Zenon
<1>2. HookAt(m, k + 1, kind) = IF c.do = "stage" /\ c.key = kind THEN <<e>> ELSE <<>>
      BY Zenon DEF HookAt
<1> HIDE DEF h, e
<1>3. h \o <<>> = h /\ h \o <<e>> = Append(h, e)
      BY <1>1, Joins, Appended, Zenon
<1>4. ~(c.do = "stage" /\ c.key = kind) => HooksUpTo(m, k + 1, kind) = h
      BY <1>1, <1>2, <1>3, Zenon
<1>5. c.do = "stage" /\ c.key = kind => HooksUpTo(m, k + 1, kind) = Append(h, e)
      BY <1>1, <1>2, <1>3, Zenon
<1> QED BY <1>4, <1>5, Zenon DEF h, e

\* A call that stages nothing leaves the bundle right for one more call.
LEMMA StagedOn ==
    ASSUME NEW m, NEW k \in Nat, Staged(m, k), Register(m)[k + 1].do # "stage"
    PROVE  Staged(m, k + 1)
<1>1. ~Names(Register(m)[k + 1])
      BY Zenon DEF Names
<1>2. Offered(m, k + 1) = Offered(m, k)
      BY <1>1, OfferedNext, Zenon
<1>3. \A kind : HooksUpTo(m, k + 1, kind) = HooksUpTo(m, k, kind)
      BY HooksNext, Zenon
<1> QED BY <1>2, <1>3, Zenon DEF Staged

\* The next call of the register is at the head of the work.
LEMMA RegisteringNext ==
    ASSUME user \in Users, NEW m, NEW k, Registering(m, k, <<>>), k < Len(Register(m))
    PROVE  LET c == Register(m)[k + 1]
               rest == Rest(Register(m), k + 1) \o Committal(m)
           IN /\ k \in Nat /\ k + 1 \in 1..Len(Register(m)) /\ k + 1 \in 0..Len(Register(m))
              /\ IsList(rest) /\ work = <<c>> \o rest
              /\ This = c /\ Tail(work) = rest
<1> DEFINE r == Register(m)
           n == Len(r)
           c == r[k + 1]
           p == Committal(m)
           rest == Rest(r, k + 1) \o p
<1>1. /\ m \in DOMAIN user.files /\ k \in 0..n /\ work = <<>> \o (Rest(r, k) \o p)
      BY RegisteringIs, Zenon
<1>2. IsList(r) /\ n \in Nat
      BY <1>1, RegisterIs, Zenon
<1>3. k \in Nat /\ k + 1 \in 1..n /\ k + 1 \in 0..n
  <2> HIDE DEF n
  <2>1. k < n
        BY DEF n
  <2> QED BY <1>1, <1>2, <2>1
<1>4. Rest(r, k) = <<c>> \o Rest(r, k + 1)
      BY <1>1, <1>2, RestIs, Zenon
<1>5. IsList(Rest(r, k + 1)) /\ IsList(<<c>>) /\ IsList(p)
      BY <1>2, <1>3, RestIs, Joins, PartsAreLists, Zenon
<1>6. (<<c>> \o Rest(r, k + 1)) \o p = <<c>> \o (Rest(r, k + 1) \o p)
  <2> DEFINE x == <<c>>
             y == Rest(r, k + 1)
  <2>1. IsList(x) /\ IsList(y) /\ IsList(p)
        BY <1>5
  <2> HIDE DEF x, y, p
  <2>2. (x \o y) \o p = x \o (y \o p)
        BY <2>1, Joined
  <2> QED BY <2>2 DEF x, y
<1>7. IsList(rest)
      BY <1>5, JoinIsList, Zenon
<1>8. IsList(<<c>> \o rest)
      BY <1>5, <1>7, JoinIsList, Zenon
<1>9. work = <<c>> \o rest
      BY <1>1, <1>4, <1>6, <1>8, Joins, Zenon
<1>10. This = c /\ Tail(work) = rest
       BY <1>7, <1>9, HeadOf, Zenon
<1> QED BY <1>3, <1>7, <1>9, <1>10, Zenon

\* Inside a register, a call that stages nothing.
LEMMA RegisteringCall ==
    ASSUME user \in Users, Typed, StagedTyped, NEW m, NEW k, Registering(m, k, <<>>), k < Len(Register(m)),
           Register(m)[k + 1].do # "stage", Step
    PROVE  IInv'
<1> DEFINE c == Register(m)[k + 1]
           rest == Rest(Register(m), k + 1) \o Committal(m)
<1>1. /\ k \in Nat /\ k + 1 \in 1..Len(Register(m)) /\ k + 1 \in 0..Len(Register(m))
      /\ work = <<c>> \o rest
      BY RegisteringNext, Zenon
<1>2. IsNext(m) /\ Whole(m - 1) /\ Staged(m, k) /\ m \in DOMAIN user.files
      BY Zenon DEF Registering, IsNext
<1>3. Staged(m, k + 1)
      BY <1>1, <1>2, StagedOn, Zenon
<1>4. List(<<c>>, QuietWork)
  <2>1. Fits(c, QuietWork)
        BY <1>1, <1>2, RegisterIs, Zenon
  <2> QED BY <2>1, ListOne, Zenon
<1>5. Registering(m, k + 1, <<c>>)
      BY <1>1, <1>2, <1>3, <1>4, Zenon DEF Registering
<1>6. <<c>> # <<>>
  <2> HIDE DEF c
  <2> QED OBVIOUS
<1> QED BY <1>5, <1>6, RegisteringQuiet, Zenon

\* What staging does to the bundle.
LEMMA StageIs ==
    ASSUME DOMAIN bundle = {"plugin", "slots", "hooks"}, DOMAIN bundle.hooks = Range(HookKinds), NEW c, Stage(c)
    PROVE  /\ DOMAIN bundle' = {"plugin", "slots", "hooks"} /\ DOMAIN bundle'.hooks = Range(HookKinds)
           /\ bundle'.plugin = bundle.plugin
           /\ c.key \in Range(HookKinds) =>
                /\ bundle'.slots = bundle.slots
                /\ bundle'.hooks[c.key] =
                      Append(bundle.hooks[c.key], [plugin |-> bundle.plugin, body |-> c.body])
                /\ \A kind \in Range(HookKinds) : kind # c.key => bundle'.hooks[kind] = bundle.hooks[kind]
           /\ c.key \notin Range(HookKinds) =>
                /\ bundle'.slots = bundle.slots \cup {<<c.key, c.value>>}
                /\ bundle'.hooks = bundle.hooks
<1> DEFINE H == Range(HookKinds)
           e == [plugin |-> bundle.plugin, body |-> c.body]
           s == <<c.key, c.value>>
           key == c.key
<1>1. /\ key \in H => bundle' = [bundle EXCEPT !.hooks[key] = Append(@, e)]
      /\ key \notin H => bundle' = [bundle EXCEPT !.slots = @ \cup {s}]
      BY Zenon DEF Stage
<1> HIDE DEF H, e, s, key
<1>2. DOMAIN bundle = {"plugin", "slots", "hooks"} /\ DOMAIN bundle.hooks = H
      BY Zenon DEF H
<1>3. CASE key \in H
  <2>1. bundle' = [bundle EXCEPT !.hooks[key] = Append(@, e)]
        BY <1>1, <1>3
  <2>2. /\ DOMAIN bundle' = DOMAIN bundle /\ bundle'.plugin = bundle.plugin /\ bundle'.slots = bundle.slots
        /\ bundle'.hooks = [bundle.hooks EXCEPT ![key] = Append(@, e)]
        BY <1>2, <2>1
  <2>3. /\ DOMAIN bundle'.hooks = H /\ bundle'.hooks[key] = Append(bundle.hooks[key], e)
        /\ \A kind \in H : kind # key => bundle'.hooks[kind] = bundle.hooks[kind]
        BY <1>2, <1>3, <2>2
  <2> QED BY <1>2, <1>3, <2>2, <2>3, Zenon DEF H, e, key
<1>4. CASE key \notin H
  <2>1. bundle' = [bundle EXCEPT !.slots = @ \cup {s}]
        BY <1>1, <1>4
  <2>2. /\ DOMAIN bundle' = DOMAIN bundle /\ bundle'.plugin = bundle.plugin /\ bundle'.hooks = bundle.hooks
        /\ bundle'.slots = bundle.slots \cup {s}
        BY <1>2, <2>1
  <2> QED BY <1>2, <1>4, <2>2, Zenon DEF H, s, key
<1> QED BY <1>3, <1>4, Zenon

\* A call that is made and has staged what it should.
LEMMA RegisteringMore ==
    ASSUME user \in Users, NEW m, NEW k, Registering(m, k, <<>>), k < Len(Register(m)),
           UNCHANGED <<user, enabled, allowed, records, slots, hooks>>, Staged(m, k + 1)',
           work' = Rest(Register(m), k + 1) \o Committal(m)
    PROVE  Registering(m, k + 1, <<>>)'
<1>1. /\ k + 1 \in 0..Len(Register(m)) /\ IsList(Rest(Register(m), k + 1) \o Committal(m))
      BY RegisteringNext, Zenon
<1>2. IsNext(m) /\ Whole(m - 1)
      BY Zenon DEF Registering
<1>3. \A n : Whole(n)' <=> Whole(n)
      BY FrozenTables, Zenon
<1>4. /\ \A n : Committal(n)' = Committal(n)
      /\ \A n : Register(n)' = Register(n)
      /\ \A n : IsNext(n)' <=> IsNext(n)
      BY Frozen, Zenon
<1>5. <<>> \o (Rest(Register(m), k + 1) \o Committal(m)) = Rest(Register(m), k + 1) \o Committal(m)
      BY <1>1, Joins, Zenon
<1>6. work' = (<<>> \o (Rest(Register(m), k + 1) \o Committal(m)))'
      BY <1>4, <1>5, Zenon
<1>7. (k + 1 \in 0..Len(Register(m)))' /\ IsNext(m)' /\ Whole(m - 1)'
      BY <1>1, <1>2, <1>3, <1>4, Zenon
<1>8. List(<<>>, QuietWork)
      BY ListEmpty
<1> QED BY <1>6, <1>7, <1>8, Zenon DEF Registering

\* A call that stages is refused exactly when it has no name of its own to stage.
LEMMA StageMakes ==
    ASSUME user \in Users, NEW m, NEW k \in Nat, Staged(m, k), Register(m)[k + 1].do = "stage",
           Register(m)[k + 1].key \in Range(SlotKinds) \cup Range(HookKinds),
           UNCHANGED user,
           \/ ~Refuses(Register(m)[k + 1]) /\ Stage(Register(m)[k + 1])
           \/ Refuses(Register(m)[k + 1]) /\ bundle' = bundle
    PROVE  Staged(m, k + 1)'
<1> DEFINE c == Register(m)[k + 1]
           name == user.files[m].name
           H == Range(HookKinds)
           L == Range(SlotKinds)
           s == <<c.key, c.value>>
           e == [plugin |-> name, body |-> c.body]
<1>0. \A kind : ~(kind \in H /\ kind \in L)
      BY Kinds
<1>1. /\ DOMAIN bundle = {"plugin", "slots", "hooks"} /\ DOMAIN bundle.hooks = H
      /\ bundle.plugin = name /\ bundle.slots = Offered(m, k)
      /\ \A kind \in H : bundle.hooks[kind] = HooksUpTo(m, k, kind)
      BY Zenon DEF Staged
<1>2. /\ ~Names(c) => Offered(m, k + 1) = Offered(m, k)
      /\ Names(c) => Offered(m, k + 1) = Offered(m, k) \cup {s}
      BY OfferedNext, Zenon
<1>3. /\ \A kind : kind # c.key => HooksUpTo(m, k + 1, kind) = HooksUpTo(m, k, kind)
      /\ HooksUpTo(m, k + 1, c.key) = Append(HooksUpTo(m, k, c.key), e)
      BY HooksNext, Zenon
<1>4. /\ Names(c) <=> c.key \in L /\ Registrable(c) /\ ~(c.key = "command" /\ c.value \in Builtin)
      /\ Refuses(c) <=> /\ c.key \in L
                        /\ \/ ~Registrable(c) \/ (c.key = "command" /\ c.value \in Builtin)
                           \/ s \in bundle.slots
      BY Zenon DEF Names, Refuses
<1>u. user' = user
      OBVIOUS
<1> HIDE DEF c, H, L, s, e, name
<1>5. /\ DOMAIN bundle' = {"plugin", "slots", "hooks"} /\ DOMAIN bundle'.hooks = H
      /\ bundle'.plugin = name /\ bundle'.slots = Offered(m, k + 1)
      /\ \A kind \in H : bundle'.hooks[kind] = HooksUpTo(m, k + 1, kind)
  <2>1. CASE ~Refuses(c) /\ Stage(c)
    <3>1. /\ DOMAIN bundle' = {"plugin", "slots", "hooks"} /\ DOMAIN bundle'.hooks = H
          /\ bundle'.plugin = name
          /\ c.key \in H =>
                /\ bundle'.slots = bundle.slots
                /\ bundle'.hooks[c.key] = Append(bundle.hooks[c.key], [plugin |-> bundle.plugin, body |-> c.body])
                /\ \A kind \in H : kind # c.key => bundle'.hooks[kind] = bundle.hooks[kind]
          /\ c.key \notin H =>
                /\ bundle'.slots = bundle.slots \cup {<<c.key, c.value>>}
                /\ bundle'.hooks = bundle.hooks
          BY <1>1, <2>1, StageIs, Zenon DEF H
    <3>2. CASE c.key \in H
      <4>1. ~Names(c)
            BY <1>0, <1>4, <3>2, Zenon
      <4>2. bundle'.slots = Offered(m, k + 1)
            BY <1>1, <1>2, <3>1, <3>2, <4>1, Zenon
      <4>3. bundle'.hooks[c.key] = HooksUpTo(m, k + 1, c.key)
            BY <1>1, <1>3, <3>1, <3>2, Zenon DEF e
      <4>4. \A kind \in H : bundle'.hooks[kind] = HooksUpTo(m, k + 1, kind)
            BY <1>1, <1>3, <3>1, <3>2, <4>3, Zenon
      <4> QED BY <3>1, <4>2, <4>4, Zenon
    <3>3. CASE c.key \notin H
      <4>1. c.key \in L
            BY <3>3 DEF c, L, H
      <4>2. Names(c)
            BY <1>4, <2>1, <4>1, Zenon
      <4>3. bundle'.slots = Offered(m, k + 1)
            BY <1>1, <1>2, <3>1, <3>3, <4>2, Zenon DEF s
      <4>4. \A kind \in H : bundle'.hooks[kind] = HooksUpTo(m, k + 1, kind)
            BY <1>1, <1>3, <3>1, <3>3, Zenon
      <4> QED BY <3>1, <4>3, <4>4, Zenon
    <3> QED BY <3>2, <3>3
  <2>2. CASE Refuses(c) /\ bundle' = bundle
    <3>1. c.key \in L /\ c.key \notin H
          BY <1>0, <1>4, <2>2, Zenon
    <3>2. \A kind \in H : HooksUpTo(m, k + 1, kind) = HooksUpTo(m, k, kind)
          BY <1>3, <3>1, Zenon
    <3>3. Offered(m, k + 1) = Offered(m, k)
      <4>1. CASE Names(c)
        <5>1. s \in Offered(m, k)
              BY <1>1, <1>4, <2>2, <4>1, Zenon
        <5> QED BY <1>2, <4>1, <5>1
      <4> QED BY <1>2, <4>1, Zenon
    <3> QED BY <1>1, <2>2, <3>2, <3>3, Zenon
  <2> QED BY <2>1, <2>2, Zenon DEF c
<1>6. \A kind : HooksUpTo(m, k + 1, kind)' = HooksUpTo(m, k + 1, kind)
  <2>1. \A n : Register(n)' = Register(n)
        BY <1>u, Zenon DEF Register
  <2>2. \A i, kind : HookAt(m, i, kind)' = HookAt(m, i, kind)
        BY <1>u, <2>1, Zenon DEF HookAt
  <2>3. ASSUME NEW kind PROVE HooksUpTo(m, k + 1, kind)' = HooksUpTo(m, k + 1, kind)
    <3>1. [i \in 1..(k + 1) |-> HookAt(m, i, kind)]' = [i \in 1..(k + 1) |-> HookAt(m, i, kind)]
          BY <2>2, Zenon
    <3> QED BY <3>1, Zenon DEF HooksUpTo
  <2> QED BY <2>3, Zenon
<1>7. Offered(m, k + 1)' = Offered(m, k + 1)
  <2>1. \A n : Register(n)' = Register(n)
        BY <1>u, Zenon DEF Register
  <2> QED BY <2>1, Zenon DEF Offered
<1> QED BY <1>5, <1>6, <1>7, <1>u, Zenon DEF Staged, H, name

\* A list of hooks with one more.
LEMMA HookListMore ==
    ASSUME NEW h, NEW e, HookList(h), e.body \in Program PROVE HookList(Append(h, e))
<1>1. IsList(h) /\ \A i \in DOMAIN h : h[i].body \in Program
      BY Zenon DEF HookList
<1>2. PICK D : h \in Seq(D)
      BY <1>1 DEF IsList
<1> DEFINE B == D \cup {e}
<1>3. h \in Seq(B) /\ e \in B
      BY <1>2
<1> HIDE DEF B
<1> DEFINE a == Append(h, e)
<1>4. /\ a \in Seq(B) /\ DOMAIN a = 1..(Len(h) + 1) /\ a[Len(h) + 1] = e /\ Len(h) \in Nat /\ DOMAIN h = 1..Len(h)
      /\ \A i \in 1..Len(h) : a[i] = h[i]
      BY <1>3
<1> HIDE DEF a
<1>5. \A i \in 1..(Len(h) + 1) : i \in 1..Len(h) \/ i = Len(h) + 1
      BY <1>4
<1>6. \A i \in DOMAIN a : a[i].body \in Program
      BY <1>1, <1>4, <1>5, Zenon
<1>7. IsList(a)
      BY <1>4, Zenon DEF IsList
<1> QED BY <1>6, <1>7, Zenon DEF HookList, a

\* While calls are staged there is a bundle.
LEMMA BundleIsOpen == ASSUME NEW m, NEW k, Staged(m, k) PROVE bundle # <<>>
<1>1. DOMAIN bundle = {"plugin", "slots", "hooks"}
      BY Zenon DEF Staged
<1>2. DOMAIN <<>> = {}
      OBVIOUS
<1>3. "plugin" \in {"plugin", "slots", "hooks"} /\ "plugin" \notin {}
      OBVIOUS
<1> QED BY <1>1, <1>2, <1>3, Zenon

\* Staging keeps hooks and bundle typed.
LEMMA StageTypes ==
    ASSUME StagedTyped, NEW m, NEW k, Staged(m, k), NEW c, c.body \in Program, Stage(c)
    PROVE  StagedTyped'
<1> DEFINE e == [plugin |-> bundle.plugin, body |-> c.body]
           H == Range(HookKinds)
<1>1. bundle # <<>> /\ DOMAIN bundle = {"plugin", "slots", "hooks"} /\ DOMAIN bundle.hooks = H
      BY BundleIsOpen, Zenon DEF Staged
<1>2. /\ c.key \in H =>
           /\ bundle'.hooks[c.key] = Append(bundle.hooks[c.key], e)
           /\ \A kind \in H : kind # c.key => bundle'.hooks[kind] = bundle.hooks[kind]
      /\ c.key \notin H => bundle'.hooks = bundle.hooks
      BY <1>1, StageIs, Zenon
<1>3. e.body \in Program
      OBVIOUS
<1>4. hooks' = hooks
      BY Zenon DEF Stage
<1> HIDE DEF e, H
<1>5. \A kind \in H : HookList(bundle.hooks[kind])
      BY <1>1, Zenon DEF StagedTyped, H
<1>6. \A kind \in H : HookList(bundle'.hooks[kind])
  <2>1. CASE c.key \in H
    <3>1. HookList(bundle'.hooks[c.key])
          BY <1>2, <1>3, <1>5, <2>1, HookListMore, ZenonT(60)
    <3> QED BY <1>2, <1>5, <2>1, <3>1, Zenon
  <2>2. CASE c.key \notin H
        BY <1>2, <1>5, <2>2, Zenon
  <2> QED BY <2>1, <2>2
<1> QED BY <1>4, <1>6, Zenon DEF StagedTyped, H

\* Inside a register, a call that stages.
LEMMA RegisteringStage ==
    ASSUME user \in Users, Typed, StagedTyped, NEW m, NEW k, Registering(m, k, <<>>), k < Len(Register(m)),
           Register(m)[k + 1].do = "stage", Step
    PROVE  IInv'
<1> DEFINE c == Register(m)[k + 1]
           rest == Rest(Register(m), k + 1) \o Committal(m)
<1>1. /\ k \in Nat /\ k + 1 \in 1..Len(Register(m)) /\ IsList(rest) /\ This = c /\ Tail(work) = rest
      BY RegisteringNext, Zenon
<1>2. IsNext(m) /\ Whole(m - 1) /\ Staged(m, k) /\ m \in DOMAIN user.files
      BY Zenon DEF Registering, IsNext
<1>3. c.key \in Range(SlotKinds) \cup Range(HookKinds) /\ c.body \in Program
      BY <1>1, <1>2, RegisterIs, Zenon
<1>4. StageCall
      BY <1>1, StepOf, Zenon
<1>5. /\ ~Refuses(c) => Stage(c) /\ Then(<<>>)
      /\ Refuses(c) => UNCHANGED plugins /\ (Then(<<>>) \/ Raise("error"))
      /\ UNCHANGED <<user, startupHooks>>
      BY <1>1, <1>4, Zenon DEF StageCall, ByUser
<1>6. startupHooks' \in Seq(Program)
      BY <1>5, Zenon DEF Typed
<1>7. ASSUME Then(<<>>) PROVE work' = rest
      BY <1>1, <1>7, Joins, Zenon DEF Then
<1>8. CASE ~Refuses(c)
  <2>1. Stage(c) /\ Then(<<>>) /\ UNCHANGED user
        BY <1>5, <1>8, Zenon
  <2>2. Staged(m, k + 1)'
        BY <1>1, <1>2, <1>3, <1>8, <2>1, StageMakes, Zenon
  <2>3. UNCHANGED <<user, enabled, allowed, records, slots, hooks>>
        BY <2>1, Zenon DEF Stage
  <2>4. Registering(m, k + 1, <<>>)'
        BY <1>7, <2>1, <2>2, <2>3, RegisteringMore, Zenon
  <2>5. user' = user /\ hooks' = hooks
        BY <2>3
  <2>6. Typed'
        BY <1>6, <2>5, TypedKept, Zenon
  <2>7. StagedTyped'
        BY <1>2, <1>3, <2>1, StageTypes, Zenon
  <2> QED BY <2>4, <2>5, <2>6, <2>7, Zenon DEF IInv, Phases
<1>9. CASE Refuses(c) /\ Then(<<>>)
  <2>1. UNCHANGED plugins /\ UNCHANGED user
        BY <1>5, <1>9, Zenon
  <2>2. bundle' = bundle /\ hooks' = hooks /\ user' = user
        /\ UNCHANGED <<user, enabled, allowed, records, slots, hooks>>
        BY <2>1, Zenon DEF plugins
  <2>3. Staged(m, k + 1)'
        BY <1>1, <1>2, <1>3, <1>9, <2>2, StageMakes, Zenon
  <2>4. Registering(m, k + 1, <<>>)'
        BY <1>7, <1>9, <2>2, <2>3, RegisteringMore, Zenon
  <2>5. Typed' /\ StagedTyped'
        BY <1>6, <2>2, TypedKept, StagedKept, Zenon
  <2> QED BY <2>2, <2>4, <2>5, Zenon DEF IInv, Phases
<1>10. CASE Refuses(c) /\ Raise("error")
  <2>1. UNCHANGED <<user, plugins, startupHooks>>
        BY <1>5, <1>10, Zenon
  <2>2. "error" \in {"error", "quit"}
        OBVIOUS
  <2>3. Throws
        BY <1>10, <2>2, RaiseThrows, Zenon
  <2> QED BY <2>1, <2>3, RegisteringThrows, Zenon
<1> QED BY <1>5, <1>8, <1>9, <1>10, Zenon

\* When the calls are made the bundle is validated.
LEMMA RegisteringDone ==
    ASSUME user \in Users, NEW m, NEW k, Registering(m, k, <<>>), k = Len(Register(m))
    PROVE  /\ This = [do |-> "validate"] /\ work # <<>>
           /\ Tail(work) = Publications \o Ending(m, FALSE) /\ IsList(Publications \o Ending(m, FALSE))
<1>1. /\ m \in DOMAIN user.files /\ work = <<>> \o (Rest(Register(m), k) \o Committal(m))
      /\ k \in 0..Len(Register(m))
      BY RegisteringIs, Zenon
<1>2. Rest(Register(m), k) = <<>>
      BY <1>1, RegisterIs, RestIs, Zenon
<1>3. IsList(Committal(m)) /\ IsList(Publications \o Ending(m, FALSE))
      BY PartsAreLists, Zenon
<1>4. work = Committal(m)
  <2> DEFINE c == Committal(m)
  <2>1. work = <<>> \o (<<>> \o c)
        BY <1>1, <1>2, Zenon
  <2> HIDE DEF c
  <2>2. <<>> \o c = c
        BY <1>3, Joins, Zenon DEF c
  <2> QED BY <2>1, <2>2, Zenon DEF c
<1>5. work = <<[do |-> "validate"]>> \o (Publications \o Ending(m, FALSE))
      BY <1>4, Zenon DEF Committal
<1> QED BY <1>3, <1>5, HeadOf, Zenon

(***************************************************************************)
(* While a bundle is published.                                            *)
(***************************************************************************)
LEMMA OwnedMore ==
    ASSUME user \in Users, NEW m, m \in DOMAIN user.files, Owned(slots), Staged(m, Len(Register(m))), ~Conflicts
    PROVE  Owned(slots \cup Offers(user.files[m]))
<1> DEFINE name == user.files[m].name
           O == Offers(user.files[m])
           B == bundle.slots
<1>1. O = {<<s[1], s[2], name>> : s \in B}
      BY OfferedAll, Zenon DEF Staged
<1>2. \A s \in B : s = <<s[1], s[2]>>
  <2>1. \A a, b : <<a, b>> = <<<<a, b>>[1], <<a, b>>[2]>>
        OBVIOUS
  <2>2. B = Offered(m, Len(Register(m)))
        BY Zenon DEF Staged
  <2>3. ASSUME NEW s \in B PROVE s = <<s[1], s[2]>>
    <3>1. PICK i \in 1..Len(Register(m)) : s = <<Register(m)[i].key, Register(m)[i].value>>
          BY <2>2, Zenon DEF Offered
    <3> QED BY <2>1, <3>1, Zenon
  <2> QED BY <2>3, Zenon
<1>3. \A s \in B : /\ s[1] = "command" => s[2] \notin Builtin
                   /\ \A t \in slots : <<t[1], t[2]>> # s
      BY Zenon DEF Conflicts
<1>4. \A a, b, c : <<a, b, c>>[1] = a /\ <<a, b, c>>[2] = b
      OBVIOUS
<1> HIDE DEF O, B, name
<1>5. ASSUME NEW u \in O
      PROVE  \E s \in B : u = <<s[1], s[2], name>> /\ u[1] = s[1] /\ u[2] = s[2] /\ <<u[1], u[2]>> = s
  <2>1. PICK s \in B : u = <<s[1], s[2], name>>
        BY <1>1, Zenon
  <2>2. u[1] = s[1] /\ u[2] = s[2]
        BY <1>4, <2>1, Zenon
  <2> QED BY <1>2, <2>1, <2>2, Zenon
<1>6. ASSUME NEW t \in slots \cup O, NEW u \in slots \cup O, <<t[1], t[2]>> = <<u[1], u[2]>>
      PROVE  t = u
  <2>1. CASE t \in slots /\ u \in slots
        BY <1>6, <2>1, Zenon DEF Owned
  <2>2. CASE t \in slots /\ u \in O
        BY <1>3, <1>5, <1>6, <2>2, Zenon
  <2>3. CASE t \in O /\ u \in slots
        BY <1>3, <1>5, <1>6, <2>3, Zenon
  <2>4. CASE t \in O /\ u \in O
        BY <1>5, <1>6, <2>4, Zenon
  <2> QED BY <2>1, <2>2, <2>3, <2>4, Zenon
<1>7. \A t \in slots \cup O : t[1] = "command" => t[2] \notin Builtin
  <2>1. \A t \in slots : t[1] = "command" => t[2] \notin Builtin
        BY Zenon DEF Owned
  <2>2. \A t \in O : t[1] = "command" => t[2] \notin Builtin
        BY <1>3, <1>5, Zenon
  <2> QED BY <2>1, <2>2, Zenon
<1> QED BY <1>6, <1>7, Zenon DEF Owned, O

\* What files offer depends on the files.
LEMMA FrozenOffers ==
    ASSUME user' = user
    PROVE  /\ \A m : Offers(user.files[m])' = Offers(user.files[m])
           /\ \A m, kind : HooksOffered(user.files[m], kind)' = HooksOffered(user.files[m], kind)
BY Zenon

\* The bundle is complete as long as nobody touches it.
LEMMA StagedLater ==
    ASSUME UNCHANGED <<user, bundle>>, NEW m, Staged(m, Len(Register(m)))
    PROVE  Staged(m, Len(Register(m)))'
<1>1. user' = user /\ bundle' = bundle
      OBVIOUS
<1>2. \A n : Register(n)' = Register(n)
      BY <1>1, Zenon DEF Register
<1>3. \A n, k : Offered(n, k)' = Offered(n, k)
      BY <1>2, Zenon DEF Offered
<1>4. \A n, i, kind : HookAt(n, i, kind)' = HookAt(n, i, kind)
      BY <1>1, <1>2, Zenon DEF HookAt
<1>5. ASSUME NEW k, NEW kind PROVE HooksUpTo(m, k, kind)' = HooksUpTo(m, k, kind)
  <2>1. [i \in 1..k |-> HookAt(m, i, kind)]' = [i \in 1..k |-> HookAt(m, i, kind)]
        BY <1>4, Zenon
  <2> QED BY <2>1, Zenon DEF HooksUpTo
<1> QED BY <1>1, <1>2, <1>3, <1>5, Zenon DEF Staged

\* The hooks of loaded files are a list.
LEMMA LoadedHooksAre ==
    ASSUME user \in Users, NEW m, Loaded(m), NEW kind
    PROVE  /\ IsList(LoadedHooks(kind))
           /\ \A i \in DOMAIN user.files : IsList(HooksOffered(user.files[i], kind))
<1> DEFINE n == Len(user.files)
           s == [i \in DOMAIN records |->
                    IF records[i] = "loaded" THEN HooksOffered(user.files[i], kind) ELSE <<>>]
<1>1. n \in Nat /\ DOMAIN user.files = 1..n /\ DOMAIN records = 1..n
      BY FilesOf, Zenon DEF Loaded
<1>2. \A i \in DOMAIN user.files : IsList(HooksOffered(user.files[i], kind))
  <2>1. ASSUME NEW i \in DOMAIN user.files PROVE IsList(HooksOffered(user.files[i], kind))
    <3>1. HooksOffered(user.files[i], kind) = HooksUpTo(i, Len(Register(i)), kind)
          BY OfferedAll, Zenon
    <3>2. Len(Register(i)) \in Nat
          BY RegisterIs, Zenon
    <3> QED BY <3>1, <3>2, HooksMore, Zenon
  <2> QED BY <2>1, Zenon
<1>3. s = [i \in 1..n |-> s[i]] /\ \A i \in 1..n : IsList(s[i])
      BY <1>1, <1>2, Joins, Zenon
<1>4. LoadedHooks(kind) = FlattenSeq(s)
      BY Zenon DEF LoadedHooks
<1> HIDE DEF n, s
<1>5. s \in Seq(Seq(UNION {{s[i][j] : j \in DOMAIN s[i]} : i \in 1..n}))
      BY <1>1, <1>3, ListOfLists
<1>6. IsList(FlattenSeq(s))
      BY <1>5, FlatType, Zenon DEF IsList
<1> QED BY <1>2, <1>4, <1>6, Zenon

\* A bundle without conflicts is to be published, and nothing of it has been.
LEMMA CommittingStarts ==
    ASSUME user \in Users, NEW m, NEW k, Registering(m, k, <<>>), k = Len(Register(m)), ~Conflicts,
           UNCHANGED <<user, plugins>>, work' = Publications \o Ending(m, FALSE)
    PROVE  Committing(m, 0)'
<1> DEFINE file == user.files[m]
<1>1. /\ user' = user /\ records' = records /\ slots' = slots /\ hooks' = hooks /\ bundle' = bundle
      /\ enabled' = enabled /\ allowed' = allowed
      BY DEF plugins
<1>2. IsNext(m) /\ m \in DOMAIN user.files /\ Whole(m - 1) /\ Staged(m, Len(Register(m)))
      BY Zenon DEF Registering, IsNext
<1>3. Loaded(m - 1) /\ slots = LoadedSlots /\ Owned(slots)
      /\ \A kind \in Range(HookKinds) : hooks[kind] = LoadedHooks(kind)
      BY <1>2, Zenon DEF Whole
<1>4. Owned(LoadedSlots \cup Offers(file))
      BY <1>2, <1>3, OwnedMore, Zenon
<1>5. /\ LoadedSlots' = LoadedSlots
      /\ \A kind : LoadedHooks(kind)' = LoadedHooks(kind)
      /\ \A n : Loaded(n)' <=> Loaded(n)
      BY <1>1, FrozenTables, Zenon
<1>6. IsNext(m)' /\ Ending(m, FALSE)' = Ending(m, FALSE)
      BY <1>1, <1>2, Frozen, Zenon
<1>7. Staged(m, Len(Register(m)))'
      BY <1>1, <1>2, StagedLater, Zenon
<1>8. Published(0) = {}
  <2>1. 1..0 = {}
        OBVIOUS
  <2> QED BY <2>1, Zenon DEF Published
<1>9. slots = LoadedSlots \cup {s \in Offers(file) : s[1] \in Published(0)}
      BY <1>3, <1>8
<1>10. \A kind \in Range(HookKinds) :
          hooks[kind] = LoadedHooks(kind) \o (IF kind \in Published(0) THEN HooksOffered(file, kind) ELSE <<>>)
  <2>1. \A kind : IsList(LoadedHooks(kind))
        BY <1>3, LoadedHooksAre, Zenon
  <2>2. \A kind : LoadedHooks(kind) \o <<>> = LoadedHooks(kind)
        BY <2>1, Joins, Zenon
  <2> QED BY <1>3, <1>8, <2>2, Zenon
<1>11. Rest(Publications, 0) = Publications
  <2>1. 0 \in 0..Len(Publications)
        BY Publishes
  <2> QED BY <2>1, Publishes, RestIs, Zenon
<1>12. Offers(file)' = Offers(file) /\ \A kind : HooksOffered(file, kind)' = HooksOffered(file, kind)
       BY <1>1, FrozenOffers, Zenon
<1>13. Loaded(m - 1)'
       BY <1>3, <1>5, Zenon
<1>14. Owned(LoadedSlots \cup Offers(file))'
       BY <1>4, <1>5, <1>12, Zenon DEF Owned
<1>15. (slots = LoadedSlots \cup {s \in Offers(file) : s[1] \in Published(0)})'
       BY <1>1, <1>5, <1>9, <1>12, Zenon
<1>16. (\A kind \in Range(HookKinds) :
          hooks[kind] = LoadedHooks(kind) \o (IF kind \in Published(0) THEN HooksOffered(file, kind) ELSE <<>>))'
       BY <1>1, <1>5, <1>10, <1>12, Zenon
<1>17. (work = Rest(Publications, 0) \o Ending(m, FALSE))'
       BY <1>6, <1>11, Zenon
<1>18. 0 \in 0..6
       OBVIOUS
<1> QED BY <1>6, <1>7, <1>13, <1>14, <1>15, <1>16, <1>17, <1>18, Zenon DEF Committing

\* The tables published, one at a time.
LEMMA PublishedNext ==
    /\ \A j \in 0..5 : /\ j + 1 \in 1..6 /\ j + 1 \in 0..6
                       /\ Published(j + 1) = Published(j) \cup {KindAt(j + 1)}
                       /\ KindAt(j + 1) \notin Published(j)
                       /\ KindAt(j + 1) \in Range(SlotKinds) \cup Range(HookKinds)
    /\ Range(SlotKinds) \cup Range(HookKinds) \subseteq Published(6)
    /\ \A kind \in Range(HookKinds) : kind \notin Range(SlotKinds)
<1>1. ASSUME NEW j \in 0..5 PROVE Published(j + 1) = Published(j) \cup {KindAt(j + 1)}
  <2>1. 1..(j + 1) = (1..j) \cup {j + 1}
        OBVIOUS
  <2> QED BY <2>1, Zenon DEF Published
<1>2. ASSUME NEW a \in 1..6, NEW b \in 1..6, a < b PROVE KindAt(a) # KindAt(b)
      BY <1>2, KindsInOrder
<1>3. ASSUME NEW j \in 0..5 PROVE KindAt(j + 1) \notin Published(j)
  <2>1. \A i \in 1..j : i \in 1..6 /\ j + 1 \in 1..6 /\ i < j + 1
        OBVIOUS
  <2>2. \A i \in 1..j : KindAt(i) # KindAt(j + 1)
        BY <1>2, <2>1, Zenon
  <2> QED BY <2>2, Zenon DEF Published
<1>4. ASSUME NEW i \in 1..6 PROVE KindAt(i) \in Range(SlotKinds) \cup Range(HookKinds)
      BY KindsInOrder, Kinds
<1>5. \A i \in 1..6 : KindAt(i) \in Published(6)
      BY Zenon DEF Published
<1>6. 1 \in 1..6 /\ 2 \in 1..6 /\ 3 \in 1..6 /\ 4 \in 1..6 /\ 5 \in 1..6 /\ 6 \in 1..6
      OBVIOUS
<1>7. /\ "command" \in Published(6) /\ "completer" \in Published(6) /\ "segment" \in Published(6)
      /\ "startup" \in Published(6) /\ "shutdown" \in Published(6) /\ "env" \in Published(6)
      BY <1>5, <1>6, KindsInOrder, Zenon
<1>8. Range(SlotKinds) \cup Range(HookKinds) \subseteq Published(6)
      BY <1>7, Kinds
<1>9. \A kind \in Range(HookKinds) : kind \notin Range(SlotKinds)
      BY Kinds
<1>10. \A j \in 0..5 : j + 1 \in 1..6 /\ j + 1 \in 0..6
       OBVIOUS
<1> QED BY <1>1, <1>3, <1>4, <1>8, <1>9, <1>10, Zenon

\* Slots are in the three tables of slots.
LEMMA OffersNames ==
    ASSUME NEW file, NEW s \in Offers(file) PROVE s[1] \in Range(SlotKinds)
<1>1. PICK d \in Range(file.register) : d.key \in Range(SlotKinds) /\ s = <<d.key, d.value, file.name>>
      BY Zenon DEF Offers
<1>2. \A a, b, c : <<a, b, c>>[1] = a
      OBVIOUS
<1> QED BY <1>1, <1>2, Zenon

\* Lists of hooks joined.
LEMMA HookListJoin ==
    ASSUME NEW x, NEW y, HookList(x), HookList(y) PROVE HookList(x \o y)
<1> DEFINE z == x \o y
<1>1. IsList(x) /\ IsList(y) /\ \A i \in DOMAIN x : x[i].body \in Program
      BY Zenon DEF HookList
<1>2. \A i \in DOMAIN y : y[i].body \in Program
      BY Zenon DEF HookList
<1>3. IsList(z)
      BY <1>1, JoinIsList, Zenon
<1>4. PICK D : x \in Seq(D) /\ y \in Seq(D)
      BY <1>1, Together
<1>5. \A i \in DOMAIN z : (i \in DOMAIN x /\ z[i] = x[i]) \/ (\E j \in DOMAIN y : z[i] = y[j])
  <2>1. /\ DOMAIN z = 1..(Len(x) + Len(y)) /\ DOMAIN x = 1..Len(x) /\ DOMAIN y = 1..Len(y)
        /\ Len(x) \in Nat /\ Len(y) \in Nat
        /\ \A i \in 1..Len(x) : z[i] = x[i]
        /\ \A i \in 1..Len(y) : z[Len(x) + i] = y[i]
        BY <1>4
  <2> HIDE DEF z
  <2>2. ASSUME NEW i \in DOMAIN z, i \notin DOMAIN x PROVE \E j \in DOMAIN y : z[i] = y[j]
    <3>1. i - Len(x) \in 1..Len(y) /\ i = Len(x) + (i - Len(x))
          BY <2>1, <2>2
    <3> QED BY <2>1, <3>1
  <2> QED BY <2>1, <2>2
<1> HIDE DEF z
<1>6. \A i \in DOMAIN z : z[i].body \in Program
      BY <1>1, <1>2, <1>5, Zenon
<1> QED BY <1>3, <1>6, Zenon DEF HookList, z

\* The next table to be published is at the head of the work.
LEMMA CommittingIs ==
    ASSUME user \in Users, NEW m, NEW j, Committing(m, j)
    PROVE  /\ m \in DOMAIN user.files /\ j \in 0..6
           /\ j # 6 =>
                /\ j \in 0..5
                /\ This = [do |-> "publish", key |-> KindAt(j + 1)]
                /\ Tail(work) = Rest(Publications, j + 1) \o Ending(m, FALSE)
           /\ j = 6 => This = RegisterEnd(m, FALSE) /\ Tail(work) = Remaining(m) \o After
           /\ work # <<>>
<1> DEFINE p == Publications
           e == Ending(m, FALSE)
<1>1. m \in DOMAIN user.files /\ j \in 0..6 /\ work = Rest(p, j) \o e
      BY Zenon DEF Committing, IsNext
<1>2. /\ IsList(p) /\ Len(p) = 6
      /\ \A i \in 1..6 : p[i] = [do |-> "publish", key |-> KindAt(i)]
      BY Publishes, Zenon
<1>3. IsList(e)
      BY PartsAreLists, Zenon
<1>4. CASE j # 6
  <2>1. j \in 0..5 /\ j + 1 \in 1..6 /\ j \in 0..Len(p) /\ j + 1 \in 0..Len(p) /\ j < Len(p)
        BY <1>1, <1>2, <1>4
  <2>2. Rest(p, j) = <<p[j + 1]>> \o Rest(p, j + 1) /\ IsList(Rest(p, j + 1))
        BY <1>2, <2>1, RestIs, Zenon
  <2> DEFINE c == p[j + 1]
             x == <<c>>
             y == Rest(p, j + 1)
  <2>3. work = (x \o y) \o e /\ IsList(x) /\ IsList(y)
        BY <1>1, <2>2, Joins, Zenon
  <2> HIDE DEF c, y, p, e
  <2>4. (x \o y) \o e = x \o (y \o e)
    <3> HIDE DEF x
    <3> QED BY <1>3, <2>3, Joined
  <2>5. IsList(y \o e)
        BY <1>3, <2>3, JoinIsList, Zenon
  <2>6. This = c /\ Tail(work) = y \o e /\ work # <<>>
    <3>1. work = <<c>> \o (y \o e)
          BY <2>3, <2>4, Zenon
    <3> QED BY <2>5, <3>1, HeadOf, Zenon
  <2>7. c = [do |-> "publish", key |-> KindAt(j + 1)]
        BY <1>2, <2>1, Zenon DEF c
  <2> QED BY <1>1, <1>4, <2>1, <2>6, <2>7, Zenon DEF y, p, e
<1>5. CASE j = 6
  <2>1. 6 \in 0..Len(p)
        BY <1>2
  <2>2. Rest(p, 6) = <<>>
        BY <1>2, <2>1, RestIs, Zenon
  <2>3. work = e
        BY <1>1, <1>3, <1>5, <2>2, Joins, Zenon
  <2>4. work = <<RegisterEnd(m, FALSE)>> \o (Remaining(m) \o After)
        BY <2>3, Zenon DEF Ending
  <2>5. IsList(Remaining(m) \o After)
        BY PartsAreLists, Zenon
  <2> QED BY <1>1, <1>5, <2>4, <2>5, HeadOf, Zenon
<1> QED BY <1>4, <1>5

\* The table of one kind more.
LEMMA PublishMore ==
    ASSUME user \in Users, DOMAIN hooks = Range(HookKinds), NEW m, NEW j \in 0..5, Committing(m, j),
           Publish(KindAt(j + 1))
    PROVE  /\ slots' = LoadedSlots \cup {s \in Offers(user.files[m]) : s[1] \in Published(j + 1)}
           /\ \A kind \in Range(HookKinds) :
                 hooks'[kind] = LoadedHooks(kind) \o (IF kind \in Published(j + 1)
                                                      THEN HooksOffered(user.files[m], kind) ELSE <<>>)
           /\ DOMAIN hooks' = Range(HookKinds)
<1> DEFINE file == user.files[m]
           O == Offers(file)
           H == Range(HookKinds)
           L == Range(SlotKinds)
           k == KindAt(j + 1)
           P == Published(j)
           Q == Published(j + 1)
           offered(kind) == HooksOffered(file, kind)
<1>0. m \in DOMAIN user.files
      BY Zenon DEF Committing, IsNext
<1>1. Q = P \cup {k} /\ k \notin P /\ k \in L \cup H /\ \A kind \in H : kind \notin L
      BY PublishedNext, Zenon
<1>2. /\ slots = LoadedSlots \cup {s \in O : s[1] \in P}
      /\ \A kind \in H : hooks[kind] = LoadedHooks(kind) \o (IF kind \in P THEN offered(kind) ELSE <<>>)
      /\ Staged(m, Len(Register(m)))
      BY Zenon DEF Committing
<1>3. /\ bundle.plugin = file.name /\ bundle.slots = Offered(m, Len(Register(m)))
      /\ \A kind \in H : bundle.hooks[kind] = HooksUpTo(m, Len(Register(m)), kind)
      BY <1>2, Zenon DEF Staged
<1>4. /\ O = {<<s[1], s[2], file.name>> : s \in bundle.slots}
      /\ \A kind \in H : bundle.hooks[kind] = offered(kind)
      BY <1>0, <1>3, OfferedAll, Zenon
<1>5. /\ k \in H => hooks' = [hooks EXCEPT ![k] = @ \o bundle.hooks[k]] /\ slots' = slots
      /\ k \notin H => /\ slots' = slots \cup {<<s[1], s[2], bundle.plugin>> : s \in {b \in bundle.slots : b[1] = k}}
                       /\ hooks' = hooks
      BY Zenon DEF Publish
<1>6. \A s \in O : s[1] \in L
      BY OffersNames, Zenon
<1>7. \A kind : IsList(LoadedHooks(kind))
      BY LoadedHooksAre, Zenon DEF Committing
<1>8. DOMAIN hooks = H
      OBVIOUS
<1>9. \A a, b, c : <<a, b, c>>[1] = a
      OBVIOUS
<1> DEFINE name == file.name
<1>n. /\ O = {<<s[1], s[2], name>> : s \in bundle.slots} /\ bundle.plugin = name
      BY <1>3, <1>4, Zenon
<1> HIDE DEF file, O, H, L, k, P, Q, offered, name
<1>10. CASE k \in H
  <2>1. {s \in O : s[1] \in Q} = {s \in O : s[1] \in P}
    <3>1. \A s \in O : s[1] # k
          BY <1>1, <1>6, <1>10, Zenon
    <3> QED BY <1>1, <3>1
  <2>2. DOMAIN hooks' = H
        BY <1>5, <1>8, <1>10
  <2>3. /\ hooks'[k] = hooks[k] \o bundle.hooks[k]
        /\ \A kind \in H : kind # k => hooks'[kind] = hooks[kind]
        BY <1>5, <1>8, <1>10
  <2>4. hooks[k] = LoadedHooks(k)
    <3>1. hooks[k] = LoadedHooks(k) \o <<>>
          BY <1>1, <1>2, <1>10, Zenon
    <3> QED BY <1>7, <3>1, Joins, Zenon
  <2>5. ASSUME NEW kind \in H
        PROVE  hooks'[kind] = LoadedHooks(kind) \o (IF kind \in Q THEN offered(kind) ELSE <<>>)
    <3>1. CASE kind = k
      <4>1. hooks'[k] = LoadedHooks(k) \o offered(k)
            BY <1>4, <1>10, <2>3, <2>4, Zenon
      <4>2. k \in Q
            BY <1>1
      <4> QED BY <3>1, <4>1, <4>2, Zenon
    <3>2. CASE kind # k
      <4>1. kind \in Q <=> kind \in P
            BY <1>1, <3>2
      <4> QED BY <1>2, <2>3, <3>2, <4>1, Zenon
    <3> QED BY <3>1, <3>2
  <2> QED BY <1>2, <1>5, <1>10, <2>1, <2>2, <2>5, Zenon DEF file, O, H, Q, offered
<1>11. CASE k \notin H
  <2> DEFINE new == {<<s[1], s[2], name>> : s \in {b \in bundle.slots : b[1] = k}}
  <2>1. new = {s \in O : s[1] = k}
    <3>1. ASSUME NEW x \in new PROVE x \in O /\ x[1] = k
      <4>1. PICK s \in bundle.slots : s[1] = k /\ x = <<s[1], s[2], name>>
            BY Zenon
      <4> QED BY <1>9, <1>n, <4>1, Zenon
    <3>2. ASSUME NEW x \in O, x[1] = k PROVE x \in new
      <4>1. PICK s \in bundle.slots : x = <<s[1], s[2], name>>
            BY <1>n, Zenon
      <4>2. s[1] = k
            BY <1>9, <3>2, <4>1, Zenon
      <4> QED BY <4>1, <4>2, Zenon
    <3> HIDE DEF new
    <3> QED BY <3>1, <3>2, Zenon
  <2>2. slots' = slots \cup new
        BY <1>5, <1>11, <1>n, Zenon
  <2> HIDE DEF new
  <2>3. slots' = LoadedSlots \cup {s \in O : s[1] \in Q}
    <3>1. {s \in O : s[1] \in Q} = {s \in O : s[1] \in P} \cup {s \in O : s[1] = k}
          BY <1>1
    <3> QED BY <1>2, <2>1, <2>2, <3>1
  <2>4. \A kind \in H : kind \in Q <=> kind \in P
        BY <1>1, <1>11
  <2>5. hooks' = hooks
        BY <1>5, <1>11, Zenon
  <2> QED BY <1>2, <1>8, <2>3, <2>4, <2>5, Zenon DEF file, O, H, Q, offered
<1> QED BY <1>10, <1>11, Zenon

\* Publishing one table: its part of the bundle, and of no other.
LEMMA CommittingPublish ==
    ASSUME user \in Users, Typed, StagedTyped, NEW m, NEW j, Committing(m, j), j # 6, Step
    PROVE  IInv'
<1> DEFINE file == user.files[m]
           k == KindAt(j + 1)
<1>1. /\ m \in DOMAIN user.files /\ j \in 0..5 /\ This = [do |-> "publish", key |-> k]
      /\ Tail(work) = Rest(Publications, j + 1) \o Ending(m, FALSE)
      BY CommittingIs, Zenon
<1>2. This.do = "publish" /\ This.key = k
      BY <1>1
<1>3. PublishTable
      BY <1>2, StepOf, Zenon
<1>4. Publish(k) /\ work' = Tail(work) /\ UNCHANGED <<user, startupHooks>>
  <2>1. Publish(k) /\ Then(<<>>) /\ UNCHANGED <<user, startupHooks>>
        BY <1>2, <1>3, Zenon DEF PublishTable, ByUser
  <2>2. IsList(Tail(work))
    <3>1. IsList(Rest(Publications, j + 1))
      <4>1. j + 1 \in 0..Len(Publications)
            BY <1>1, Publishes
      <4> QED BY <4>1, Publishes, RestIs, Zenon
    <3>2. IsList(Ending(m, FALSE))
          BY PartsAreLists, Zenon
    <3> QED BY <1>1, <3>1, <3>2, JoinIsList, Zenon
  <2>3. <<>> \o Tail(work) = Tail(work)
        BY <2>2, Joins, Zenon
  <2> QED BY <2>1, <2>3, Zenon DEF Then
<1>5. /\ user' = user /\ startupHooks' = startupHooks /\ enabled' = enabled /\ allowed' = allowed
      /\ records' = records /\ bundle' = bundle
      BY <1>4, Zenon DEF Publish
<1>6. DOMAIN hooks = Range(HookKinds)
      BY Zenon DEF StagedTyped
<1>7. /\ slots' = LoadedSlots \cup {s \in Offers(file) : s[1] \in Published(j + 1)}
      /\ \A kind \in Range(HookKinds) :
            hooks'[kind] = LoadedHooks(kind) \o (IF kind \in Published(j + 1) THEN HooksOffered(file, kind) ELSE <<>>)
      /\ DOMAIN hooks' = Range(HookKinds)
      BY <1>1, <1>4, <1>6, PublishMore, Zenon
<1>8. /\ IsNext(m) /\ Loaded(m - 1) /\ Staged(m, Len(Register(m)))
      /\ Owned(LoadedSlots \cup Offers(file))
      BY Zenon DEF Committing
<1>9. /\ LoadedSlots' = LoadedSlots
      /\ \A kind : LoadedHooks(kind)' = LoadedHooks(kind)
      /\ \A n : Loaded(n)' <=> Loaded(n)
      BY <1>5, FrozenTables, Zenon
<1>10. IsNext(m)' /\ Ending(m, FALSE)' = Ending(m, FALSE)
       BY <1>5, <1>8, Frozen, Zenon
<1>11. Staged(m, Len(Register(m)))'
       BY <1>5, <1>8, StagedLater, Zenon
<1>12. Offers(file)' = Offers(file) /\ \A kind : HooksOffered(file, kind)' = HooksOffered(file, kind)
       BY <1>5, FrozenOffers, Zenon
<1>13. Committing(m, j + 1)'
  <2>1. Loaded(m - 1)'
        BY <1>8, <1>9, Zenon
  <2>2. Owned(LoadedSlots \cup Offers(file))'
        BY <1>8, <1>9, <1>12, Zenon DEF Owned
  <2>3. (slots = LoadedSlots \cup {s \in Offers(file) : s[1] \in Published(j + 1)})'
        BY <1>7, <1>9, <1>12, Zenon
  <2>4. (\A kind \in Range(HookKinds) : hooks[kind] =
            LoadedHooks(kind) \o (IF kind \in Published(j + 1) THEN HooksOffered(file, kind) ELSE <<>>))'
        BY <1>7, <1>9, <1>12, Zenon
  <2>5. (work = Rest(Publications, j + 1) \o Ending(m, FALSE))'
        BY <1>1, <1>4, <1>10, Zenon
  <2>6. j + 1 \in 0..6
        BY <1>1
  <2> QED BY <1>10, <1>11, <2>1, <2>2, <2>3, <2>4, <2>5, <2>6, Zenon DEF Committing
<1>14. Typed'
  <2>1. \A kind \in Range(HookKinds) : HookList(hooks'[kind])
    <3>1. ASSUME NEW kind \in Range(HookKinds) PROVE HookList(hooks'[kind])
      <4>1. HookList(hooks[kind]) /\ HookList(bundle.hooks[kind])
        <5>1. bundle # <<>>
              BY <1>8, BundleIsOpen, Zenon
        <5> QED BY <5>1, Zenon DEF Typed, StagedTyped
      <4>2. hooks'[kind] = hooks[kind] \/ hooks'[kind] = hooks[kind] \o bundle.hooks[kind]
        <5>1. \/ hooks' = hooks
              \/ hooks' = [hooks EXCEPT ![k] = @ \o bundle.hooks[k]]
              BY <1>4, Zenon DEF Publish
        <5> HIDE DEF k
        <5> QED BY <1>6, <5>1
      <4> QED BY <4>1, <4>2, HookListJoin, Zenon
    <3> QED BY <3>1, Zenon
  <2>2. startupHooks' \in Seq(Program)
        BY <1>5, Zenon DEF Typed
  <2> QED BY <2>1, <2>2, Zenon DEF Typed
<1>15. StagedTyped'
       BY <1>5, <1>7, Zenon DEF StagedTyped
<1> QED BY <1>5, <1>13, <1>14, <1>15, Zenon DEF IInv, Phases

(***************************************************************************)
(* The end of a plugin.                                                    *)
(***************************************************************************)
LEMMA FilesRecorded ==
    ASSUME user \in Users, UNCHANGED <<user, enabled, allowed>>, NEW m, IsNext(m), Loaded(m - 1),
           NEW verdict, records' = [records EXCEPT ![m] = verdict]
    PROVE  /\ DOMAIN records' = DOMAIN records /\ DOMAIN records = 1..Len(user.files)
           /\ m \in 1..Len(user.files) /\ m \notin LoadedFiles
           /\ records'[m] = verdict /\ \A i \in DOMAIN records : i # m => records'[i] = records[i]
           /\ LoadedFiles' = IF verdict = "loaded" THEN LoadedFiles \cup {m} ELSE LoadedFiles
           /\ Loaded(m)'
<1> DEFINE n == Len(user.files)
<1>1. n \in Nat /\ DOMAIN user.files = 1..n /\ DOMAIN records = 1..n /\ m \in 1..n
  <2>1. n \in Nat /\ DOMAIN user.files = 1..n /\ DOMAIN records = DOMAIN user.files
        BY FilesOf, Zenon DEF Loaded
  <2> QED BY <2>1, Zenon DEF IsNext
<1>2. \A i \in LoadedFiles : i \in 1..n /\ i <= m - 1
      BY <1>1, Zenon DEF Loaded, LoadedFiles
<1>d. \A i \in LoadedFiles : Verdict(user.files, i) = "discovered"
      BY Zenon DEF Loaded
<1> HIDE DEF n
<1>3. m \notin LoadedFiles
      BY <1>1, <1>2
<1>4. /\ DOMAIN records' = DOMAIN records /\ records'[m] = verdict
      /\ \A i \in DOMAIN records : i # m => records'[i] = records[i]
      BY <1>1
<1>5. ASSUME verdict = "loaded" PROVE LoadedFiles' = LoadedFiles \cup {m}
  <2>1. \A i : i \in LoadedFiles' <=> i \in LoadedFiles \cup {m}
        BY <1>1, <1>4, <1>5 DEF LoadedFiles
  <2> QED BY <2>1, Zenon
<1>6. ASSUME verdict # "loaded" PROVE LoadedFiles' = LoadedFiles
  <2>1. \A i : i \in LoadedFiles' <=> i \in LoadedFiles
        BY <1>1, <1>3, <1>4, <1>6 DEF LoadedFiles
  <2> QED BY <2>1, Zenon
<1>7. LoadedFiles' = IF verdict = "loaded" THEN LoadedFiles \cup {m} ELSE LoadedFiles
      BY <1>5, <1>6, Zenon
<1>8. \A i \in LoadedFiles' : i \in LoadedFiles \/ i = m
      BY <1>7
<1>9. \A i \in LoadedFiles' : i <= m
      BY <1>1, <1>2, <1>8
<1>10. \A i : Verdict(user.files, i)' = Verdict(user.files, i)
       BY Frozen, Zenon
<1>11. \A i \in LoadedFiles' : Verdict(user.files, i)' = "discovered"
  <2>1. Verdict(user.files, m) = "discovered"
        BY Zenon DEF IsNext
  <2> QED BY <1>8, <1>10, <1>d, <2>1, Zenon
<1>12. Loaded(m)'
  <2>1. DOMAIN records' = DOMAIN user.files /\ user' = user
        BY <1>1, <1>4
  <2> QED BY <1>9, <1>11, <2>1, Zenon DEF Loaded
<1> QED BY <1>1, <1>3, <1>4, <1>7, <1>12, Zenon DEF n

HooksGrow(m, verdict) ==
    \A kind : LoadedHooks(kind)' = IF verdict = "loaded"
                                   THEN LoadedHooks(kind) \o HooksOffered(user.files[m], kind)
                                   ELSE LoadedHooks(kind)

\* Recording the verdict of file m adds its hooks behind those of the files before.
LEMMA HooksRecorded ==
    ASSUME user \in Users, UNCHANGED <<user, enabled, allowed>>, NEW m, IsNext(m), Loaded(m - 1),
           NEW verdict, records' = [records EXCEPT ![m] = verdict]
    PROVE  HooksGrow(m, verdict)
<1> SUFFICES ASSUME NEW kind
             PROVE  LoadedHooks(kind)' = IF verdict = "loaded"
                                         THEN LoadedHooks(kind) \o HooksOffered(user.files[m], kind)
                                         ELSE LoadedHooks(kind)
    BY Zenon DEF HooksGrow
<1> DEFINE n == Len(user.files)
           offered(i) == HooksOffered(user.files[i], kind)
           s == [i \in DOMAIN records' |-> IF records'[i] = "loaded" THEN offered(i) ELSE <<>>]
           t == [i \in DOMAIN records |-> IF records[i] = "loaded" THEN offered(i) ELSE <<>>]
<1>1. /\ DOMAIN records' = 1..n /\ DOMAIN records = 1..n /\ m \in 1..n /\ m \notin LoadedFiles
      /\ records'[m] = verdict /\ \A i \in 1..n : i # m => records'[i] = records[i]
      BY FilesRecorded, Zenon
<1>2. n \in Nat /\ DOMAIN user.files = 1..n
      BY FilesOf, Zenon
<1>3. \A i \in 1..n : IsList(offered(i))
      BY <1>2, LoadedHooksAre, Zenon
<1>4. LoadedHooks(kind)' = FlattenSeq(s)
  <2>1. user' = user
        OBVIOUS
  <2>2. \A i : HooksOffered(user.files[i], kind)' = offered(i)
        BY <2>1, FrozenOffers, Zenon
  <2>3. [i \in DOMAIN records |-> IF records[i] = "loaded" THEN HooksOffered(user.files[i], kind) ELSE <<>>]'
            = s
        BY <2>2, Zenon
  <2> QED BY <2>3, Zenon DEF LoadedHooks
<1>5. LoadedHooks(kind) = FlattenSeq(t)
      BY Zenon DEF LoadedHooks
<1>6. \A i \in LoadedFiles : i <= m - 1
      BY Zenon DEF Loaded
<1>7. /\ s = [i \in 1..n |-> s[i]] /\ t = [i \in 1..n |-> t[i]]
      /\ \A i \in 1..n : s[i] = IF records'[i] = "loaded" THEN offered(i) ELSE <<>>
      /\ \A i \in 1..n : t[i] = IF records[i] = "loaded" THEN offered(i) ELSE <<>>
      BY <1>1, Zenon
<1>8. \A i \in 1..n : i # m => t[i] = s[i]
      BY <1>1, <1>7, Zenon
<1>9. t[m] = <<>> /\ s[m] = IF verdict = "loaded" THEN offered(m) ELSE <<>>
      BY <1>1, <1>7, Zenon DEF LoadedFiles
<1>10. \A i \in (m + 1)..n : s[i] = <<>>
  <2>1. ASSUME NEW i \in (m + 1)..n PROVE i \in 1..n /\ i # m /\ ~(i <= m - 1)
        BY <1>1, <1>2
  <2>2. \A i \in (m + 1)..n : records[i] # "loaded" /\ records'[i] # "loaded"
        BY <1>1, <1>6, <2>1, Zenon DEF LoadedFiles
  <2> QED BY <1>7, <2>1, <2>2, Zenon
<1> HIDE DEF s, t
<1>11. \A i \in 1..n : IsList(s[i]) /\ IsList(t[i])
       BY <1>3, <1>7, Joins, Zenon
<1> HIDE DEF n, offered
<1>12. PICK D : s \in Seq(Seq(D)) /\ t \in Seq(Seq(D)) /\ Len(s) = n /\ Len(t) = n
  <2> DEFINE A == UNION {{s[i][j] : j \in DOMAIN s[i]} : i \in 1..n}
             B == UNION {{t[i][j] : j \in DOMAIN t[i]} : i \in 1..n}
             C == A \cup B
  <2>1. s \in Seq(Seq(A))
    <3>1. \A i \in 1..n : IsList(s[i])
          BY <1>11, Zenon
    <3> QED BY <1>2, <1>7, <3>1, ListOfLists
  <2>2. t \in Seq(Seq(B))
    <3>1. \A i \in 1..n : IsList(t[i])
          BY <1>11, Zenon
    <3> QED BY <1>2, <1>7, <3>1, ListOfLists
  <2> HIDE DEF A, B
  <2>3. Seq(A) \subseteq Seq(C) /\ Seq(B) \subseteq Seq(C)
        OBVIOUS
  <2> DEFINE SA == Seq(A)
             SB == Seq(B)
             SC == Seq(C)
  <2>4. SA \subseteq SC /\ SB \subseteq SC /\ s \in Seq(SA) /\ t \in Seq(SB)
        BY <2>1, <2>2, <2>3, Zenon
  <2>5. DOMAIN s = 1..n /\ DOMAIN t = 1..n
        BY <1>7, Zenon
  <2> HIDE DEF SA, SB, SC
  <2>6. s \in Seq(SC) /\ t \in Seq(SC) /\ Len(s) = n /\ Len(t) = n
        BY <1>2, <2>4, <2>5
  <2> QED BY <2>6, Zenon DEF SC
<1>13. FlattenSeq(s) = FlattenSeq(t) \o s[m]
  <2>1. m \in 1..Len(s) /\ Len(t) = Len(s) /\ \A k \in (m + 1)..Len(s) : s[k] = <<>>
        BY <1>1, <1>10, <1>12, Zenon
  <2>2. \A k \in 1..Len(s) : k # m => t[k] = s[k]
        BY <1>8, <1>12, Zenon
  <2> QED BY <1>9, <1>12, <2>1, <2>2, FlatLast, Zenon
<1>14. IsList(FlattenSeq(t))
       BY <1>12, FlatType, Zenon DEF IsList
<1>15. CASE verdict = "loaded"
       BY <1>4, <1>5, <1>9, <1>13, <1>15, Zenon DEF offered
<1>16. CASE verdict # "loaded"
  <2>1. FlattenSeq(t) \o <<>> = FlattenSeq(t)
        BY <1>14, Joins, Zenon
  <2> QED BY <1>4, <1>5, <1>9, <1>13, <1>16, <2>1, Zenon
<1> QED BY <1>15, <1>16, Zenon

\* With its verdict recorded, a plugin is whole or absent.
LEMMA RecordedBetween ==
    ASSUME user \in Users, UNCHANGED <<user, enabled, allowed, slots, hooks>>, bundle' = <<>>,
           NEW m, IsNext(m), Loaded(m - 1), NEW verdict, records' = [records EXCEPT ![m] = verdict],
           Owned(slots),
           slots = IF verdict = "loaded" THEN LoadedSlots \cup Offers(user.files[m]) ELSE LoadedSlots,
           \A kind \in Range(HookKinds) :
              hooks[kind] = IF verdict = "loaded" THEN LoadedHooks(kind) \o HooksOffered(user.files[m], kind)
                            ELSE LoadedHooks(kind),
           work' = Remaining(m) \o After
    PROVE  Between(m)'
<1>1. /\ user' = user /\ enabled' = enabled /\ allowed' = allowed /\ slots' = slots /\ hooks' = hooks
      OBVIOUS
<1>2. /\ m \in 1..Len(user.files) /\ Loaded(m)'
      /\ LoadedFiles' = IF verdict = "loaded" THEN LoadedFiles \cup {m} ELSE LoadedFiles
      BY FilesRecorded, Zenon
<1>3. HooksGrow(m, verdict)
      BY HooksRecorded, Zenon
<1>4. LoadedSlots' = slots
  <2> DEFINE o(i) == Offers(user.files[i])
  <2>1. \A i : Offers(user.files[i])' = o(i)
        BY <1>1, FrozenOffers, Zenon
  <2>2. LoadedSlots' = UNION {o(i) : i \in LoadedFiles'}
        BY <2>1, Zenon DEF LoadedSlots
  <2>3. LoadedSlots = UNION {o(i) : i \in LoadedFiles}
        BY Zenon DEF LoadedSlots
  <2>4. slots = IF verdict = "loaded" THEN LoadedSlots \cup o(m) ELSE LoadedSlots
        OBVIOUS
  <2> HIDE DEF o
  <2>5. UNION {o(i) : i \in LoadedFiles \cup {m}} = (UNION {o(i) : i \in LoadedFiles}) \cup o(m)
        BY Zenon
  <2>6. CASE verdict = "loaded"
        BY <1>2, <2>2, <2>3, <2>4, <2>5, <2>6, Zenon
  <2>7. CASE verdict # "loaded"
        BY <1>2, <2>2, <2>3, <2>4, <2>7, Zenon
  <2> QED BY <2>6, <2>7, Zenon
<1>5. Whole(m)'
  <2>1. Owned(slots)'
        BY <1>1, Zenon DEF Owned
  <2>2. \A kind \in Range(HookKinds) : hooks'[kind] = LoadedHooks(kind)'
        BY <1>1, <1>3, Zenon DEF HooksGrow
  <2> QED BY <1>1, <1>2, <1>4, <2>1, <2>2, Zenon DEF Whole
<1>6. (Remaining(m) \o After)' = Remaining(m) \o After
      BY <1>1, Frozen, Zenon
<1>7. (m \in 0..Len(user.files))'
  <2>1. m \in 0..Len(user.files)
        BY <1>2
  <2> QED BY <1>1, <2>1, Zenon
<1> QED BY <1>5, <1>6, <1>7, Zenon DEF Between

\* A recorded verdict keeps the invariant.
LEMMA RecordedInv ==
    ASSUME user \in Users, Typed, StagedTyped, UNCHANGED <<user, startupHooks, hooks>>, bundle' = <<>>,
           NEW m, Between(m)'
    PROVE  IInv'
<1>1. user' = user /\ hooks' = hooks /\ startupHooks' \in Seq(Program)
  <2>1. startupHooks' = startupHooks
        OBVIOUS
  <2> QED BY <2>1, Zenon DEF Typed
<1>2. Typed'
      BY <1>1, TypedKept, Zenon
<1>3. StagedTyped'
      BY <1>1, Zenon DEF StagedTyped
<1> QED BY <1>1, <1>2, <1>3, Zenon DEF IInv, Phases

\* What the end of a register does.
LEMMA EndOfRegister ==
    ASSUME NEW m, NEW raised, This = RegisterEnd(m, raised), Step
    PROVE  /\ records' = [records EXCEPT ![m] = IF raised THEN "failed" ELSE "loaded"] /\ bundle' = <<>>
           /\ UNCHANGED <<user, startupHooks, enabled, allowed, slots, hooks>>
           /\ work' = Tail(work)
<1>1. This.do = "end" /\ This.frame = "register" /\ This.raised = raised /\ This.of = m
      BY DEF RegisterEnd
<1>2. EndFrame
      BY <1>1, StepOf, Zenon
<1>3. This.frame # "typed" /\ This.frame # "prompt"
      BY <1>1
<1>4. work' = Tail(work) /\ UNCHANGED <<user, startupHooks>> /\ Recorded(This.of, This.raised)
      BY <1>1, <1>2, <1>3, Zenon DEF EndFrame, ByUser
<1>5. Recorded(m, raised)
      BY <1>1, <1>4, Zenon
<1> QED BY <1>4, <1>5, Zenon DEF Recorded

\* After the last table, the end of the register.
LEMMA CommittingEnd ==
    ASSUME user \in Users, Typed, StagedTyped, NEW m, Committing(m, 6), Step
    PROVE  IInv'
<1> DEFINE file == user.files[m]
<1>1. This = RegisterEnd(m, FALSE) /\ Tail(work) = Remaining(m) \o After
      BY CommittingIs, Zenon
<1>2. /\ records' = [records EXCEPT ![m] = "loaded"] /\ bundle' = <<>>
      /\ UNCHANGED <<user, startupHooks, enabled, allowed, slots, hooks>>
      /\ work' = Tail(work)
      BY <1>1, EndOfRegister, Zenon
<1>3. /\ IsNext(m) /\ Loaded(m - 1) /\ Owned(LoadedSlots \cup Offers(file))
      /\ slots = LoadedSlots \cup {s \in Offers(file) : s[1] \in Published(6)}
      /\ \A kind \in Range(HookKinds) :
            hooks[kind] = LoadedHooks(kind) \o (IF kind \in Published(6) THEN HooksOffered(file, kind) ELSE <<>>)
      BY Zenon DEF Committing
<1>4. \A kind \in Range(SlotKinds) \cup Range(HookKinds) : kind \in Published(6)
      BY PublishedNext, Zenon
<1>5. {s \in Offers(file) : s[1] \in Published(6)} = Offers(file)
  <2>1. \A s \in Offers(file) : s[1] \in Published(6)
        BY <1>4, OffersNames, Zenon
  <2> DEFINE O == Offers(file)
             P == Published(6)
  <2> HIDE DEF O, P
  <2>2. \A s \in O : s[1] \in P
        BY <2>1, Zenon DEF O, P
  <2>3. {s \in O : s[1] \in P} = O
        BY <2>2
  <2> QED BY <2>3, Zenon DEF O, P
<1>6. slots = LoadedSlots \cup Offers(file) /\ Owned(slots)
      BY <1>3, <1>5, Zenon
<1>7. \A kind \in Range(HookKinds) : hooks[kind] = LoadedHooks(kind) \o HooksOffered(file, kind)
      BY <1>3, <1>4, Zenon
<1>8. Between(m)'
      BY <1>1, <1>2, <1>3, <1>6, <1>7, RecordedBetween, Zenon
<1> QED BY <1>2, <1>8, RecordedInv, Zenon

\* An abandoned register is at its end.
LEMMA AbandonedIs ==
    ASSUME user \in Users, NEW m, Abandoned(m)
    PROVE  This = RegisterEnd(m, TRUE) /\ Tail(work) = Remaining(m) \o After /\ work # <<>>
<1>1. work = <<RegisterEnd(m, TRUE)>> \o (Remaining(m) \o After)
      BY Zenon DEF Abandoned, Ending
<1>2. IsList(Remaining(m) \o After)
      BY PartsAreLists, Zenon
<1> QED BY <1>1, <1>2, HeadOf, Zenon

\* An abandoned register ends: the plugin has failed.
LEMMA AbandonedStep ==
    ASSUME user \in Users, Typed, StagedTyped, NEW m, Abandoned(m), Step
    PROVE  IInv'
<1>1. This = RegisterEnd(m, TRUE) /\ Tail(work) = Remaining(m) \o After
      BY AbandonedIs, Zenon
<1>2. /\ records' = [records EXCEPT ![m] = "failed"] /\ bundle' = <<>>
      /\ UNCHANGED <<user, startupHooks, enabled, allowed, slots, hooks>>
      /\ work' = Tail(work)
      BY <1>1, EndOfRegister, Zenon
<1>3. IsNext(m) /\ Loaded(m - 1) /\ Owned(slots) /\ slots = LoadedSlots
      /\ \A kind \in Range(HookKinds) : hooks[kind] = LoadedHooks(kind)
      BY Zenon DEF Abandoned, Whole
<1>4. "failed" # "loaded"
      OBVIOUS
<1>5. Between(m)'
      BY <1>1, <1>2, <1>3, <1>4, RecordedBetween, Zenon
<1> QED BY <1>2, <1>5, RecordedInv, Zenon

\* Ctrl+C at that moment leaves it abandoned.
LEMMA AbandonedCtrlC ==
    ASSUME user \in Users, Typed, StagedTyped, NEW m, Abandoned(m), CtrlC
    PROVE  IInv'
<1>1. work' = Unwound("quit") /\ UNCHANGED <<user, plugins, startupHooks>>
      BY CtrlCThrows
<1>2. work = Ending(m, TRUE) /\ IsNext(m) /\ Whole(m - 1)
      BY Zenon DEF Abandoned
<1>3. work' = UnwoundIn(Ending(m, TRUE), "quit")
      BY <1>1, <1>2, UnwoundIs, Zenon
<1>4. "quit" \in {"error", "quit"}
      OBVIOUS
<1>5. work' = Ending(m, TRUE)
      BY <1>3, <1>4, EndingUnwinds, Zenon
<1>6. UNCHANGED <<user, plugins>> /\ startupHooks' \in Seq(Program)
      BY <1>1, Zenon DEF Typed
<1> QED BY <1>2, <1>5, <1>6, AbandonedInv, Zenon

\* The assumption: no Ctrl+C between two tables.
LEMMA CommittingCtrlC ==
    ASSUME user \in Users, NEW m, NEW j, Committing(m, j), ~WhilePublishing
    PROVE  ~CtrlC
<1>1. Publishing
  <2>1. CASE j # 6
    <3>1. This = [do |-> "publish", key |-> KindAt(j + 1)] /\ work # <<>>
          BY <2>1, CommittingIs, Zenon
    <3>2. This.do = "publish"
          BY <3>1
    <3> QED BY <3>1, <3>2, Zenon DEF Publishing, Doing, This
  <2>2. CASE j = 6
    <3>1. This = RegisterEnd(m, FALSE) /\ work # <<>>
          BY <2>2, CommittingIs, Zenon
    <3>2. This.do = "end" /\ This.frame = "register" /\ This.raised = FALSE
          BY <3>1 DEF RegisterEnd
    <3> QED BY <3>1, <3>2, Zenon DEF Publishing, Doing, This
  <2> QED BY <2>1, <2>2
<1> QED BY <1>1, Zenon DEF CtrlC

\* Validation: a conflict raises, with nothing published.
LEMMA RegisteringValidate ==
    ASSUME user \in Users, Typed, StagedTyped, NEW m, NEW k, Registering(m, k, <<>>), k = Len(Register(m)), Step
    PROVE  IInv'
<1>1. /\ This = [do |-> "validate"]
      /\ Tail(work) = Publications \o Ending(m, FALSE) /\ IsList(Publications \o Ending(m, FALSE))
      BY RegisteringDone, Zenon
<1>2. This.do = "validate"
      BY <1>1
<1>3. Validate
      BY <1>2, StepOf, Zenon
<1>4. UNCHANGED <<user, plugins, startupHooks>>
      BY <1>3, Zenon DEF Validate, ByUser
<1>5. CASE Conflicts
  <2>1. Raise("error")
        BY <1>3, <1>5, Zenon DEF Validate
  <2>2. "error" \in {"error", "quit"}
        OBVIOUS
  <2>3. Throws
        BY <2>1, <2>2, RaiseThrows, Zenon
  <2> QED BY <1>4, <2>3, RegisteringThrows, Zenon
<1>6. CASE ~Conflicts
  <2>1. work' = <<>> \o Tail(work)
        BY <1>3, <1>6, Zenon DEF Validate, Then
  <2>2. work' = Publications \o Ending(m, FALSE)
        BY <1>1, <2>1, Joins, Zenon
  <2>3. Committing(m, 0)'
        BY <1>4, <1>6, <2>2, CommittingStarts, Zenon
  <2>4. user' = user /\ hooks' = hooks /\ bundle' = bundle /\ startupHooks' \in Seq(Program)
        BY <1>4, Zenon DEF plugins, Typed
  <2>5. Typed' /\ StagedTyped'
        BY <2>4, TypedKept, StagedKept, Zenon
  <2> QED BY <2>3, <2>4, <2>5, Zenon DEF IInv, Phases
<1> QED BY <1>5, <1>6

(***************************************************************************)
(* When the plugins are loaded, or none will be.                           *)
(***************************************************************************)
LEMMA FinishedServed == ASSUME user \in Users, Finished PROVE Served
BY NoSlotsServed, WholeServed, Zenon DEF Finished

\* When the plugins are loaded, steps that leave their tables alone keep the invariant.
LEMMA FinishedInv ==
    ASSUME user \in Users, Typed, StagedTyped, Finished, UNCHANGED <<user, plugins>>,
           startupHooks' \in Seq(Program), List(work', LateWork)
    PROVE  IInv'
<1>1. user' = user /\ hooks' = hooks /\ bundle' = bundle
      BY Zenon DEF plugins
<1>2. Typed' /\ StagedTyped'
      BY <1>1, TypedKept, StagedKept, Zenon
<1>3. Finished'
      BY FinishedTo, Zenon DEF Finished
<1> QED BY <1>1, <1>2, <1>3, Zenon DEF IInv, Phases

\* The user's startup hooks are quiet.
LEMMA UserHooksFit ==
    ASSUME startupHooks \in Seq(Program)
    PROVE  List(FlattenSeq([i \in DOMAIN startupHooks |-> startupHooks[i] \o <<EndOf("user hook")>>]), QuietWork)
<1> DEFINE h == startupHooks
           n == Len(h)
           e == <<EndOf("user hook")>>
           s == [i \in DOMAIN h |-> h[i] \o e]
<1>1. n \in Nat /\ DOMAIN h = 1..n /\ \A i \in 1..n : h[i] \in Program
      BY DEF Program
<1>2. List(e, QuietWork)
  <2>1. Fits(EndOf("user hook"), QuietWork)
        BY EndQuiet DEF QuietFrames
  <2> QED BY <2>1, ListOne, Zenon
<1> HIDE DEF e, n, h
<1>3. ASSUME NEW i \in 1..n PROVE List(h[i] \o e, QuietWork)
  <2>1. List(h[i], QuietWork)
        BY <1>1, ListOfCode
  <2> QED BY <1>2, <2>1, ListJoin, Zenon
<1>4. s = [i \in 1..n |-> s[i]] /\ \A i \in 1..n : List(s[i], QuietWork)
      BY <1>1, <1>3, Zenon
<1> HIDE DEF s
<1>5. List(FlattenSeq(s), QuietWork)
      BY <1>1, <1>4, ListFlat
<1> QED BY <1>5, Zenon DEF s, e, h

\* The hooks of the end are late work.
LEMMA ClosingFits == ASSUME Typed PROVE List(Closing, LateWork)
<1>1. "shutdown" \in Range(HookKinds)
      BY Kinds
<1>2. List(Run("shutdown"), LateWork)
      BY <1>1, RunFits, Zenon
<1>3. Fits([do |-> "save"], LateWork)
      BY DEF Fits, Late
<1>4. List(<<[do |-> "save"]>>, LateWork)
      BY <1>3, ListOne, Zenon
<1> QED BY <1>2, <1>4, ListJoin, Zenon DEF Closing

\* So is drawing the prompt.
LEMMA RenderingFits == ASSUME Served PROVE List(Rendering, LateWork)
<1> DEFINE T == {s \in slots : s[1] = "segment"}
           segments == SetToSeq(T)
           n == Cardinality(T)
           f == [i \in DOMAIN segments |-> Contained(Handler(segments[i]))]
           e == <<EndOf("prompt")>>
<1>1. IsFiniteSet(T)
  <2>1. T \subseteq slots /\ IsFiniteSet(slots)
        BY Zenon DEF Served
  <2> QED BY <2>1, FS_Subset, Zenon
<1>2. \A s \in T : Handler(s) \in Program
      BY Zenon DEF Served
<1>p. Fits(EndOf("prompt"), LateWork)
      BY DEF EndOf, Fits, Late, EndItem
<1>3. List(e, LateWork)
      BY <1>p, ListOne, Zenon
<1> HIDE DEF T
<1>4. segments \in [1..n -> T] /\ n \in Nat
      BY <1>1, Listed, Zenon
<1> HIDE DEF segments, n
<1>5. f = [i \in 1..n |-> f[i]] /\ \A i \in 1..n : f[i] = Contained(Handler(segments[i]))
  <2>1. DOMAIN segments = 1..n
        BY <1>4
  <2> QED BY <2>1, Zenon
<1>6. ASSUME NEW i \in 1..n PROVE List(f[i], LateWork)
  <2>1. segments[i] \in T
        BY <1>4
  <2>2. List(Contained(Handler(segments[i])), QuietWork)
        BY <1>2, <2>1, ContainedQuiet
  <2> QED BY <1>5, <2>2, ListWeaker, Zenon
<1> HIDE DEF f
<1>7. List(FlattenSeq(f), LateWork)
      BY <1>4, <1>5, <1>6, ListFlat
<1>8. List(FlattenSeq(f) \o e, LateWork)
      BY <1>3, <1>7, ListJoin, Zenon
<1>9. Rendering = IF segments = <<>> THEN <<>> ELSE FlattenSeq(f) \o e
      BY Zenon DEF Rendering, segments, T, f
<1> QED BY <1>8, <1>9, ListEmpty, Zenon

\* What the session does with its plugins loaded.
LEMMA LateMoves ==
    ASSUME user \in Users, Typed, List(work, LateWork), work # <<>>, Late(This), Step
    PROVE  UNCHANGED <<user, plugins, startupHooks>> /\ List(work', LateWork)
<1> DEFINE Kept == UNCHANGED <<user, plugins, startupHooks>>
<1>t. List(Tail(work), LateWork)
      BY ListHead, Zenon
<1>a. ASSUME NEW calls, List(calls, LateWork), Then(calls) PROVE List(work', LateWork)
      BY <1>a, <1>t, ListJoin, Zenon DEF Then
<1>1. CASE This.do = "run"
  <2>1. RunHook
        BY <1>1, StepOf, Zenon
  <2>2. Kept /\ Then(<<>>)
        BY <2>1, Zenon DEF RunHook, ByUser
  <2> QED BY <1>a, <2>2, ListEmpty, Zenon
<1>2. CASE This.do = "save"
  <2>1. Save
        BY <1>2, StepOf, Zenon
  <2>2. Kept /\ work' = <<>>
        BY <2>1, Zenon DEF Save, ByUser
  <2> QED BY <2>2, ListEmpty, Zenon
<1>3. CASE This \in {Phase("user hooks"), Phase("plugin hooks")}
  <2>1. This.do = "phase" /\ This.key \in {"user hooks", "plugin hooks"}
    <3>1. ASSUME NEW key \in {"user hooks", "plugin hooks"}, This = Phase(key)
          PROVE  This.do = "phase" /\ This.key \in {"user hooks", "plugin hooks"}
          BY <3>1 DEF Phase
    <3> QED BY <1>3, <3>1, Zenon
  <2>2. RunStartupHooks
        BY <2>1, StepOf, Zenon
  <2> DEFINE calls == FlattenSeq([i \in DOMAIN startupHooks |-> startupHooks[i] \o <<EndOf("user hook")>>])
  <2>3. Kept /\ (Then(calls) \/ Then(Run("startup")))
        BY <2>2, Zenon DEF RunStartupHooks, ByUser
  <2>4. List(calls, LateWork)
        BY UserHooksFit, ListWeaker, Zenon DEF Typed
  <2>5. List(Run("startup"), LateWork)
    <3>1. "startup" \in Range(HookKinds)
          BY Kinds
    <3> QED BY <3>1, RunFits, Zenon
  <2> HIDE DEF calls
  <2> QED BY <1>a, <2>3, <2>4, <2>5, Zenon
<1>4. CASE This = Phase("prompt")
  <2>1. This.do = "phase" /\ This.key = "prompt"
        BY <1>4 DEF Phase
  <2>2. StartPrompt
        BY <2>1, StepOf, Zenon
  <2>3. Kept /\ work' = Tail(work)
        BY <2>2, Zenon DEF StartPrompt, ByUser
  <2> QED BY <1>t, <2>3, Zenon
<1>5. CASE This \in EndItem({"typed", "prompt"})
  <2>1. This.do = "end" /\ This.frame # "register"
        BY <1>5 DEF EndItem
  <2>2. EndFrame
        BY <2>1, StepOf, Zenon
  <2>3. Kept
        BY <2>1, <2>2, Zenon DEF EndFrame, ByUser
  <2>4. work' = Closing \/ work' = <<>> \/ work' = Tail(work)
        BY <2>2, Zenon DEF EndFrame
  <2> QED BY <1>t, <2>3, <2>4, ClosingFits, ListEmpty, Zenon
<1>6. \/ This.do = "run" \/ This.do = "save" \/ This \in {Phase("user hooks"), Phase("plugin hooks")}
      \/ This = Phase("prompt") \/ This \in EndItem({"typed", "prompt"})
      BY DEF Late
<1> QED BY <1>1, <1>2, <1>3, <1>4, <1>5, <1>6, Zenon

\* An exception leaves late work late.
LEMMA LateThrows ==
    ASSUME NEW level, List(work, level), Throws
    PROVE  List(work', level)
<1>1. PICK kind \in {"error", "quit"} : work' = Unwound(kind)
      BY Zenon DEF Throws
<1>2. IsList(work) /\ IsList(<<>>)
      BY Joins, Zenon DEF List
<1>3. work \o <<>> = work
      BY <1>2, Joins, Zenon
<1>4. \/ UnwoundIn(work \o <<>>, kind) = UnwoundIn(<<>>, kind)
      \/ \E r : List(r, level) /\ UnwoundIn(work \o <<>>, kind) = r \o <<>>
  <2> DEFINE y == <<>>
  <2>1. IsList(y)
        BY <1>2
  <2> HIDE DEF y
  <2>2. \/ UnwoundIn(work \o y, kind) = UnwoundIn(y, kind)
        \/ \E r : List(r, level) /\ UnwoundIn(work \o y, kind) = r \o y
        BY <2>1, Unwinding
  <2> QED BY <2>2 DEF y
<1>5. UnwoundIn(<<>>, kind) = <<>>
  <2>1. DOMAIN <<>> = {}
        OBVIOUS
  <2>2. Catching(<<>>, kind) = {}
        BY <2>1, Zenon DEF Catching
  <2> QED BY <2>2, UnwindsNot, Zenon
<1>6. work' = UnwoundIn(work \o <<>>, kind)
      BY <1>1, <1>3, UnwoundIs, Zenon
<1>7. \A r : List(r, level) => r \o <<>> = r
      BY Joins, Zenon DEF List
<1> QED BY <1>4, <1>5, <1>6, <1>7, ListEmpty, Zenon

\* When the plugins are loaded, one step of the work.
LEMMA FinishedStep ==
    ASSUME user \in Users, Typed, StagedTyped, Finished, Step
    PROVE  IInv'
<1>1. List(work, LateWork) /\ IsList(work)
      BY Zenon DEF Finished, List
<1>2. CASE work # <<>>
  <2>1. Fits(This, LateWork)
        BY <1>1, <1>2, ListHead, Zenon DEF This
  <2>2. Quiet(This) \/ Late(This)
        BY <2>1, Levels, Zenon DEF Fits
  <2>3. UNCHANGED <<user, plugins>> /\ startupHooks' \in Seq(Program) /\ List(work', LateWork)
    <3>1. CASE Quiet(This)
      <4>1. Served
            BY FinishedServed, Zenon
      <4>2. /\ UNCHANGED <<user, plugins>> /\ startupHooks' \in Seq(Program)
            /\ Adds(QuietWork) \/ Throws
            BY <1>1, <1>2, <3>1, <4>1, QuietStep, Zenon
      <4>3. CASE Adds(QuietWork)
        <5>1. PICK new : List(new, QuietWork) /\ work' = new \o Tail(work)
              BY <4>3, Zenon DEF Adds
        <5>2. List(new, LateWork) /\ List(Tail(work), LateWork)
              BY <1>1, <1>2, <5>1, ListWeaker, ListHead, Zenon
        <5> QED BY <4>2, <5>1, <5>2, ListJoin, Zenon
      <4>4. CASE Throws
            BY <1>1, <4>2, <4>4, LateThrows, Zenon
      <4> QED BY <4>2, <4>3, <4>4
    <3>2. CASE Late(This)
      <4>1. UNCHANGED <<user, plugins, startupHooks>> /\ List(work', LateWork)
            BY <1>1, <1>2, <3>2, LateMoves, Zenon
      <4>2. startupHooks' \in Seq(Program) /\ UNCHANGED <<user, plugins>>
            BY <4>1, Zenon DEF Typed
      <4> QED BY <4>1, <4>2, Zenon
    <3> QED BY <2>2, <3>1, <3>2, Zenon
  <2> QED BY <2>3, FinishedInv, Zenon
<1>3. CASE work = <<>>
  <2>1. work # <<>>
    <3>1. BeginFile \/ RunIf \/ RunFor \/ SetLoopvar \/ RunWhile \/ RegisterHook \/ Throw => work # <<>>
          BY Zenon DEF BeginFile, RunIf, RunFor, SetLoopvar, RunWhile, RegisterHook, Throw, Doing
    <3>2. Configure \/ TellEngine \/ RefuseSetting \/ EnablePlugin \/ PutVariable \/ Notice => work # <<>>
          BY Zenon DEF Configure, Calls, TellEngine, RefuseSetting, EnablePlugin, PutVariable, Notice, Doing
    <3>3. AssignVariable \/ ExportVariable \/ SourceFile \/ Activate \/ Deactivate => work # <<>>
          BY Zenon DEF AssignVariable, ExportVariable, SourceFile, Activate, Deactivate, Doing
    <3>4. PutLocalsBack \/ ImportProfile \/ LoadPlugin \/ StageCall \/ Validate => work # <<>>
          BY Zenon DEF PutLocalsBack, ImportProfile, LoadPlugin, StageCall, Validate, Doing
    <3>5. PublishTable \/ RunHook \/ InvokeCommand \/ LoadDeclarative \/ LoadPython => work # <<>>
          BY Zenon DEF PublishTable, RunHook, InvokeCommand, LoadDeclarative, LoadPython, InPhase, Doing
    <3>6. DiscoverPlugins \/ RunStartupHooks \/ StartPrompt \/ EndFrame \/ Save => work # <<>>
          BY Zenon DEF DiscoverPlugins, RunStartupHooks, StartPrompt, EndFrame, Save, InPhase, Doing
    <3> QED BY <3>1, <3>2, <3>3, <3>4, <3>5, <3>6, Zenon DEF Step
  <2> QED BY <1>3, <2>1
<1> QED BY <1>2, <1>3

\* When the plugins are loaded, Ctrl+C.
LEMMA FinishedCtrlC ==
    ASSUME user \in Users, Typed, StagedTyped, Finished, CtrlC
    PROVE  IInv'
<1>1. Throws /\ UNCHANGED <<user, plugins, startupHooks>>
      BY CtrlCThrows
<1>2. List(work', LateWork)
      BY <1>1, LateThrows, Zenon DEF Finished
<1>3. UNCHANGED <<user, plugins>> /\ startupHooks' \in Seq(Program)
      BY <1>1, Zenon DEF Typed
<1> QED BY <1>2, <1>3, FinishedInv, Zenon

\* When the plugins are loaded, a line from the user or the end of the input.
LEMMA FinishedLine ==
    ASSUME user \in Users, Typed, StagedTyped, Finished, TypeLine \/ EndOfInput
    PROVE  IInv'
<1>1. UNCHANGED <<user, plugins, startupHooks>>
      BY Zenon DEF TypeLine, EndOfInput, ByUser
<1>2. UNCHANGED <<user, plugins>> /\ startupHooks' \in Seq(Program)
      BY <1>1, Zenon DEF Typed
<1>3. CASE TypeLine
  <2>1. PICK call \in user.lines : work' = Rendering \o <<call, EndOf("typed")>>
        BY <1>3, Zenon DEF TypeLine
  <2>2. Fits(call, LateWork)
    <3>1. call \in Code
          BY <2>1, UsersAssumption
    <3> QED BY <3>1, CodeAssumption DEF Fits, Quiet
  <2>3. Fits(EndOf("typed"), LateWork)
        BY DEF EndOf, Fits, Late, EndItem
  <2>4. List(<<call, EndOf("typed")>>, LateWork)
        BY <2>2, <2>3, ListPair, Zenon
  <2>5. List(Rendering, LateWork)
        BY FinishedServed, RenderingFits, Zenon
  <2>6. List(work', LateWork)
        BY <2>1, <2>4, <2>5, ListJoin, Zenon
  <2> QED BY <1>2, <2>6, FinishedInv, Zenon
<1>4. CASE EndOfInput
  <2>1. List(work', LateWork)
        BY <1>4, ClosingFits, Zenon DEF EndOfInput
  <2> QED BY <1>2, <2>1, FinishedInv, Zenon
<1> QED BY <1>3, <1>4

\* Ctrl+C before a plugin is read.
LEMMA DueCtrlC ==
    ASSUME user \in Users, Typed, StagedTyped, NEW i, Due(i), CtrlC
    PROVE  IInv'
BY CtrlCThrows, DueThrows, Zenon

\* Ctrl+C inside a register.
LEMMA RegisteringCtrlC ==
    ASSUME user \in Users, Typed, StagedTyped, NEW m, NEW k, NEW q, Registering(m, k, q), CtrlC
    PROVE  IInv'
BY CtrlCThrows, RegisteringThrows, Zenon

\* Inside a register, one step of the work.
LEMMA RegisteringStep ==
    ASSUME user \in Users, Typed, StagedTyped, NEW m, NEW k, NEW q, Registering(m, k, q), Step
    PROVE  IInv'
<1>1. CASE q # <<>>
      BY <1>1, RegisteringQuiet, Zenon
<1>2. CASE q = <<>>
  <2>1. Registering(m, k, <<>>)
        BY <1>2
  <2>2. k < Len(Register(m)) \/ k = Len(Register(m))
    <3>1. k \in 0..Len(Register(m)) /\ Len(Register(m)) \in Nat
      <4>1. m \in DOMAIN user.files /\ k \in 0..Len(Register(m))
            BY RegisteringIs, Zenon
      <4> QED BY <4>1, RegisterIs, Zenon
    <3> QED BY <3>1
  <2>3. CASE k < Len(Register(m)) /\ Register(m)[k + 1].do # "stage"
        BY <2>1, <2>3, RegisteringCall, Zenon
  <2>4. CASE k < Len(Register(m)) /\ Register(m)[k + 1].do = "stage"
        BY <2>1, <2>4, RegisteringStage, Zenon
  <2>5. CASE k = Len(Register(m))
        BY <2>1, <2>5, RegisteringValidate, Zenon
  <2> QED BY <2>2, <2>3, <2>4, <2>5, Zenon
<1> QED BY <1>1, <1>2

\* Inside a register there is work.
LEMMA RegisteringWorks ==
    ASSUME user \in Users, NEW m, NEW k, NEW q, Registering(m, k, q)
    PROVE  work # <<>>
<1> DEFINE rest == Rest(Register(m), k) \o Committal(m)
<1>1. /\ m \in DOMAIN user.files /\ k \in 0..Len(Register(m)) /\ IsList(q)
      /\ IsList(rest) /\ work = q \o rest
      BY RegisteringIs, Zenon
<1>2. Committal(m) # <<>>
  <2> DEFINE v == <<[do |-> "validate"]>>
             e == Publications \o Ending(m, FALSE)
  <2>1. v # <<>>
        OBVIOUS
  <2>2. IsList(v) /\ IsList(e) /\ Committal(m) = v \o e
        BY PartsAreLists, Joins, Zenon DEF Committal
  <2> HIDE DEF v, e
  <2>3. v \o e # <<>>
        BY <2>1, <2>2, Ends
  <2> QED BY <2>2, <2>3, Zenon
<1>3. rest # <<>>
  <2> DEFINE r == Rest(Register(m), k)
             p == Committal(m)
  <2>1. IsList(r) /\ IsList(p)
        BY <1>1, RegisterIs, RestIs, PartsAreLists, Zenon
  <2>2. p # <<>>
        BY <1>2
  <2> HIDE DEF r, p
  <2>3. r \o p # <<>>
        BY <2>1, <2>2, Ends
  <2> QED BY <2>3 DEF r, p
<1> HIDE DEF rest
<1>4. q \o rest # <<>>
      BY <1>1, <1>3, Ends
<1> QED BY <1>1, <1>4, Zenon

(***************************************************************************)
(* The invariant of the session.                                           *)
(***************************************************************************)
LEMMA DropinsQuiet ==
    ASSUME NEW files \in Seq(Program)
    PROVE  List(FlattenSeq([i \in DOMAIN files |-> File(files[i], "drop-in")]), QuietWork)
<1> DEFINE n == Len(files)
           s == [i \in DOMAIN files |-> File(files[i], "drop-in")]
<1>1. n \in Nat /\ DOMAIN files = 1..n /\ \A i \in 1..n : files[i] \in Program
      BY DEF Program
<1> HIDE DEF n
<1>2. "drop-in" \in QuietFrames
      BY DEF QuietFrames
<1>3. ASSUME NEW i \in 1..n PROVE List(File(files[i], "drop-in"), QuietWork)
      BY <1>1, <1>2, FileQuiet
<1>4. s = [i \in 1..n |-> s[i]] /\ \A i \in 1..n : List(s[i], QuietWork)
      BY <1>1, <1>3, Zenon
<1> HIDE DEF s
<1>5. List(FlattenSeq(s), QuietWork)
      BY <1>1, <1>4, ListFlat
<1> QED BY <1>5 DEF s

JoinsAlike(q, d, a, b, c) == (((q \o d) \o a) \o b) \o c = q \o (d \o ((a \o b) \o c))

\* Five lists joined, the first apart.
LEMMA FiveJoined ==
    ASSUME NEW q, NEW d, NEW a, NEW b, NEW c, IsList(q), IsList(d), IsList(a), IsList(b), IsList(c)
    PROVE  JoinsAlike(q, d, a, b, c)
<1>1. IsList(q \o d) /\ IsList(a \o b)
      BY JoinIsList, Zenon
<1>2. IsList((a \o b) \o c)
      BY <1>1, JoinIsList, Zenon
<1>3. JoinsEitherWay(q \o d, a, b) /\ JoinsEitherWay(q \o d, a \o b, c)
      BY <1>1, ThreeJoined, Zenon
<1>4. JoinsEitherWay(q, d, (a \o b) \o c)
      BY <1>2, ThreeJoined, Zenon
<1> QED BY <1>3, <1>4, Zenon DEF JoinsAlike, JoinsEitherWay

\* The start of a session that reads its files discovers plugins once.
LEMMA StartsAwaiting ==
    ASSUME user \in Users, ~user.norc
    PROVE  \E q : List(q, EarlyWork(Ours)) /\ Startup(user) = q \o Discovery
<1> DEFINE f == File(user.rc, "rc file")
           g == FlattenSeq([i \in DOMAIN user.dropins |-> File(user.dropins[i], "drop-in")])
           e == Declaring(user.docs)
           h == <<Phase("configure")>>
           q == ((f \o g) \o e) \o h
           d == <<Phase("discover")>>
           a == <<Phase("user hooks")>>
           b == <<Phase("plugin hooks")>>
           c == <<Phase("prompt")>>
<1>1. List(f, EarlyWork(Ours)) /\ List(g, EarlyWork(Ours))
  <2>1. user.rc \in Program /\ user.dropins \in Seq(Program)
        BY UsersAssumption
  <2>2. "rc file" \in QuietFrames
        BY DEF QuietFrames
  <2> QED BY <2>1, <2>2, FileQuiet, DropinsQuiet, ListWeaker, Zenon
<1>2. List(e, EarlyWork(Ours))
  <2> DEFINE x == [do |-> "declare", config |-> MergeDocuments(Files(user.docs))]
  <2>1. e = <<x>>
        BY Zenon DEF Declaring
  <2>2. x.do = "declare" /\ x.config = Ours
        BY DEF Ours
  <2> HIDE DEF x
  <2>3. Fits(x, EarlyWork(Ours))
        BY <2>2, Zenon DEF Fits, Early
  <2> QED BY <2>1, <2>3, ListOne, Zenon
<1>3. List(h, EarlyWork(Ours))
  <2>1. Fits(Phase("configure"), EarlyWork(Ours))
        BY Zenon DEF Fits, Early
  <2> QED BY <2>1, ListOne, Zenon
<1>4. IsList(d) /\ IsList(a) /\ IsList(b) /\ IsList(c)
      BY Joins, Zenon
<1>5. After = (a \o b) \o c /\ Discovery = d \o After
      BY AfterIs, Zenon DEF Discovery
<1>6. Startup(user) = (((q \o d) \o a) \o b) \o c
      BY Zenon DEF Startup
<1> HIDE DEF f, g, e, h, d, a, b, c
<1>7. List(q, EarlyWork(Ours))
      BY <1>1, <1>2, <1>3, ListJoin, Zenon
<1> HIDE DEF q
<1>8. IsList(q)
      BY <1>7, Zenon DEF List
<1>9. JoinsAlike(q, d, a, b, c)
      BY <1>4, <1>8, FiveJoined, Zenon
<1> QED BY <1>5, <1>6, <1>7, <1>9, Zenon DEF JoinsAlike

\* Every session starts in the invariant.
LEMMA InitInv == Init => IInv
<1> SUFFICES ASSUME Init PROVE IInv
    OBVIOUS
<1>1. /\ user \in Users /\ work = Startup(user) /\ startupHooks = <<>>
      /\ records = <<>> /\ slots = {} /\ hooks = NoHooks /\ bundle = <<>>
      BY Zenon DEF Init, InitPlugins
<1>2. Typed
  <2>1. <<>> \in Seq(Program)
        OBVIOUS
  <2>2. \A kind \in Range(HookKinds) : NoHooks[kind] = <<>>
        BY Zenon DEF NoHooks
  <2>3. HookList(<<>>)
    <3>1. DOMAIN <<>> = {}
          OBVIOUS
    <3> QED BY <3>1, Joins, Zenon DEF HookList
  <2> QED BY <1>1, <2>1, <2>2, <2>3, Zenon DEF Typed
<1>3. StagedTyped
  <2>1. DOMAIN NoHooks = Range(HookKinds)
        BY Zenon DEF NoHooks
  <2> QED BY <1>1, <2>1, Zenon DEF StagedTyped
<1>4. CASE user.norc
  <2> DEFINE p == <<Phase("prompt")>>
  <2>1. work = <<>> \o p
        BY <1>1, <1>4, Zenon DEF Startup
  <2>2. List(p, LateWork)
        BY PhasesLate, ListOne, Zenon
  <2>3. List(work, LateWork)
        BY <2>1, <2>2, ListEmpty, ListJoin, Zenon
  <2>4. Finished
        BY <1>1, <2>3, Zenon DEF Finished
  <2> QED BY <1>1, <1>2, <1>3, <2>4, Zenon DEF IInv, Phases
<1>5. CASE ~user.norc
  <2>1. PICK q : List(q, EarlyWork(Ours)) /\ Startup(user) = q \o Discovery
        BY <1>1, <1>5, StartsAwaiting, Zenon
  <2>2. Awaiting(q)
        BY <1>1, <2>1, Zenon DEF Awaiting
  <2> QED BY <1>1, <1>2, <1>3, <2>2, Zenon DEF IInv, Phases
<1> QED BY <1>4, <1>5

\* The invariant depends on the variables alone.
LEMMA Stutters == IInv /\ UNCHANGED vars => IInv'
<1> SUFFICES ASSUME IInv, UNCHANGED vars PROVE IInv'
    OBVIOUS
<1>1. /\ user' = user /\ work' = work /\ startupHooks' = startupHooks /\ hooks' = hooks /\ bundle' = bundle
      /\ UNCHANGED <<user, plugins>>
      BY Zenon DEF vars, session, plugins
<1>2. user \in Users /\ Typed /\ StagedTyped /\ Phases
      BY Zenon DEF IInv
<1>3. startupHooks' \in Seq(Program)
      BY <1>1, <1>2, Zenon DEF Typed
<1>4. Typed' /\ StagedTyped'
      BY <1>1, <1>2, <1>3, TypedKept, StagedKept, Zenon
<1>5. /\ records' = records /\ slots' = slots /\ enabled' = enabled /\ allowed' = allowed
      BY <1>1, Zenon DEF plugins
<1>6. Phases'
  <2>1. ASSUME NEW q, Awaiting(q) PROVE Awaiting(q)'
    <3>1. Ours' = Ours
          BY <1>1, Zenon DEF Ours
    <3> QED BY <1>1, <1>5, <2>1, <3>1, Zenon DEF Awaiting, Discovery, After
  <2>2. ASSUME NEW m, Between(m) PROVE Between(m)'
    <3>1. Whole(m)'
          BY <1>1, <1>2, <1>5, <2>2, FrozenTables, Zenon DEF Between
    <3>2. (Remaining(m) \o After)' = Remaining(m) \o After
          BY <1>1, <1>5, Frozen, Zenon
    <3>3. (m \in 0..Len(user.files))'
          BY <1>1, <2>2, Zenon DEF Between
    <3> QED BY <1>1, <2>2, <3>1, <3>2, <3>3, Zenon DEF Between
  <2>3. ASSUME NEW m, NEW k, NEW q, Registering(m, k, q) PROVE Registering(m, k, q)'
    <3>1. List(q, QuietWork) /\ work' = q \o (Rest(Register(m), k) \o Committal(m))
          BY <1>1, <2>3, Zenon DEF Registering
    <3> QED BY <1>1, <2>3, <3>1, RegisteringTo, Zenon
  <2>4. ASSUME NEW m, NEW j, Committing(m, j) PROVE Committing(m, j)'
    <3>1. /\ LoadedSlots' = LoadedSlots
          /\ \A kind : LoadedHooks(kind)' = LoadedHooks(kind)
          /\ \A n : Loaded(n)' <=> Loaded(n)
          BY <1>1, <1>5, FrozenTables, Zenon
    <3>2. IsNext(m)' /\ Ending(m, FALSE)' = Ending(m, FALSE)
          BY <1>1, <1>5, <2>4, Frozen, Zenon DEF Committing
    <3>3. Staged(m, Len(Register(m)))'
      <4>1. UNCHANGED <<user, bundle>> /\ Staged(m, Len(Register(m)))
            BY <1>1, <2>4, Zenon DEF Committing
      <4> QED BY <4>1, StagedLater, Zenon
    <3>4. /\ Offers(user.files[m])' = Offers(user.files[m])
          /\ \A kind : HooksOffered(user.files[m], kind)' = HooksOffered(user.files[m], kind)
          BY <1>1, FrozenOffers, Zenon
    <3>5. Owned(LoadedSlots \cup Offers(user.files[m]))'
          BY <2>4, <3>1, <3>4, Zenon DEF Owned, Committing
    <3>6. (slots = LoadedSlots \cup {s \in Offers(user.files[m]) : s[1] \in Published(j)})'
          BY <1>5, <2>4, <3>1, <3>4, Zenon DEF Committing
    <3>7. (\A kind \in Range(HookKinds) : hooks[kind] = LoadedHooks(kind) \o
             (IF kind \in Published(j) THEN HooksOffered(user.files[m], kind) ELSE <<>>))'
          BY <1>1, <2>4, <3>1, <3>4, Zenon DEF Committing
    <3>8. (work = Rest(Publications, j) \o Ending(m, FALSE))'
          BY <1>1, <2>4, <3>2, Zenon DEF Committing
    <3>9. Loaded(m - 1)' /\ j \in 0..6
          BY <2>4, <3>1, Zenon DEF Committing
    <3> QED BY <3>2, <3>3, <3>5, <3>6, <3>7, <3>8, <3>9, Zenon DEF Committing
  <2>5. ASSUME NEW m, Abandoned(m) PROVE Abandoned(m)'
    <3>1. UNCHANGED <<user, enabled, allowed, records, slots, hooks>> /\ work' = Ending(m, TRUE)
          BY <1>1, <1>5, <2>5, Zenon DEF Abandoned
    <3> QED BY <2>5, <3>1, AbandonedTo, Zenon DEF Abandoned
  <2>6. ASSUME Finished PROVE Finished'
    <3>1. List(work', LateWork)
          BY <1>1, <2>6, Zenon DEF Finished
    <3> QED BY <1>1, <2>6, <3>1, FinishedTo, Zenon DEF Finished
  <2> QED BY <1>2, <2>1, <2>2, <2>3, <2>4, <2>5, <2>6, Zenon DEF Phases
<1> QED BY <1>1, <1>2, <1>4, <1>6, Zenon DEF IInv

\* Every step keeps it, when no Ctrl+C falls between two tables.
LEMMA Invariance ==
    ASSUME ~WhilePublishing, IInv, [Next]_vars
    PROVE  IInv'
<1>1. user \in Users /\ Typed /\ StagedTyped /\ Phases
      BY Zenon DEF IInv
<1>2. CASE UNCHANGED vars
      BY <1>2, Stutters, Zenon
<1>3. ASSUME NEW q, Awaiting(q), Next PROVE IInv'
  <2>1. work # <<>>
        BY <1>3, AwaitingWorks, Zenon
  <2>2. ~TypeLine /\ ~EndOfInput
        BY <2>1, Zenon DEF TypeLine, EndOfInput
  <2> QED BY <1>1, <1>3, <2>2, AwaitingStep, AwaitingCtrlC, Zenon DEF Next
<1>4. ASSUME NEW i, Due(i), Next PROVE IInv'
  <2>1. work # <<>>
        BY <1>1, <1>4, DueHead, Zenon
  <2>2. ~TypeLine /\ ~EndOfInput
        BY <2>1, Zenon DEF TypeLine, EndOfInput
  <2> QED BY <1>1, <1>4, <2>2, DueStep, DueCtrlC, Zenon DEF Next
<1>5. ASSUME Finished, Next PROVE IInv'
      BY <1>1, <1>5, FinishedStep, FinishedCtrlC, FinishedLine, Zenon DEF Next
<1>6. ASSUME NEW m, Between(m), Next PROVE IInv'
      BY <1>1, <1>4, <1>5, <1>6, BetweenIs, Zenon
<1>7. ASSUME NEW m, NEW k, NEW q, Registering(m, k, q), Next PROVE IInv'
  <2>1. work # <<>>
        BY <1>1, <1>7, RegisteringWorks, Zenon
  <2>2. ~TypeLine /\ ~EndOfInput
        BY <2>1, Zenon DEF TypeLine, EndOfInput
  <2> QED BY <1>1, <1>7, <2>2, RegisteringStep, RegisteringCtrlC, Zenon DEF Next
<1>8. ASSUME NEW m, NEW j, Committing(m, j), Next PROVE IInv'
  <2>1. work # <<>>
        BY <1>1, <1>8, CommittingIs, Zenon
  <2>2. ~TypeLine /\ ~EndOfInput /\ ~CtrlC
        BY <1>1, <1>8, <2>1, CommittingCtrlC, Zenon DEF TypeLine, EndOfInput
  <2>3. Step
        BY <1>8, <2>2, Zenon DEF Next
  <2>4. CASE j # 6
        BY <1>1, <1>8, <2>3, <2>4, CommittingPublish, Zenon
  <2>5. CASE j = 6
    <3>1. Committing(m, 6)
          BY <1>8, <2>5
    <3> QED BY <1>1, <2>3, <3>1, CommittingEnd, Zenon
  <2> QED BY <2>4, <2>5
<1>9. ASSUME NEW m, Abandoned(m), Next PROVE IInv'
  <2>1. work # <<>>
        BY <1>1, <1>9, AbandonedIs, Zenon
  <2>2. ~TypeLine /\ ~EndOfInput
        BY <2>1, Zenon DEF TypeLine, EndOfInput
  <2> QED BY <1>1, <1>9, <2>2, AbandonedStep, AbandonedCtrlC, Zenon DEF Next
<1> QED BY <1>1, <1>2, <1>3, <1>5, <1>6, <1>7, <1>8, <1>9, Zenon DEF Phases

\* Plugins are published whole or not at all, in their order and only with permission, and
\* none before the configuration that decides about them is read, whatever the users, their
\* programs and their plugins are, wherever code raises, and wherever Ctrl+C falls but into
\* the publication itself (load_user_startup_configuration, load_plugin_record,
\* commit_registration_bundle and every call that programs and plugins make).
THEOREM WholeAlways ==
    ASSUME ~WhilePublishing
    PROVE  Spec => []PluginsPublishedWhole
<1>1. Init => IInv
      BY InitInv
<1>2. IInv /\ [Next]_vars => IInv'
      BY Invariance
<1>3. IInv => PluginsPublishedWhole
      BY InvImplies
<1> QED BY <1>1, <1>2, <1>3, PTL DEF Spec

(***************************************************************************)
(* The names of profiles and themes.                                       *)
(***************************************************************************)
\* The bases of a name, one after the other.
Goes(s, tables, done) ==
    /\ tables[Last(s)].base \in DOMAIN tables
    /\ tables[Last(s)].base \notin DOMAIN done \cup Range(s)

Descends(f, n, name, tables, done) ==
    f = [i \in 0..n |->
            IF i = 0 THEN <<name>>
            ELSE IF Goes(f[i - 1], tables, done) THEN Append(f[i - 1], tables[Last(f[i - 1])].base)
                 ELSE f[i - 1]]

\* They can be followed for any number of steps.
LEMMA DescendsExists ==
    ASSUME NEW name, NEW tables, NEW done
    PROVE  \A n \in Nat : \E f : Descends(f, n, name, tables, done)
<1> DEFINE S == {n \in Nat : \E f : Descends(f, n, name, tables, done)}
           Further(s) == IF Goes(s, tables, done) THEN Append(s, tables[Last(s)].base) ELSE s
<1>1. 0 \in S
  <2> DEFINE f == [i \in 0..0 |-> <<name>>]
  <2>1. \A i \in 0..0 : i = 0
        OBVIOUS
  <2>2. Descends(f, 0, name, tables, done)
        BY <2>1, Zenon DEF Descends
  <2> QED BY <2>2
<1>2. ASSUME NEW n \in Nat, n \in S PROVE n + 1 \in S
  <2>1. PICK f : Descends(f, n, name, tables, done)
        BY <1>2
  <2>2. \A i \in 0..n : f[i] = IF i = 0 THEN <<name>> ELSE Further(f[i - 1])
        BY <2>1, Zenon DEF Descends
  <2> DEFINE g == [i \in 0..(n + 1) |-> IF i = n + 1 THEN Further(f[n]) ELSE f[i]]
  <2>3. ASSUME NEW i \in 0..(n + 1)
        PROVE  g[i] = IF i = 0 THEN <<name>> ELSE Further(g[i - 1])
    <3>1. CASE i = n + 1
      <4>1. i # 0 /\ i - 1 = n /\ n \in 0..(n + 1) /\ n # n + 1
            BY <3>1
      <4>2. g[n] = f[n] /\ g[i] = Further(f[n])
            BY <3>1, <4>1, Zenon
      <4> QED BY <4>1, <4>2, Zenon
    <3>2. CASE i # n + 1
      <4>1. i \in 0..n /\ g[i] = f[i]
            BY <3>2
      <4>2. CASE i = 0
            BY <2>2, <4>1, <4>2, Zenon
      <4>3. CASE i # 0
        <5>1. i - 1 \in 0..(n + 1) /\ i - 1 # n + 1
              BY <4>1, <4>3
        <5>2. g[i - 1] = f[i - 1]
              BY <5>1, Zenon
        <5> QED BY <2>2, <4>1, <4>3, <5>2, Zenon
      <4> QED BY <4>2, <4>3
    <3> QED BY <3>1, <3>2
  <2>4. g = [i \in 0..(n + 1) |-> g[i]]
        BY Zenon
  <2> HIDE DEF g
  <2>5. Descends(g, n + 1, name, tables, done)
        BY <2>3, <2>4, Zenon DEF Descends
  <2> QED BY <2>5
<1> HIDE DEF S
<1>3. \A n \in Nat : n \in S
      BY <1>1, <1>2, Numbers
<1> QED BY <1>3 DEF S

\* The names that resolve() comes through are names of tables, and the one it began with.
LEMMA LineNames ==
    ASSUME NEW tables, IsFiniteSet(DOMAIN tables), NEW name \in DOMAIN tables, NEW done
    PROVE  Range(Line(name, tables, done)) \subseteq DOMAIN tables /\ name \in Range(Line(name, tables, done))
<1> DEFINE D == DOMAIN tables
           N == Cardinality(D)
           h == CHOOSE f : Descends(f, N, name, tables, done)
<1>1. N \in Nat
      BY FS_CardinalityType
<1> HIDE DEF N
<1>2. Descends(h, N, name, tables, done)
      BY <1>1, DescendsExists, Zenon
<1>3. Line(name, tables, done) = h[N]
      BY Zenon DEF Line, Descends, Goes, N
<1> HIDE DEF h
<1>4. \A i \in 0..N : h[i] = IF i = 0 THEN <<name>>
                             ELSE IF Goes(h[i - 1], tables, done)
                                  THEN Append(h[i - 1], tables[Last(h[i - 1])].base) ELSE h[i - 1]
      BY <1>2, Zenon DEF Descends
<1> DEFINE P == {k \in Nat : k <= N => h[k] \in Seq(D) /\ Len(h[k]) >= 1 /\ h[k][1] = name}
<1>5. 0 \in P
  <2>1. h[0] = <<name>>
    <3>1. 0 \in 0..N
          BY <1>1
    <3> QED BY <1>4, <3>1, Zenon
  <2>2. <<name>> \in Seq(D) /\ Len(<<name>>) >= 1 /\ <<name>>[1] = name
        OBVIOUS
  <2> QED BY <2>1, <2>2
<1>6. ASSUME NEW k \in Nat, k \in P PROVE k + 1 \in P
  <2>1. SUFFICES ASSUME k + 1 <= N PROVE h[k + 1] \in Seq(D) /\ Len(h[k + 1]) >= 1 /\ h[k + 1][1] = name
        OBVIOUS
  <2>2. h[k] \in Seq(D) /\ Len(h[k]) >= 1 /\ h[k][1] = name
        BY <1>1, <1>6, <2>1
  <2> DEFINE b == tables[Last(h[k])].base
  <2>3. h[k + 1] = IF Goes(h[k], tables, done) THEN Append(h[k], b) ELSE h[k]
    <3>1. k + 1 \in 0..N /\ k + 1 # 0 /\ (k + 1) - 1 = k
          BY <1>1, <2>1
    <3> QED BY <1>4, <3>1, Zenon
  <2>4. Goes(h[k], tables, done) => b \in D
        BY Zenon DEF Goes
  <2> HIDE DEF b, D
  <2>5. CASE Goes(h[k], tables, done)
    <3>1. h[k + 1] = Append(h[k], b) /\ b \in D
          BY <2>3, <2>4, <2>5
    <3> QED BY <2>2, <3>1
  <2>6. CASE ~Goes(h[k], tables, done)
        BY <2>2, <2>3, <2>6
  <2> QED BY <2>5, <2>6
<1> HIDE DEF P
<1>7. N \in P
      BY <1>1, <1>5, <1>6, Numbers
<1>8. h[N] \in Seq(D) /\ Len(h[N]) >= 1 /\ h[N][1] = name
      BY <1>1, <1>7 DEF P
<1>9. Range(h[N]) \subseteq D /\ name \in Range(h[N])
      BY <1>8 DEF Range
<1> QED BY <1>3, <1>9

\* Resolving a name keeps the names that are done, and adds names of tables, this one
\* among them.
LEMMA ResolveNames ==
    ASSUME NEW tables, IsFiniteSet(DOMAIN tables), NEW name \in DOMAIN tables, NEW done
    PROVE  /\ DOMAIN done \cup {name} \subseteq DOMAIN Resolve(name, tables, done)
           /\ DOMAIN Resolve(name, tables, done) \subseteq DOMAIN done \cup DOMAIN tables
<1> DEFINE line == Line(name, tables, done)
<1>1. \E t : DOMAIN t = Range(line) /\ Resolve(name, tables, done) = Over(t, done)
  <2> DEFINE last == tables[Last(line)].base
             top  == IF last \in DOMAIN done THEN done[last] ELSE Bare
             Below(i) == FoldRight(LAMBDA n, b : MergeTable(b, tables[n]),
                                   SubSeq(line, i, Len(line)), top)
             t == [n \in Range(line) |-> Below(CHOOSE i \in DOMAIN line : line[i] = n)]
  <2>1. Resolve(name, tables, done) = Over(t, done)
        BY Zenon DEF Resolve
  <2>2. DOMAIN t = Range(line)
        BY Zenon
  <2> HIDE DEF t
  <2> QED BY <2>1, <2>2
<1>2. DOMAIN Resolve(name, tables, done) = Range(line) \cup DOMAIN done
      BY <1>1, OverNames, Zenon
<1>3. Range(line) \subseteq DOMAIN tables /\ name \in Range(line)
      BY LineNames
<1> HIDE DEF line
<1> QED BY <1>2, <1>3

\* One more name of an order.
ResolveOne(done, n, tables) ==
    IF n \in DOMAIN tables \ DOMAIN done THEN Resolve(n, tables, done) ELSE done

Unresolved == [n \in {} |-> Bare]

Resolves(f, n, tables, order) ==
    f = [s \in SUBSET (1..n) |-> IF s = {} THEN Unresolved
                                 ELSE ResolveOne(f[s \ {Max(s)}], order[Max(s)], tables)]

\* Names can be resolved one by one, for any number of them.
LEMMA ResolvesExists == ASSUME NEW tables, NEW order PROVE \A n \in Nat : \E f : Resolves(f, n, tables, order)
<1> DEFINE S == {n \in Nat : \E f : Resolves(f, n, tables, order)}
           Further(t, i) == ResolveOne(t, order[i], tables)
<1>1. 0 \in S
  <2> DEFINE f == [s \in SUBSET (1..0) |-> Unresolved]
  <2>1. \A s \in SUBSET (1..0) : s = {}
        OBVIOUS
  <2>2. f = [s \in SUBSET (1..0) |-> IF s = {} THEN Unresolved ELSE Further(f[s \ {Max(s)}], Max(s))]
        BY <2>1, Zenon
  <2> QED BY <2>2 DEF Resolves
<1>2. ASSUME NEW n \in Nat, n \in S PROVE n + 1 \in S
  <2>1. PICK f : Resolves(f, n, tables, order)
        BY <1>2
  <2>2. \A s \in SUBSET (1..n) : f[s] = IF s = {} THEN Unresolved ELSE Further(f[s \ {Max(s)}], Max(s))
        BY <2>1, Zenon DEF Resolves
  <2> DEFINE g == [s \in SUBSET (1..(n + 1)) |->
                     IF n + 1 \in s THEN Further(f[s \ {n + 1}], n + 1) ELSE f[s]]
  <2>3. ASSUME NEW s \in SUBSET (1..(n + 1))
        PROVE  g[s] = IF s = {} THEN Unresolved ELSE Further(g[s \ {Max(s)}], Max(s))
    <3>1. CASE n + 1 \in s
      <4>1. Largest(s, n + 1)
            BY <3>1 DEF Largest
      <4>2. Max(s) = n + 1
        <5>1. n + 1 \in Nat
              OBVIOUS
        <5> QED BY <4>1, <5>1, LargestIs, Zenon
      <4>3. s \ {n + 1} \in SUBSET (1..(n + 1)) /\ n + 1 \notin s \ {n + 1} /\ s # {}
            BY <3>1
      <4>4. g[s \ {n + 1}] = f[s \ {n + 1}]
            BY <4>3, Zenon
      <4>5. g[s] = Further(f[s \ {n + 1}], n + 1)
            BY <3>1, Zenon
      <4> QED BY <4>2, <4>3, <4>4, <4>5, Zenon
    <3>2. CASE n + 1 \notin s
      <4>1. s \in SUBSET (1..n)
            BY <3>2
      <4>2. s \ {Max(s)} \in SUBSET (1..(n + 1)) /\ n + 1 \notin s \ {Max(s)}
            BY <3>2
      <4>3. g[s] = f[s] /\ g[s \ {Max(s)}] = f[s \ {Max(s)}]
            BY <3>2, <4>2, Zenon
      <4> QED BY <4>1, <4>3, <2>2, Zenon
    <3> QED BY <3>1, <3>2
  <2>4. g = [s \in SUBSET (1..(n + 1)) |-> g[s]]
        BY Zenon
  <2> HIDE DEF g
  <2>5. Resolves(g, n + 1, tables, order)
        BY <2>3, <2>4, Zenon DEF Resolves
  <2> QED BY <2>5
<1> HIDE DEF S
<1>3. \A n \in Nat : n \in S
      BY <1>1, <1>2, Numbers
<1> QED BY <1>3 DEF S

\* When all tables are in the order, each name of a table is resolved and no other.
LEMMA ResolveAllNames ==
    ASSUME NEW order, order \in Seq(Range(order)), NEW tables, IsFiniteSet(DOMAIN tables),
           DOMAIN tables \subseteq Range(order)
    PROVE  DOMAIN ResolveAll(tables, order) = DOMAIN tables
<1> DEFINE D == DOMAIN tables
           N == Len(order)
           h == CHOOSE f : Resolves(f, N, tables, order)
<1>1. N \in Nat /\ DOMAIN order = 1..N
      OBVIOUS
<1> HIDE DEF N
<1>2. Resolves(h, N, tables, order)
      BY <1>1, ResolvesExists, Zenon
<1>3. ResolveAll(tables, order) = h[1..N]
      BY <1>1, Zenon DEF ResolveAll, FoldLeft, MapThenFoldSet, Resolves, ResolveOne, Unresolved
<1> HIDE DEF h
<1>4. \A s \in SUBSET (1..N) : h[s] = IF s = {} THEN Unresolved
                               ELSE ResolveOne(h[s \ {Max(s)}], order[Max(s)], tables)
      BY <1>2, Zenon DEF Resolves
<1> DEFINE Resolved(t, k) == DOMAIN t \subseteq D /\ \A i \in 1..k : order[i] \in D => order[i] \in DOMAIN t
           P == {k \in Nat : k <= N => Resolved(h[1..k], k)}
<1>5. 0 \in P
  <2>1. 1..0 = {} /\ 1..0 \in SUBSET (1..N)
        OBVIOUS
  <2>2. h[1..0] = Unresolved
        BY <1>4, <2>1, Zenon
  <2>3. DOMAIN Unresolved = {}
        BY DEF Unresolved
  <2> QED BY <2>1, <2>2, <2>3
<1>6. ASSUME NEW k \in Nat, k \in P PROVE k + 1 \in P
  <2>1. SUFFICES ASSUME k + 1 <= N PROVE Resolved(h[1..(k + 1)], k + 1)
        OBVIOUS
  <2>2. Resolved(h[1..k], k)
        BY <1>1, <1>6, <2>1
  <2>3. /\ k + 1 \in Nat /\ k + 1 \in 1..N /\ 1..(k + 1) \in SUBSET (1..N) /\ 1..(k + 1) # {}
        /\ (1..(k + 1)) \ {k + 1} = 1..k
    <3>1. N \in Nat
          BY <1>1
    <3>2. k + 1 \in 1..N /\ 1..(k + 1) \in SUBSET (1..N)
          BY <2>1, <3>1
    <3>3. k + 1 \in 1..(k + 1)
          OBVIOUS
    <3>4. (1..(k + 1)) \ {k + 1} = 1..k
          OBVIOUS
    <3>5. k + 1 \in Nat
          OBVIOUS
    <3> QED BY <3>2, <3>3, <3>4, <3>5, Zenon
  <2>4. Max(1..(k + 1)) = k + 1
    <3>1. Largest(1..(k + 1), k + 1)
          BY DEF Largest
    <3> QED BY <2>3, <3>1, LargestIs, Zenon
  <2> DEFINE t == h[1..k]
             u == h[1..(k + 1)]
             n == order[k + 1]
  <2>5. u = ResolveOne(t, n, tables)
        BY <1>4, <2>3, <2>4, Zenon
  <2> HIDE DEF t, u, n
  <2>6. DOMAIN t \subseteq DOMAIN u /\ DOMAIN u \subseteq D /\ (n \in D => n \in DOMAIN u)
    <3>1. DOMAIN t \subseteq D
          BY <2>2 DEF t
    <3>2. CASE n \in D \ DOMAIN t
      <4>1. u = Resolve(n, tables, t) /\ n \in DOMAIN tables
            BY <2>5, <3>2, Zenon DEF ResolveOne
      <4>2. DOMAIN t \cup {n} \subseteq DOMAIN u /\ DOMAIN u \subseteq DOMAIN t \cup D
            BY <4>1, ResolveNames, Zenon
      <4> QED BY <3>1, <4>2
    <3>3. CASE n \notin D \ DOMAIN t
      <4>1. u = t
            BY <2>5, <3>3, Zenon DEF ResolveOne
      <4> QED BY <3>1, <3>3, <4>1
    <3> QED BY <3>2, <3>3
  <2>7. ASSUME NEW i \in 1..(k + 1), order[i] \in D PROVE order[i] \in DOMAIN u
    <3>1. CASE i = k + 1
          BY <2>6, <2>7, <3>1 DEF n
    <3>2. CASE i # k + 1
      <4>1. i \in 1..k
            BY <3>2
      <4>2. order[i] \in DOMAIN t
            BY <2>2, <2>7, <4>1 DEF t
      <4> QED BY <2>6, <4>2
    <3> QED BY <3>1, <3>2
  <2> QED BY <2>6, <2>7, Zenon DEF u
<1> HIDE DEF P
<1>7. N \in P
      BY <1>1, <1>5, <1>6, Numbers
<1>8. Resolved(h[1..N], N)
      BY <1>1, <1>7 DEF P
<1>9. ASSUME NEW n \in D PROVE n \in DOMAIN h[1..N]
  <2>1. PICK i \in 1..N : n = order[i]
        BY <1>1 DEF Range
  <2> QED BY <1>8, <2>1
<1> QED BY <1>3, <1>8, <1>9

\* The names in an order are finitely many.
LEMMA OrderFinite ==
    ASSUME NEW order, order \in Seq(Range(order)) PROVE IsFiniteSet(Range(order))
<1>1. Len(order) \in Nat /\ DOMAIN order = 1..Len(order)
      OBVIOUS
<1>2. order \in Surjection(1..Len(order), Range(order))
  <2>1. \A x \in Range(order) : \E i \in 1..Len(order) : order[i] = x
        BY <1>1 DEF Range
  <2> QED BY <1>1, <2>1 DEF Surjection
<1>3. IsFiniteSet(1..Len(order))
      BY <1>1, FS_Interval
<1> QED BY <1>2, <1>3, FS_Surjection

\* The names of some tables are in an order.
InOrder(t, order) == order \in Seq(Range(order)) /\ DOMAIN t \subseteq Range(order)

NamesJoined(t, b, order) == DOMAIN ResolveAll(Over(t, b), order) = DOMAIN t \cup DOMAIN b

\* With tables over others, all of them in the order, the names of both are resolved.
LEMMA OverResolved ==
    ASSUME NEW order, NEW t, NEW b, InOrder(t, order), InOrder(b, order)
    PROVE  NamesJoined(t, b, order)
<1>1. DOMAIN Over(t, b) = DOMAIN t \cup DOMAIN b
      BY OverNames
<1>2. DOMAIN Over(t, b) \subseteq Range(order) /\ order \in Seq(Range(order))
      BY <1>1 DEF InOrder
<1>3. IsFiniteSet(DOMAIN Over(t, b))
      BY <1>2, OrderFinite, FS_Subset, Zenon
<1>4. DOMAIN ResolveAll(Over(t, b), order) = DOMAIN Over(t, b)
      BY <1>2, <1>3, ResolveAllNames, Zenon
<1> QED BY <1>1, <1>4, Zenon DEF NamesJoined

\* The names of the profiles and of the themes that are known with some tables of a user,
\* the built-in ones among them.
LEMMA KnownNames ==
    /\ \A t : DOMAIN t \subseteq Range(ProfileNames) =>
           DOMAIN Profiles(t) = DOMAIN t \cup DOMAIN BuiltinProfile
    /\ \A t : DOMAIN t \subseteq Range(ThemeNames) =>
           DOMAIN BuiltinTheme \subseteq DOMAIN Themes(t)
    /\ DOMAIN Themes(NoTable) = DOMAIN BuiltinTheme
<1>2. ASSUME NEW t, DOMAIN t \subseteq Range(ProfileNames)
      PROVE  DOMAIN Profiles(t) = DOMAIN t \cup DOMAIN BuiltinProfile
  <2>1. InOrder(BuiltinProfile, ProfileNames) /\ InOrder(t, ProfileNames)
        BY <1>2, TableAssumption DEF InOrder
  <2>2. NamesJoined(t, BuiltinProfile, ProfileNames)
        BY <2>1, OverResolved, Zenon
  <2> QED BY <2>2, Zenon DEF Profiles, NamesJoined
<1>3. ASSUME NEW t, DOMAIN t \subseteq Range(ThemeNames)
      PROVE  \E ours : /\ ours \subseteq DOMAIN t
                       /\ DOMAIN Themes(t) = ours \cup DOMAIN BuiltinTheme
  <2> DEFINE ours == {n \in DOMAIN t : n \notin DOMAIN BuiltinTheme \/ t[n].override}
             own == [n \in ours |-> t[n]]
  <2>1. Themes(t) = ResolveAll(Over(own, BuiltinTheme), ThemeNames)
        BY Zenon DEF Themes
  <2>2. ours \subseteq DOMAIN t /\ DOMAIN own = ours
        OBVIOUS
  <2> HIDE DEF own, ours
  <2>3. DOMAIN own \subseteq Range(ThemeNames)
        BY <1>3, <2>2
  <2>4. NamesJoined(own, BuiltinTheme, ThemeNames)
    <3>1. InOrder(BuiltinTheme, ThemeNames) /\ InOrder(own, ThemeNames)
          BY <2>3, TableAssumption DEF InOrder
    <3> QED BY <3>1, OverResolved, Zenon
  <2> QED BY <2>1, <2>2, <2>4, Zenon DEF NamesJoined
<1>4. DOMAIN NoTable = {}
      BY DEF NoTable
<1>5. DOMAIN Themes(NoTable) = DOMAIN BuiltinTheme
      BY <1>3, <1>4
<1>6. \A t : DOMAIN t \subseteq Range(ThemeNames) => DOMAIN BuiltinTheme \subseteq DOMAIN Themes(t)
      BY <1>3
<1> QED BY <1>2, <1>5, <1>6
\* So the built-in profiles and themes are known with no tables at all, and with a user's.
LEMMA BuiltinKnown ==
    /\ DOMAIN Profiles(NoTable) = DOMAIN BuiltinProfile /\ DOMAIN Themes(NoTable) = DOMAIN BuiltinTheme
    /\ \A u \in Users : /\ DOMAIN BuiltinProfile \subseteq DOMAIN MergeDocuments(Files(u.docs)).profiles
                        /\ DOMAIN BuiltinTheme \subseteq DOMAIN MergeDocuments(Files(u.docs)).themes
<1>1. DOMAIN Profiles(NoTable) = DOMAIN BuiltinProfile
  <2>1. DOMAIN NoTable = {}
        BY DEF NoTable
  <2>2. DOMAIN NoTable \subseteq Range(ProfileNames)
        BY <2>1
  <2>3. DOMAIN Profiles(NoTable) = DOMAIN NoTable \cup DOMAIN BuiltinProfile
        BY <2>2, KnownNames
  <2> QED BY <2>1, <2>3
<1>2. ASSUME NEW u \in Users
      PROVE  /\ DOMAIN BuiltinProfile \subseteq DOMAIN MergeDocuments(Files(u.docs)).profiles
             /\ DOMAIN BuiltinTheme \subseteq DOMAIN MergeDocuments(Files(u.docs)).themes
  <2> DEFINE m == MergeDocuments(Files(u.docs))
  <2>1. PICK c : Asks(c) /\ m.profiles = Profiles(c.profiles) /\ m.themes = Themes(c.themes)
        BY MergedIs, Zenon
  <2> HIDE DEF m
  <2>2. DOMAIN c.profiles \subseteq Range(ProfileNames) /\ DOMAIN c.themes \subseteq Range(ThemeNames)
        BY <2>1, Zenon DEF Asks
  <2>3. DOMAIN m.profiles = DOMAIN c.profiles \cup DOMAIN BuiltinProfile
        BY <2>1, <2>2, KnownNames
  <2>4. DOMAIN BuiltinTheme \subseteq DOMAIN m.themes
        BY <2>1, <2>2, KnownNames
  <2>5. DOMAIN BuiltinProfile \subseteq DOMAIN m.profiles
        BY <2>3
  <2> QED BY <2>4, <2>5 DEF m
<1> QED BY <1>1, <1>2, KnownNames, Zenon

(***************************************************************************)
(* What is in force.                                                       *)
(***************************************************************************)
\* A call that the configuration can take: an alias has a name, and what is declared is what
\* the user's files come to.
Sound(c) == (c.do = "alias" => c.key \in AliasName) /\ (c.do = "declare" => c.config = Ours)

LEMMA QuietSound == ASSUME NEW c, Quiet(c) PROVE Sound(c)
<1>1. c.do \in QuietDo /\ (c.do = "alias" => Written(c))
  <2>1. "alias" \notin {"file", "loopvar", "prepend", "notice", "locals", "restore", "tell", "end"}
        OBVIOUS
  <2> QED BY <2>1, QuietDoes, Zenon
<1>2. c.do # "declare"
      BY <1>1 DEF QuietDo
<1>3. c.do = "alias" => c.key \in AliasName
      BY <1>1 DEF Written
<1> QED BY <1>2, <1>3, Zenon DEF Sound

LEMMA FitsSound ==
    ASSUME NEW c, Fits(c, QuietWork) \/ Fits(c, EarlyWork(Ours)) \/ Fits(c, LateWork)
    PROVE  Sound(c)
<1>1. Quiet(c) \/ Early(c, Ours) \/ Late(c)
      BY Levels, Zenon DEF Fits
<1>2. CASE Quiet(c)
      BY <1>2, QuietSound, Zenon
<1>3. CASE Early(c, Ours)
  <2>1. c.do # "alias" /\ (c.do = "declare" => c.config = Ours)
        BY <1>3 DEF Early, Phase
  <2> QED BY <2>1, Zenon DEF Sound
<1>4. CASE Late(c)
  <2>1. c \in {Phase("user hooks"), Phase("plugin hooks"), Phase("prompt")} => c.do = "phase"
    <3>1. \A n : Phase(n).do = "phase"
          BY DEF Phase
    <3> QED BY <3>1, Zenon
  <2>2. c \in EndItem({"typed", "prompt"}) => c.do = "end"
        BY DEF EndItem
  <2>3. c.do \in {"run", "save", "phase", "end"}
        BY <1>4, <2>1, <2>2 DEF Late
  <2>4. c.do # "alias" /\ c.do # "declare"
        BY <2>3
  <2> QED BY <2>4, Zenon DEF Sound
<1> QED BY <1>1, <1>2, <1>3, <1>4

\* Each call that is next is one.
LEMMA HeadSound == ASSUME IInv, work # <<>> PROVE Sound(This)
<1>1. user \in Users /\ Phases
      BY Zenon DEF IInv
<1>2. ASSUME This.do \notin {"alias", "declare"} PROVE Sound(This)
  <2>1. This.do # "alias" /\ This.do # "declare"
        BY <1>2
  <2> QED BY <2>1, Zenon DEF Sound
<1>3. ASSUME NEW q, Awaiting(q) PROVE Sound(This)
  <2>1. List(q, EarlyWork(Ours)) /\ work = q \o Discovery /\ IsList(q) /\ IsList(Discovery)
        BY <1>3, DiscoveryUnwinds, Zenon DEF Awaiting, List
  <2>2. CASE q = <<>>
    <3>1. work = <<Phase("discover")>> \o After
          BY <2>1, <2>2, Joins, Zenon DEF Discovery
    <3>2. This = Phase("discover")
          BY <1>1, <3>1, PartsAreLists, HeadOf, Zenon
    <3>3. This.do = "phase"
          BY <3>2 DEF Phase
    <3>4. This.do \notin {"alias", "declare"}
          BY <3>3
    <3> QED BY <1>2, <3>4
  <2>3. CASE q # <<>>
    <3>1. Head(q \o Discovery) = Head(q)
          BY <2>1, <2>3, Ends, Zenon
    <3>2. This = Head(q)
          BY <2>1, <3>1, Zenon DEF This
    <3>3. Fits(Head(q), EarlyWork(Ours))
          BY <2>1, <2>3, ListHead, Zenon
    <3> QED BY <3>2, <3>3, FitsSound, Zenon
  <2> QED BY <2>2, <2>3
<1>4. ASSUME Finished PROVE Sound(This)
  <2>1. Fits(This, LateWork)
        BY <1>4, ListHead, Zenon DEF Finished, This
  <2> QED BY <2>1, FitsSound, Zenon
<1>5. ASSUME NEW i, Due(i) PROVE Sound(This)
  <2>1. This = LoadCall(i)
        BY <1>1, <1>5, DueHead, Zenon
  <2>2. This.do \notin {"alias", "declare"}
        BY <2>1 DEF LoadCall
  <2> QED BY <1>2, <2>2
<1>6. ASSUME NEW m, Between(m) PROVE Sound(This)
      BY <1>1, <1>4, <1>5, <1>6, BetweenIs, Zenon
<1>7. ASSUME NEW m, NEW k, NEW q, Registering(m, k, q) PROVE Sound(This)
  <2>1. /\ m \in DOMAIN user.files /\ k \in 0..Len(Register(m)) /\ List(q, QuietWork) /\ IsList(q)
        /\ IsList(Rest(Register(m), k) \o Committal(m))
        /\ work = q \o (Rest(Register(m), k) \o Committal(m))
        BY <1>1, <1>7, RegisteringIs, Zenon
  <2>2. CASE q # <<>>
    <3>1. This = Head(q)
          BY <2>1, <2>2, Ends, Zenon DEF This
    <3>2. Fits(Head(q), QuietWork)
          BY <2>1, <2>2, ListHead, Zenon
    <3> QED BY <3>1, <3>2, FitsSound, Zenon
  <2>3. CASE q = <<>> /\ k < Len(Register(m))
    <3> DEFINE c == Register(m)[k + 1]
    <3>1. This = c /\ k + 1 \in 1..Len(Register(m))
          BY <1>1, <1>7, <2>3, RegisteringNext, Zenon
    <3>2. c.do = "stage" \/ Fits(c, QuietWork)
          BY <1>1, <2>1, <3>1, RegisterIs, Zenon
    <3> HIDE DEF c
    <3>3. CASE c.do = "stage"
      <4>1. This.do \notin {"alias", "declare"}
            BY <3>1, <3>3
      <4> QED BY <1>2, <4>1
    <3> QED BY <3>1, <3>2, <3>3, FitsSound, Zenon
  <2>4. CASE q = <<>> /\ k = Len(Register(m))
    <3>1. This = [do |-> "validate"]
          BY <1>1, <1>7, <2>4, RegisteringDone, Zenon
    <3>2. This.do \notin {"alias", "declare"}
          BY <3>1
    <3> QED BY <1>2, <3>2
  <2>5. k < Len(Register(m)) \/ k = Len(Register(m))
    <3>1. Len(Register(m)) \in Nat
          BY <1>1, <2>1, RegisterIs, Zenon
    <3> QED BY <2>1, <3>1
  <2> QED BY <2>2, <2>3, <2>4, <2>5
<1>8. ASSUME NEW m, NEW j, Committing(m, j) PROVE Sound(This)
  <2>1. \/ This = [do |-> "publish", key |-> KindAt(j + 1)]
        \/ This = RegisterEnd(m, FALSE)
        BY <1>1, <1>8, CommittingIs, Zenon
  <2>2. This.do \notin {"alias", "declare"}
        BY <2>1 DEF RegisterEnd
  <2> QED BY <1>2, <2>2
<1>9. ASSUME NEW m, Abandoned(m) PROVE Sound(This)
  <2>1. This = RegisterEnd(m, TRUE)
        BY <1>1, <1>9, AbandonedIs, Zenon
  <2>2. This.do \notin {"alias", "declare"}
        BY <2>1 DEF RegisterEnd
  <2> QED BY <1>2, <2>2
<1> QED BY <1>1, <1>3, <1>4, <1>6, <1>7, <1>8, <1>9, Zenon DEF Phases
\* The names that are known: the built-in ones, and none but those that the files come to.
Named ==
    /\ DOMAIN BuiltinProfile \subseteq DOMAIN known.profiles
    /\ DOMAIN BuiltinTheme \subseteq DOMAIN known.themes
    /\ DOMAIN known.profiles \subseteq DOMAIN Ours.profiles
    /\ DOMAIN known.themes \subseteq DOMAIN Ours.themes

\* It is what the session starts with.
LEMMA InitForced == Init => InForce /\ EngineFollows /\ Named
<1> SUFFICES ASSUME Init PROVE InForce /\ EngineFollows /\ Named
    OBVIOUS
<1>1. /\ user \in Users
      /\ options = Default /\ engine = [k \in HistoryOption |-> Default[k]]
      /\ active = [profile |-> "default", theme |-> "default"]
      /\ known = [profiles |-> Profiles(NoTable), themes |-> Themes(NoTable)]
      /\ aliases = [a \in AliasName |-> None]
      BY Zenon DEF Init, InitConfig
<1>2. /\ known.profiles = Profiles(NoTable) /\ known.themes = Themes(NoTable)
      /\ active.profile = "default" /\ active.theme = "default"
      /\ DOMAIN engine = HistoryOption /\ DOMAIN aliases = AliasName
      BY <1>1
<1>3. Named
      BY <1>1, <1>2, BuiltinKnown, Zenon DEF Named, Ours
<1>4. active.profile \in DOMAIN known.profiles /\ active.theme \in DOMAIN known.themes
      BY <1>2, BuiltinKnown, TableAssumption, Zenon
<1>5. DOMAIN options = Setting /\ \A k \in Setting : Accepts(k, options[k])
      BY <1>1, DefaultAssumption, Zenon
<1>6. \A k \in HistoryOption : engine[k] = options[k]
      BY <1>1, Zenon
<1> QED BY <1>2, <1>3, <1>4, <1>5, <1>6, Zenon DEF InForce, EngineFollows

\* It depends on the configuration alone.
LEMMA ForcedSame ==
    ASSUME InForce, UNCHANGED config
    PROVE  InForce'
<1>1. /\ options' = options /\ engine' = engine /\ active' = active /\ known' = known /\ aliases' = aliases
      BY Zenon DEF config
<1>2. \A k, v : Accepts(k, v)' <=> Accepts(k, v)
      BY Zenon DEF Accepts, AcceptsColor, AcceptsHistory, AcceptsOption
<1> QED BY <1>1, <1>2, Zenon DEF InForce, Setting

\* A setting that is accepted.
LEMMA SetForced ==
    ASSUME InForce, NEW k, NEW v, Accepts(k, v), SetOption(k, v)
    PROVE  InForce' /\ known' = known
<1>1. /\ options' = [options EXCEPT ![k] = v] /\ engine' = engine
      /\ active' = active /\ known' = known /\ aliases' = aliases
      BY Zenon DEF SetOption
<1>2. /\ DOMAIN options = Setting /\ DOMAIN engine = HistoryOption /\ DOMAIN aliases = AliasName
      /\ active.profile \in DOMAIN known.profiles /\ active.theme \in DOMAIN known.themes
      /\ \A j \in Setting : Accepts(j, options[j])
      BY Zenon DEF InForce
<1>3. DOMAIN options' = Setting /\ \A j \in Setting : options'[j] = IF j = k THEN v ELSE options[j]
      BY <1>1, <1>2
<1>4. \A j \in Setting : Accepts(j, options'[j])
      BY <1>2, <1>3, Zenon
<1>5. /\ active'.profile \in DOMAIN known'.profiles /\ active'.theme \in DOMAIN known'.themes
      /\ DOMAIN aliases' = AliasName /\ DOMAIN engine' = HistoryOption
      BY <1>1, <1>2, Zenon
<1> QED BY <1>1, <1>3, <1>4, <1>5, Zenon DEF InForce, Accepts, AcceptsColor, AcceptsHistory,
        AcceptsOption, Setting

\* The settings and the names that are active stay as they are.
LEMMA AliasesForced ==
    ASSUME InForce, UNCHANGED <<options, engine, active, known>>, DOMAIN aliases' = AliasName
    PROVE  InForce' /\ known' = known
<1>1. /\ options' = options /\ engine' = engine /\ active' = active /\ known' = known
      OBVIOUS
<1>2. \A k, v : Accepts(k, v)' <=> Accepts(k, v)
      BY Zenon DEF Accepts, AcceptsColor, AcceptsHistory, AcceptsOption
<1> QED BY <1>1, <1>2, Zenon DEF InForce, Setting

\* So do the settings when another profile or theme is active, or others are known.
LEMMA ActiveForced ==
    ASSUME InForce, UNCHANGED <<options, engine, aliases>>,
           active'.profile \in DOMAIN known'.profiles, active'.theme \in DOMAIN known'.themes
    PROVE  InForce'
<1>1. /\ options' = options /\ engine' = engine /\ aliases' = aliases
      OBVIOUS
<1>2. \A k, v : Accepts(k, v)' <=> Accepts(k, v)
      BY Zenon DEF Accepts, AcceptsColor, AcceptsHistory, AcceptsOption
<1> QED BY <1>1, <1>2, Zenon DEF InForce, Setting

\* A part of config_reset puts back what has been accepted, and what is always known.
LEMMA RestoreForced ==
    ASSUME InForce, Named, NEW part, Restore(part)
    PROVE  InForce' /\ known' = known
<1>1. /\ options' = [k \in Setting |-> IF Section(k) = part THEN Default[k] ELSE options[k]]
      /\ active' = [profile |-> IF part = "profile" THEN "default" ELSE active.profile,
                    theme   |-> IF part = "theme" THEN "default" ELSE active.theme]
      /\ aliases' = IF part = "aliases" THEN [a \in AliasName |-> None] ELSE aliases
      /\ engine' = engine /\ known' = known
      BY Zenon DEF Restore
<1>2. /\ DOMAIN options = Setting /\ DOMAIN engine = HistoryOption /\ DOMAIN aliases = AliasName
      /\ active.profile \in DOMAIN known.profiles /\ active.theme \in DOMAIN known.themes
      /\ \A j \in Setting : Accepts(j, options[j])
      BY Zenon DEF InForce
<1>3. DOMAIN options' = Setting /\ DOMAIN engine' = HistoryOption /\ DOMAIN aliases' = AliasName
      BY <1>1, <1>2
<1>4. ASSUME NEW j \in Setting PROVE Accepts(j, options'[j])
  <2>1. Accepts(j, Default[j])
        BY DefaultAssumption, Zenon
  <2>2. options'[j] = Default[j] \/ options'[j] = options[j]
        BY <1>1, Zenon
  <2> QED BY <1>2, <2>1, <2>2, Zenon
<1>5. active'.profile \in DOMAIN known'.profiles /\ active'.theme \in DOMAIN known'.themes
  <2>1. "default" \in DOMAIN known.profiles /\ "default" \in DOMAIN known.themes
        BY TableAssumption DEF Named
  <2>2. /\ active'.profile \in {"default", active.profile}
        /\ active'.theme \in {"default", active.theme}
        BY <1>1
  <2> QED BY <1>1, <1>2, <2>1, <2>2
<1> QED BY <1>1, <1>3, <1>4, <1>5, Zenon DEF InForce, Accepts, AcceptsColor, AcceptsHistory,
        AcceptsOption, Setting

\* The history engine has the same options after it is told of one.
LEMMA TellForced ==
    ASSUME InForce, TellEngine
    PROVE  InForce' /\ known' = known
<1>1. PICK k \in This.keys : engine' = EngineTold(k)
      BY Zenon DEF TellEngine
<1>2. /\ options' = options /\ active' = active /\ known' = known /\ aliases' = aliases
      BY Zenon DEF TellEngine
<1>3. DOMAIN engine' = DOMAIN engine
      BY <1>1 DEF EngineTold
<1>4. \A j, v : Accepts(j, v)' <=> Accepts(j, v)
      BY Zenon DEF Accepts, AcceptsColor, AcceptsHistory, AcceptsOption
<1> QED BY <1>2, <1>3, <1>4, Zenon DEF InForce, Setting

\* The names stay known as long as the tables and the user do.
LEMMA NamedSame ==
    ASSUME Named, known' = known, user' = user
    PROVE  Named'
<1>1. Ours' = Ours
      BY Zenon DEF Ours
<1> QED BY <1>1, Zenon DEF Named

\* A call on the configuration that is next.
LEMMA ConfigureForced ==
    ASSUME InForce, Named, Sound(This), Configure
    PROVE  InForce' /\ Named'
<1>1. user' = user /\ ~Raises(This)
      BY Zenon DEF Configure, Calls, ByUser
<1>2. /\ This.do = "option"  => Accepts(This.key, This.value)
      /\ This.do = "profile" => This.value \in DOMAIN known.profiles
      /\ This.do = "theme"   => This.value \in DOMAIN known.themes
      /\ This.do = "pack"    => This.value \in DOMAIN Pack
      BY <1>1 DEF Raises
<1>3. InForce' /\ known' = known
  <2>0. /\ DOMAIN aliases = AliasName
        /\ active.profile \in DOMAIN known.profiles /\ active.theme \in DOMAIN known.themes
        BY Zenon DEF InForce
  <2>1. CASE Calls("option") /\ SetOption(This.key, This.value)
    <3>1. This.do = "option"
          BY <2>1, Zenon DEF Calls, Doing, This
    <3> QED BY <1>2, <2>1, <3>1, SetForced, Zenon
  <2>2. CASE Calls("profile") /\ SetProfile(This.value)
    <3>1. This.do = "profile" /\ active' = [active EXCEPT !.profile = This.value]
          BY <2>2, Zenon DEF Calls, Doing, This, SetProfile
    <3>2. /\ known' = known /\ UNCHANGED <<options, engine, aliases>>
          BY <2>2, Zenon DEF SetProfile
    <3>3. active'.profile = This.value \/ active'.profile = active.profile
          BY <3>1
    <3>4. active'.theme = active.theme
          BY <3>1
    <3> QED BY <1>2, <2>0, <3>1, <3>2, <3>3, <3>4, ActiveForced, Zenon
  <2>3. CASE Calls("theme") /\ SetTheme(This.value)
    <3>1. This.do = "theme" /\ active' = [active EXCEPT !.theme = This.value]
          BY <2>3, Zenon DEF Calls, Doing, This, SetTheme
    <3>2. /\ known' = known /\ UNCHANGED <<options, engine, aliases>>
          BY <2>3, Zenon DEF SetTheme
    <3>3. active'.theme = This.value \/ active'.theme = active.theme
          BY <3>1
    <3>4. active'.profile = active.profile
          BY <3>1
    <3> QED BY <1>2, <2>0, <3>1, <3>2, <3>3, <3>4, ActiveForced, Zenon
  <2>4. CASE Calls("pack") /\ SetAliases(Pack[This.value])
    <3>1. This.do = "pack"
          BY <2>4, Zenon DEF Calls, Doing, This
    <3>2. DOMAIN Pack[This.value] \subseteq AliasName
          BY <1>2, <3>1, TableAssumption, Zenon
    <3>3. DOMAIN aliases' = DOMAIN Pack[This.value] \cup DOMAIN aliases
          BY <2>4, OverNames, Zenon DEF SetAliases
    <3>4. DOMAIN aliases' = AliasName /\ UNCHANGED <<options, engine, active, known>>
          BY <2>0, <2>4, <3>2, <3>3 DEF SetAliases
    <3> QED BY <3>4, AliasesForced, Zenon
  <2>5. CASE Calls("alias") /\ SetAliases(Aliasing(This))
    <3>1. This.do = "alias"
          BY <2>5, Zenon DEF Calls, Doing, This
    <3>2. DOMAIN Aliasing(This) = {This.key} /\ This.key \in AliasName
          BY <3>1 DEF Aliasing, Sound
    <3>3. DOMAIN aliases' = DOMAIN Aliasing(This) \cup DOMAIN aliases
          BY <2>5, OverNames, Zenon DEF SetAliases
    <3>4. DOMAIN aliases' = AliasName /\ UNCHANGED <<options, engine, active, known>>
          BY <2>0, <2>5, <3>2, <3>3 DEF SetAliases
    <3> QED BY <3>4, AliasesForced, Zenon
  <2>6. CASE Calls("unalias") /\ RemoveAlias(This.key)
    <3>1. DOMAIN aliases' = DOMAIN aliases /\ UNCHANGED <<options, engine, active, known>>
          BY <2>6 DEF RemoveAlias
    <3> QED BY <2>0, <3>1, AliasesForced, Zenon
  <2>7. CASE Calls("reset") /\ UNCHANGED config
        BY <2>7, ForcedSame, Zenon DEF config
  <2>8. CASE Calls("restore") /\ Restore(This.value)
        BY <2>8, RestoreForced, Zenon
  <2> QED BY <2>1, <2>2, <2>3, <2>4, <2>5, <2>6, <2>7, <2>8, Zenon DEF Configure
<1> QED BY <1>1, <1>3, NamedSame, Zenon

\* The files are applied: what they come to is known.
LEMMA DeclareForced ==
    ASSUME user \in Users, InForce, Named, Sound(This), LoadDeclarative
    PROVE  InForce' /\ Named'
<1>1. /\ This.do = "declare" /\ Know(This.config) /\ user' = user
      BY Zenon DEF LoadDeclarative, Doing, This, ByUser
<1>2. This.config = Ours
      BY <1>1, Zenon DEF Sound
<1>3. /\ known' = [profiles |-> Ours.profiles, themes |-> Ours.themes]
      /\ UNCHANGED <<options, engine, active, aliases>>
      BY <1>1, <1>2, Zenon DEF Know
<1>4. known'.profiles = Ours.profiles /\ known'.themes = Ours.themes
      BY <1>3
<1>5. /\ DOMAIN BuiltinProfile \subseteq DOMAIN Ours.profiles /\ DOMAIN BuiltinTheme \subseteq DOMAIN Ours.themes
      BY BuiltinKnown, Zenon DEF Ours
<1>6. Ours' = Ours
      BY <1>1, Zenon DEF Ours
<1>7. Named'
      BY <1>4, <1>5, <1>6 DEF Named
<1>8. active'.profile \in DOMAIN known'.profiles /\ active'.theme \in DOMAIN known'.themes
      BY <1>3, <1>4 DEF InForce, Named
<1>9. InForce'
      BY <1>3, <1>8, ActiveForced, Zenon
<1> QED BY <1>7, <1>9

\* Who changes the configuration.
LEMMA ConfigStep ==
    ASSUME [Next]_vars
    PROVE  \/ Configure \/ TellEngine \/ ImportProfile \/ LoadDeclarative
           \/ UNCHANGED config /\ user' = user
<1>1. BeginFile \/ RunIf \/ RunFor \/ SetLoopvar \/ RunWhile => UNCHANGED config /\ user' = user
      BY Zenon DEF BeginFile, RunIf, RunFor, SetLoopvar, RunWhile, ByUser
<1>2. RefuseSetting \/ RegisterHook \/ EnablePlugin \/ Throw => UNCHANGED config /\ user' = user
      BY Zenon DEF RefuseSetting, RegisterHook, EnablePlugin, Throw, ByUser
<1>3. PutVariable \/ Notice \/ AssignVariable \/ ExportVariable \/ SourceFile => UNCHANGED config /\ user' = user
      BY Zenon DEF PutVariable, Notice, AssignVariable, ExportVariable, SourceFile, ByUser
<1>4. Activate \/ Deactivate \/ PutLocalsBack \/ LoadPlugin \/ StageCall => UNCHANGED config /\ user' = user
      BY Zenon DEF Activate, Deactivate, PutLocalsBack, LoadPlugin, StageCall, ByUser
<1>5. Validate \/ PublishTable \/ RunHook \/ InvokeCommand \/ LoadPython => UNCHANGED config /\ user' = user
      BY Zenon DEF Validate, PublishTable, RunHook, InvokeCommand, LoadPython, ByUser
<1>6. DiscoverPlugins \/ RunStartupHooks \/ StartPrompt \/ EndFrame \/ Save => UNCHANGED config /\ user' = user
      BY Zenon DEF DiscoverPlugins, RunStartupHooks, StartPrompt, EndFrame, Save, ByUser
<1>7. TypeLine \/ EndOfInput \/ CtrlC => UNCHANGED config /\ user' = user
      BY Zenon DEF TypeLine, EndOfInput, CtrlC, ByUser
<1>8. UNCHANGED vars => UNCHANGED config /\ user' = user
      BY Zenon DEF vars, session
<1> QED BY <1>1, <1>2, <1>3, <1>4, <1>5, <1>6, <1>7, <1>8, Zenon DEF Next, Step

\* Every step keeps what is in force valid and known.
LEMMA ForcedKept ==
    ASSUME IInv, InForce, Named, [Next]_vars
    PROVE  InForce' /\ Named'
<1>1. user \in Users
      BY Zenon DEF IInv
<1>2. work # <<>> => Sound(This)
      BY HeadSound, Zenon
<1>3. ASSUME Configure PROVE InForce' /\ Named'
  <2>1. work # <<>>
        BY <1>3, Zenon DEF Configure, Calls, Doing
  <2> QED BY <1>2, <1>3, <2>1, ConfigureForced, Zenon
<1>4. ASSUME LoadDeclarative PROVE InForce' /\ Named'
  <2>1. work # <<>>
        BY <1>4, Zenon DEF LoadDeclarative, Doing
  <2> QED BY <1>1, <1>2, <1>4, <2>1, DeclareForced, Zenon
<1>5. ASSUME ImportProfile PROVE InForce' /\ Named'
  <2>1. /\ aliases' = Imported(This.alias) /\ UNCHANGED <<options, engine, active, known>> /\ user' = user
        BY <1>5, Zenon DEF ImportProfile, ByUser
  <2>2. DOMAIN aliases' = AliasName
        BY <2>1, Zenon DEF Imported
  <2> QED BY <2>1, <2>2, AliasesForced, NamedSame, Zenon
<1>6. ASSUME UNCHANGED config, user' = user PROVE InForce' /\ Named'
  <2>1. known' = known
        BY <1>6, Zenon DEF config
  <2> QED BY <1>6, <2>1, ForcedSame, NamedSame, Zenon
<1>7. ASSUME TellEngine PROVE InForce' /\ Named'
  <2>1. user' = user
        BY <1>7, Zenon DEF TellEngine, ByUser
  <2> QED BY <1>7, <2>1, TellForced, NamedSame, Zenon
<1> QED BY <1>3, <1>4, <1>5, <1>6, <1>7, ConfigStep, Zenon

\* What is left to be done is always a list.
LEMMA WorkIsList == ASSUME IInv PROVE IsList(work)
<1>1. user \in Users /\ Phases
      BY Zenon DEF IInv
<1>2. ASSUME NEW q, Awaiting(q) PROVE IsList(work)
  <2>1. work = q \o Discovery /\ IsList(q) /\ IsList(Discovery)
        BY <1>2, DiscoveryUnwinds, Zenon DEF Awaiting, List
  <2> QED BY <2>1, JoinIsList, Zenon
<1>3. ASSUME NEW m, Between(m) PROVE IsList(work)
      BY <1>1, <1>3, PartsAreLists, Zenon DEF Between
<1>4. ASSUME NEW m, NEW k, NEW q, Registering(m, k, q) PROVE IsList(work)
  <2>1. /\ IsList(q) /\ IsList(Rest(Register(m), k) \o Committal(m))
        /\ work = q \o (Rest(Register(m), k) \o Committal(m))
        BY <1>1, <1>4, RegisteringIs, Zenon
  <2> QED BY <2>1, JoinIsList, Zenon
<1>5. ASSUME NEW m, NEW j, Committing(m, j) PROVE IsList(work)
  <2>1. j \in 0..6 /\ work = Rest(Publications, j) \o Ending(m, FALSE)
        BY <1>5, Zenon DEF Committing
  <2>2. IsList(Publications) /\ Len(Publications) = 6
        BY Publishes, Zenon
  <2>3. IsList(Rest(Publications, j))
        BY <2>1, <2>2, RestIs
  <2> QED BY <1>1, <2>1, <2>3, PartsAreLists, JoinIsList, Zenon
<1>6. ASSUME NEW m, Abandoned(m) PROVE IsList(work)
      BY <1>1, <1>6, PartsAreLists, Zenon DEF Abandoned
<1>7. ASSUME Finished PROVE IsList(work)
      BY <1>7, Zenon DEF Finished, List
<1> QED BY <1>1, <1>2, <1>3, <1>4, <1>5, <1>6, <1>7, Zenon DEF Phases

\* What is told next.
LEMMA TellingNext ==
    ASSUME NEW keys, keys # {}, IsList(work), work # <<>>, Then(Telling(keys))
    PROVE  Untold' = keys
<1> DEFINE c == [do |-> "tell", keys |-> keys]
<1>1. work' = <<c>> \o Tail(work)
      BY DEF Then, Telling
<1>2. c.do = "tell" /\ c.keys = keys
      OBVIOUS
<1> HIDE DEF c
<1>3. IsList(Tail(work)) /\ IsList(<<c>>) /\ <<c>> # <<>> /\ Head(<<c>>) = c
      BY Ends, Joins
<1>4. work' # <<>> /\ Head(work') = c
      BY <1>1, <1>3, Ends
<1> QED BY <1>2, <1>4 DEF Untold, Doing, This

\* The engine follows as long as it, the options and what it missed stay as they are, and
\* no call to it is next.
LEMMA FollowsSame ==
    ASSUME EngineFollows, UNCHANGED <<options, engine>>, behind \subseteq behind', Untold \subseteq behind' \cup Untold'
    PROVE  EngineFollows'
BY DEF EngineFollows

\* A setter of its options leaves the call to it for next.
LEMMA ConfigureFollows ==
    ASSUME IsList(work), InForce, EngineFollows, Configure
    PROVE  EngineFollows'
<1>0. work # <<>>
      BY Zenon DEF Configure, Calls, Doing
<1>1. behind' = behind
      BY Zenon DEF Configure, Calls, ghosts
<1>2. Untold = {}
  <2>1. This.do # "tell"
        BY Does
  <2> QED BY <2>1 DEF Untold, Doing, This
<1>3. \A k \in HistoryOption : engine[k] # options[k] => k \in behind
      BY <1>2 DEF EngineFollows
<1>4. HistoryOption \subseteq Setting /\ DOMAIN options = Setting
      BY SettingAssumption DEF Setting, InForce
<1>5. CASE SetOption(This.key, This.value) /\ Then(Telling({This.key} \cap HistoryOption))
  <2>1. options' = [options EXCEPT ![This.key] = This.value] /\ engine' = engine
        BY <1>5, Zenon DEF SetOption
  <2>2. ASSUME NEW k \in HistoryOption, engine'[k] # options'[k], k # This.key PROVE k \in behind'
        BY <1>1, <1>3, <1>4, <2>1, <2>2
  <2>3. ASSUME This.key \in HistoryOption PROVE This.key \in Untold'
    <3>1. {This.key} \cap HistoryOption # {} /\ This.key \in {This.key} \cap HistoryOption
          BY <2>3
    <3> QED BY <1>0, <1>5, <3>1, TellingNext, Zenon
  <2> QED BY <2>2, <2>3, Zenon DEF EngineFollows
<1>6. CASE Restore(This.value) /\ Then(Telling(IF This.value = "history" THEN HistoryOption ELSE {}))
  <2>1. /\ options' = [k \in Setting |-> IF Section(k) = This.value THEN Default[k] ELSE options[k]]
        /\ engine' = engine
        BY <1>6, Zenon DEF Restore
  <2>2. CASE This.value = "history"
    <3>1. ASSUME NEW k \in HistoryOption PROVE k \in Untold'
      <4>1. HistoryOption # {}
            OBVIOUS
      <4> QED BY <1>0, <1>6, <2>2, <4>1, TellingNext, Zenon
    <3> QED BY <3>1, Zenon DEF EngineFollows
  <2>3. CASE This.value # "history"
    <3>1. \A k \in HistoryOption : options'[k] = options[k]
          BY <1>4, <2>1, <2>3 DEF Section
    <3> QED BY <1>1, <1>3, <2>1, <3>1, Zenon DEF EngineFollows
  <2> QED BY <2>2, <2>3
<1>7. CASE UNCHANGED <<options, engine>>
      BY <1>1, <1>2, <1>7, FollowsSame
<1> QED BY <1>5, <1>6, <1>7, Zenon DEF Configure, SetProfile, SetTheme, SetAliases, RemoveAlias, config

\* The engine is told of one option; the others are told next.
LEMMA TellFollows ==
    ASSUME IsList(work), InForce, EngineFollows, TellEngine
    PROVE  EngineFollows'
<1>1. PICK k \in This.keys : /\ engine' = EngineTold(k) /\ behind' = behind \ {k}
                             /\ Then(Telling(This.keys \ {k}))
      BY Zenon DEF TellEngine
<1>2. options' = options /\ Untold = This.keys /\ DOMAIN engine = HistoryOption /\ work # <<>>
      BY Zenon DEF TellEngine, Untold, InForce, Doing
<1>3. \A j \in HistoryOption : engine'[j] = IF j = k THEN options[j] ELSE engine[j]
      BY <1>1, <1>2 DEF EngineTold
<1>4. ASSUME NEW j \in HistoryOption, engine'[j] # options'[j]
      PROVE  j \in behind' \cup Untold'
  <2>1. j # k /\ j \in behind \cup This.keys
        BY <1>2, <1>3, <1>4 DEF EngineFollows
  <2>2. CASE j \in behind
        BY <1>1, <2>1, <2>2
  <2>3. CASE j \in This.keys
    <3>1. j \in This.keys \ {k} /\ This.keys \ {k} # {}
          BY <2>1, <2>3
    <3>2. Untold' = This.keys \ {k}
          BY <1>1, <1>2, <3>1, TellingNext, Zenon
    <3> QED BY <3>1, <3>2
  <2> QED BY <2>1, <2>2, <2>3
<1> QED BY <1>4, Zenon DEF EngineFollows

\* No other step changes the options, the engine or what it missed, but for Ctrl+C.
LEMMA OthersFollow ==
    ASSUME [Next]_vars, ~Configure, ~TellEngine
    PROVE  /\ UNCHANGED <<options, engine>> /\ behind \subseteq behind'
           /\ Untold \subseteq behind' \cup Untold'
<1> DEFINE Same == UNCHANGED <<options, engine, behind>>
<1>1. BeginFile \/ RunIf \/ RunFor \/ SetLoopvar \/ RunWhile => Same
      BY Zenon DEF BeginFile, RunIf, RunFor, SetLoopvar, RunWhile, config, ghosts
<1>2. RefuseSetting \/ RegisterHook \/ EnablePlugin \/ Throw => Same
      BY Zenon DEF RefuseSetting, RegisterHook, EnablePlugin, Throw, config, ghosts
<1>3. PutVariable \/ Notice \/ AssignVariable \/ ExportVariable \/ SourceFile => Same
      BY Zenon DEF PutVariable, Notice, AssignVariable, ExportVariable, SourceFile, config, ghosts
<1>4. Activate \/ Deactivate \/ PutLocalsBack \/ LoadPlugin \/ StageCall \/ ImportProfile => Same
      BY Zenon DEF Activate, Deactivate, PutLocalsBack, LoadPlugin, StageCall, ImportProfile, config, ghosts
<1>5. Validate \/ PublishTable \/ RunHook \/ InvokeCommand \/ LoadPython => Same
      BY Zenon DEF Validate, PublishTable, RunHook, InvokeCommand, LoadPython, config, ghosts
<1>6. DiscoverPlugins \/ RunStartupHooks \/ StartPrompt \/ EndFrame \/ Save => Same
      BY Zenon DEF DiscoverPlugins, RunStartupHooks, StartPrompt, EndFrame, Save, config, ghosts
<1>7. LoadDeclarative => Same
      BY Zenon DEF LoadDeclarative, Know, config, ghosts
<1>8. ASSUME Step PROVE Same /\ Untold = {}
  <2>1. Same
        BY <1>1, <1>2, <1>3, <1>4, <1>5, <1>6, <1>7, <1>8, Zenon DEF Step
  <2>2. This.do # "tell"
        BY <1>8, Does DEF Step
  <2> QED BY <2>1, <2>2 DEF Untold, Doing, This
<1>9. ASSUME TypeLine \/ EndOfInput PROVE Same /\ Untold = {}
  <2>1. Same /\ work = <<>>
        BY <1>9, Zenon DEF TypeLine, EndOfInput, config, ghosts
  <2> QED BY <2>1 DEF Untold, Doing
<1>10. ASSUME CtrlC PROVE UNCHANGED <<options, engine>> /\ behind' = behind \cup Untold
       BY <1>10, Zenon DEF CtrlC, config
<1>11. ASSUME UNCHANGED vars PROVE Same /\ Untold' = Untold
  <2>1. Same /\ work' = work
        BY <1>11, Zenon DEF vars, config, session, ghosts
  <2> QED BY <2>1, Zenon DEF Untold, Doing, This
<1> QED BY <1>8, <1>9, <1>10, <1>11 DEF Next

\* Every step keeps the engine with the options.
LEMMA FollowsKept ==
    ASSUME IInv, InForce, EngineFollows, [Next]_vars
    PROVE  EngineFollows'
<1>1. IsList(work)
      BY WorkIsList
<1>2. CASE Configure
      BY <1>1, <1>2, ConfigureFollows, Zenon
<1>3. CASE TellEngine
      BY <1>1, <1>3, TellFollows, Zenon
<1>4. CASE ~Configure /\ ~TellEngine
      BY <1>4, OthersFollow, FollowsSame, Zenon
<1> QED BY <1>2, <1>3, <1>4, Zenon

\* What is in force has passed its validator, the active profile and theme are known, and the
\* history engine works with the options that the shell shows, but for those of which a
\* Ctrl+C kept the shell from telling it: whatever the files say, in whatever order programs
\* ask, and wherever a request fails or is interrupted half way (config/api.py, the setters
\* and reset_config, HistoryEngine.set_option, and config/runtime.py, apply_declarative_config).
THEOREM InForceAlways ==
    ASSUME ~WhilePublishing
    PROVE  Spec => [](InForce /\ EngineFollows)
<1> DEFINE Inv == IInv /\ InForce /\ Named /\ EngineFollows
<1>1. Init => Inv
      BY InitInv, InitForced
<1>2. Inv /\ [Next]_vars => Inv'
      BY Invariance, ForcedKept, FollowsKept
<1>3. Inv => InForce /\ EngineFollows
      OBVIOUS
<1> QED BY <1>1, <1>2, <1>3, PTL DEF Spec

=============================================================================
