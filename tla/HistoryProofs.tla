--------------------------- MODULE HistoryProofs ---------------------------
(***************************************************************************)
(* For any number of shells, any commands, settings and old histories, and *)
(* with shells killed and writes failing at any point: where the lock      *)
(* works and the file can be read, a compaction is exclusive, the data     *)
(* file changes as HistoryFile says, and it is worth every line completed. *)
(***************************************************************************)
EXTENDS HistoryEngine, TLAPS, WellFoundedInduction

----------------------------------------------------------------------------
(* Lists.                                                                   *)

\* The least-number principle, from the well-foundedness of the naturals.
LEMMA LeastNumber ==
    ASSUME NEW T, T \subseteq Nat, T # {}
    PROVE  \E n \in T : \A m \in T : n <= m
<1> DEFINE R == OpToRel(<, Nat)
<1>1. PICK n \in T : \A m \in T : ~(<<m, n>> \in R)
      BY NatLessThanWellFounded, WFMin, Zenon
<1>2. \A m \in T : ~(m < n)
      BY <1>1 DEF OpToRel
<1> QED BY <1>2

\* Induction on the length of a list, for the lengths in a set.
LEMMA Climb ==
    ASSUME NEW S, 0 \in S, \A n \in Nat : n \in S => n + 1 \in S
    PROVE  \A n \in Nat : n \in S
<1> SUFFICES ASSUME NEW n \in Nat, n \notin S PROVE FALSE
    OBVIOUS
<1> DEFINE T == {m \in Nat : m \notin S}
<1>1. PICK m \in T : \A k \in T : m <= k
      BY LeastNumber
<1>2. m # 0 /\ m - 1 \in Nat /\ m - 1 \notin T
      BY <1>1
<1>3. (m - 1) + 1 \in S
      BY <1>2
<1> QED BY <1>1, <1>3

\* The largest of some positions of a list.
LEMMA LargestPosition ==
    ASSUME NEW n \in Nat, NEW s \in SUBSET (1..(n + 1)), n + 1 \in s
    PROVE  Max(s) = n + 1
<1>1. \A y \in s : y \in Int /\ n + 1 >= y
      OBVIOUS
<1>2. \A x \in s : (\A y \in s : x >= y) => x = n + 1
      BY <1>1
<1> QED BY <1>1, <1>2 DEF Max

\* A fold takes the positions of its list from the largest down.
FoldOver(f, es, T, base, step) ==
    /\ f \in [SUBSET (1..Len(es)) -> T]
    /\ \A s \in SUBSET (1..Len(es)) :
          f[s] = IF s = {} THEN base ELSE step[<<f[s \ {Max(s)}], es[Max(s)]>>]

\* The function that a fold is defined by exists.
LEMMA FoldExists ==
    ASSUME NEW T, NEW E, NEW es \in Seq(E), NEW base \in T, NEW step \in [T \X E -> T]
    PROVE  \E f : FoldOver(f, es, T, base, step)
<1> DEFINE Folds(n) ==
               \E f \in [SUBSET (1..n) -> T] : \A s \in SUBSET (1..n) :
                   f[s] = IF s = {} THEN base ELSE step[<<f[s \ {Max(s)}], es[Max(s)]>>]
           Good == {n \in Nat : n <= Len(es) => Folds(n)}
<1> HIDE DEF Folds
<1>1. 0 \in Good
  <2>1. SUBSET (1..0) = {{}}
        OBVIOUS
  <2>2. [s \in SUBSET (1..0) |-> base] \in [SUBSET (1..0) -> T]
        OBVIOUS
  <2>3. Folds(0)
        BY <2>1, <2>2 DEF Folds
  <2> QED BY <2>3
<1>2. ASSUME NEW n \in Nat, n \in Good PROVE n + 1 \in Good
  <2> SUFFICES ASSUME n + 1 <= Len(es) PROVE Folds(n + 1)
      OBVIOUS
  <2>0. Folds(n)
        BY <1>2
  <2>1. PICK f \in [SUBSET (1..n) -> T] : \A s \in SUBSET (1..n) :
            f[s] = IF s = {} THEN base ELSE step[<<f[s \ {Max(s)}], es[Max(s)]>>]
        BY <2>0 DEF Folds
  <2> DEFINE g == [s \in SUBSET (1..(n + 1)) |->
                     IF n + 1 \in s THEN step[<<f[s \ {n + 1}], es[n + 1]>>] ELSE f[s]]
  <2>2. \A s \in SUBSET (1..(n + 1)) : s \ {n + 1} \in SUBSET (1..n)
        OBVIOUS
  <2>3. \A s \in SUBSET (1..(n + 1)) : n + 1 \notin s => s \in SUBSET (1..n)
        OBVIOUS
  <2>4. es[n + 1] \in E
        OBVIOUS
  <2>5. g \in [SUBSET (1..(n + 1)) -> T]
    <3>1. ASSUME NEW s \in SUBSET (1..(n + 1)) PROVE g[s] \in T
      <4>1. f[s \ {n + 1}] \in T
            BY <2>2
      <4>2. n + 1 \notin s => f[s] \in T
            BY <2>3
      <4>3. step[<<f[s \ {n + 1}], es[n + 1]>>] \in T
            BY <4>1, <2>4
      <4> QED BY <4>2, <4>3
    <3> QED BY <3>1
  <2>6. \A s \in SUBSET (1..(n + 1)) : n + 1 \notin s => g[s] = f[s]
        OBVIOUS
  <2>7. ASSUME NEW s \in SUBSET (1..(n + 1))
        PROVE  g[s] = IF s = {} THEN base ELSE step[<<g[s \ {Max(s)}], es[Max(s)]>>]
    <3>1. CASE n + 1 \in s
      <4>1. Max(s) = n + 1
            BY <3>1, LargestPosition
      <4>2. s \ {n + 1} \in SUBSET (1..(n + 1)) /\ n + 1 \notin s \ {n + 1}
            OBVIOUS
      <4>3. g[s \ {n + 1}] = f[s \ {n + 1}]
            BY <4>2, <2>6
      <4>4. g[s] = step[<<f[s \ {n + 1}], es[n + 1]>>]
            BY <3>1
      <4> QED BY <3>1, <4>1, <4>3, <4>4
    <3>2. CASE n + 1 \notin s
      <4>1. s \in SUBSET (1..n)
            BY <3>2, <2>3
      <4>2. s \ {Max(s)} \in SUBSET (1..(n + 1)) /\ n + 1 \notin s \ {Max(s)}
            BY <3>2
      <4>3. g[s] = f[s] /\ g[s \ {Max(s)}] = f[s \ {Max(s)}]
            BY <3>2, <4>2, <2>6
      <4> QED BY <4>1, <4>3, <2>1
    <3> QED BY <3>1, <3>2
  <2> HIDE DEF g
  <2> QED BY <2>5, <2>7 DEF Folds
<1>3. \A n \in Nat : n \in Good
  <2> HIDE DEF Good
  <2> QED BY <1>1, <1>2, Climb
<1>4. Folds(Len(es))
      BY <1>3
<1> QED BY <1>4 DEF Folds, FoldOver

\* Some positions of a list have a largest one.
LEMMA SomeLargest ==
    ASSUME NEW n \in Nat, NEW s \in SUBSET (1..n), s # {}
    PROVE  Max(s) \in s
<1> DEFINE T == {n - x : x \in s}
<1>1. T \subseteq Nat /\ T # {}
      OBVIOUS
<1>2. PICK m \in T : \A k \in T : m <= k
      BY <1>1, LeastNumber
<1>3. PICK x \in s : m = n - x
      BY <1>2
<1>4. ASSUME NEW y \in s PROVE x >= y
  <2>1. n - y \in T
        OBVIOUS
  <2>2. m <= n - y
        BY <1>2, <2>1
  <2> QED BY <1>3, <2>2
<1>5. \E z \in s : \A y \in s : z >= y
      BY <1>4
<1> QED BY <1>5 DEF Max

\* One entry more: dropped if it repeats the last; merged if its command is there.
Kept(out, e) == IF out # <<>> /\ Last(out).command = e.command THEN out ELSE Append(out, e)

MergedIn(out, e) ==
    IF Has(out, e.command)
    THEN [i \in DOMAIN out |-> IF out[i].command = e.command THEN Merged(out[i], e) ELSE out[i]]
    ELSE Append(out, e)

\* One entry more leaves a list of entries.
LEMMA KeptIsList ==
    ASSUME NEW out \in Seq(Entry), NEW e \in Entry PROVE Kept(out, e) \in Seq(Entry)
BY DEF Kept

\* Two entries merged are one.
LEMMA MergedIsEntry ==
    ASSUME NEW a \in Entry, NEW e \in Entry PROVE Merged(a, e) \in Entry
BY DEF Merged, Entry

\* Merging leaves a list of entries.
LEMMA MergedInIsList ==
    ASSUME NEW out \in Seq(Entry), NEW e \in Entry
    PROVE  MergedIn(out, e) \in Seq(Entry)
<1>1. CASE Has(out, e.command)
  <2>1. \A i \in 1..Len(out) :
            (IF out[i].command = e.command THEN Merged(out[i], e) ELSE out[i]) \in Entry
        BY MergedIsEntry
  <2> QED BY <1>1, <2>1 DEF MergedIn
<1>2. CASE ~Has(out, e.command)
      BY <1>2 DEF MergedIn
<1> QED BY <1>1, <1>2

\* The values of a fold, from those for the first positions.
LEMMA ConsecutiveFold ==
    ASSUME NEW es \in Seq(Entry)
    PROVE  \E f : /\ DedupConsecutive(es) = f[1..Len(es)]
                  /\ f[1..0] = <<>>
                  /\ \A k \in 1..Len(es) : f[1..k] = Kept(f[1..(k - 1)], es[k])
<1> DEFINE step == [p \in Seq(Entry) \X Entry |-> Kept(p[1], p[2])]
           Defines(f) == f = [s \in SUBSET (1..Len(es)) |->
                                IF s = {} THEN <<>> ELSE Kept(f[s \ {Max(s)}], es[Max(s)])]
           h == CHOOSE f : Defines(f)
<1>1. step \in [Seq(Entry) \X Entry -> Seq(Entry)]
      BY KeptIsList
<1>2. <<>> \in Seq(Entry)
      OBVIOUS
<1>3. PICK f \in [SUBSET (1..Len(es)) -> Seq(Entry)] : \A s \in SUBSET (1..Len(es)) :
          f[s] = IF s = {} THEN <<>> ELSE step[<<f[s \ {Max(s)}], es[Max(s)]>>]
  <2> HIDE DEF step
  <2>1. \E f : FoldOver(f, es, Seq(Entry), <<>>, step)
        BY <1>1, <1>2, FoldExists
  <2> QED BY <2>1 DEF FoldOver
<1>4. ASSUME NEW s \in SUBSET (1..Len(es)), s # {}
      PROVE  f[s] = Kept(f[s \ {Max(s)}], es[Max(s)])
  <2>0. Len(es) \in Nat
        OBVIOUS
  <2>1. Max(s) \in s
        BY <1>4, <2>0, SomeLargest, Zenon
  <2>2. f[s \ {Max(s)}] \in Seq(Entry) /\ es[Max(s)] \in Entry
    <3> DEFINE m == Max(s)
    <3> HIDE DEF m
    <3>1. m \in 1..Len(es) /\ s \ {m} \in SUBSET (1..Len(es))
          BY <2>1 DEF m
    <3>2. f[s \ {m}] \in Seq(Entry)
          BY <3>1, <1>3
    <3>3. es[m] \in Entry
          BY <3>1
    <3> QED BY <3>2, <3>3 DEF m
  <2>3. step[<<f[s \ {Max(s)}], es[Max(s)]>>] = Kept(f[s \ {Max(s)}], es[Max(s)])
        BY <2>2
  <2> QED BY <1>3, <1>4, <2>3
<1> HIDE DEF step
<1>5. Defines(f)
      BY <1>3, <1>4
<1>6. Defines(h)
  <2> HIDE DEF Defines
  <2> QED BY <1>5
<1>7. DedupConsecutive(es) = h[1..Len(es)]
  <2>1. DOMAIN es = 1..Len(es)
        OBVIOUS
  <2> QED BY <2>1, Zenon DEF DedupConsecutive, FoldLeft, MapThenFoldSet, Kept
<1> HIDE DEF h
<1>8. h[1..0] = <<>>
  <2>1. 1..0 = {}
        OBVIOUS
  <2> QED BY <1>6, <2>1
<1>9. ASSUME NEW k \in 1..Len(es) PROVE h[1..k] = Kept(h[1..(k - 1)], es[k])
  <2>1. Max(1..k) = k
    <3>1. k - 1 \in Nat /\ (k - 1) + 1 = k /\ 1..k \in SUBSET (1..k) /\ k \in 1..k
          OBVIOUS
    <3> QED BY <3>1, LargestPosition
  <2>2. 1..k \in SUBSET (1..Len(es)) /\ 1..k # {} /\ (1..k) \ {k} = 1..(k - 1)
        OBVIOUS
  <2>3. h[1..k] = Kept(h[(1..k) \ {Max(1..k)}], es[Max(1..k)])
        BY <1>6, <2>2
  <2> QED BY <2>1, <2>2, <2>3
<1> QED BY <1>7, <1>8, <1>9
\* The same for the merging one.
LEMMA GlobalFold ==
    ASSUME NEW es \in Seq(Entry)
    PROVE  \E f : /\ DedupGlobal(es) = f[1..Len(es)]
                  /\ f[1..0] = <<>>
                  /\ \A k \in 1..Len(es) : f[1..k] = MergedIn(f[1..(k - 1)], es[k])
<1> DEFINE step == [p \in Seq(Entry) \X Entry |-> MergedIn(p[1], p[2])]
           Defines(f) == f = [s \in SUBSET (1..Len(es)) |->
                                IF s = {} THEN <<>> ELSE MergedIn(f[s \ {Max(s)}], es[Max(s)])]
           h == CHOOSE f : Defines(f)
<1>1. step \in [Seq(Entry) \X Entry -> Seq(Entry)]
      BY MergedInIsList
<1>2. <<>> \in Seq(Entry)
      OBVIOUS
<1>3. PICK f \in [SUBSET (1..Len(es)) -> Seq(Entry)] : \A s \in SUBSET (1..Len(es)) :
          f[s] = IF s = {} THEN <<>> ELSE step[<<f[s \ {Max(s)}], es[Max(s)]>>]
  <2> HIDE DEF step
  <2>1. \E f : FoldOver(f, es, Seq(Entry), <<>>, step)
        BY <1>1, <1>2, FoldExists
  <2> QED BY <2>1 DEF FoldOver
<1>4. ASSUME NEW s \in SUBSET (1..Len(es)), s # {}
      PROVE  f[s] = MergedIn(f[s \ {Max(s)}], es[Max(s)])
  <2>0. Len(es) \in Nat
        OBVIOUS
  <2>1. Max(s) \in s
        BY <1>4, <2>0, SomeLargest, Zenon
  <2>2. f[s \ {Max(s)}] \in Seq(Entry) /\ es[Max(s)] \in Entry
    <3> DEFINE m == Max(s)
    <3> HIDE DEF m
    <3>1. m \in 1..Len(es) /\ s \ {m} \in SUBSET (1..Len(es))
          BY <2>1 DEF m
    <3>2. f[s \ {m}] \in Seq(Entry)
          BY <3>1, <1>3
    <3>3. es[m] \in Entry
          BY <3>1
    <3> QED BY <3>2, <3>3 DEF m
  <2>3. step[<<f[s \ {Max(s)}], es[Max(s)]>>] = MergedIn(f[s \ {Max(s)}], es[Max(s)])
        BY <2>2
  <2> QED BY <1>3, <1>4, <2>3
<1> HIDE DEF step
<1>5. Defines(f)
      BY <1>3, <1>4
<1>6. Defines(h)
  <2> HIDE DEF Defines
  <2> QED BY <1>5
<1>7. DedupGlobal(es) = h[1..Len(es)]
  <2>1. DOMAIN es = 1..Len(es)
        OBVIOUS
  <2> QED BY <2>1, Zenon DEF DedupGlobal, FoldLeft, MapThenFoldSet, MergedIn
<1> HIDE DEF h
<1>8. h[1..0] = <<>>
  <2>1. 1..0 = {}
        OBVIOUS
  <2> QED BY <1>6, <2>1
<1>9. ASSUME NEW k \in 1..Len(es) PROVE h[1..k] = MergedIn(h[1..(k - 1)], es[k])
  <2>1. Max(1..k) = k
    <3>1. k - 1 \in Nat /\ (k - 1) + 1 = k /\ 1..k \in SUBSET (1..k) /\ k \in 1..k
          OBVIOUS
    <3> QED BY <3>1, LargestPosition
  <2>2. 1..k \in SUBSET (1..Len(es)) /\ 1..k # {} /\ (1..k) \ {k} = 1..(k - 1)
        OBVIOUS
  <2>3. h[1..k] = MergedIn(h[(1..k) \ {Max(1..k)}], es[Max(1..k)])
        BY <1>6, <2>2
  <2> QED BY <2>1, <2>2, <2>3
<1> QED BY <1>7, <1>8, <1>9


\* Two folds of one list and of the list with one entry more agree on the list.
LEMMA Agree ==
    ASSUME NEW n \in Nat, NEW f, NEW g, f[1..0] = g[1..0],
           \A k \in 1..n : f[1..(k - 1)] = g[1..(k - 1)] => f[1..k] = g[1..k]
    PROVE  f[1..n] = g[1..n]
<1> DEFINE S == {k \in Nat : k <= n => f[1..k] = g[1..k]}
<1>1. 0 \in S
      OBVIOUS
<1>2. ASSUME NEW k \in Nat, k \in S PROVE k + 1 \in S
  <2>1. (k + 1) - 1 = k
        OBVIOUS
  <2> QED BY <1>2, <2>1
<1>3. \A k \in Nat : k \in S
  <2> HIDE DEF S
  <2> QED BY <1>1, <1>2, Climb
<1> QED BY <1>3

\* What a fold makes of one entry more.
LEMMA ConsecutiveSteps ==
    /\ DedupConsecutive(<<>>) = <<>>
    /\ \A es \in Seq(Entry), e \in Entry :
          DedupConsecutive(Append(es, e)) = Kept(DedupConsecutive(es), e)
<1>1. DedupConsecutive(<<>>) = <<>>
  <2>1. <<>> \in Seq(Entry) /\ Len(<<>>) = 0
        OBVIOUS
  <2> QED BY <2>1, ConsecutiveFold
<1>2. ASSUME NEW es \in Seq(Entry), NEW e \in Entry
      PROVE  DedupConsecutive(Append(es, e)) = Kept(DedupConsecutive(es), e)
  <2> DEFINE n == Len(es)
             more == Append(es, e)
  <2>1. /\ n \in Nat /\ more \in Seq(Entry) /\ Len(more) = n + 1 /\ more[n + 1] = e
        /\ \A k \in 1..n : more[k] = es[k]
        OBVIOUS
  <2>2. PICK f : /\ DedupConsecutive(es) = f[1..n] /\ f[1..0] = <<>>
                 /\ \A k \in 1..n : f[1..k] = Kept(f[1..(k - 1)], es[k])
        BY ConsecutiveFold
  <2> HIDE DEF n, more
  <2>3. PICK g : /\ DedupConsecutive(more) = g[1..Len(more)] /\ g[1..0] = <<>>
                 /\ \A k \in 1..Len(more) : g[1..k] = Kept(g[1..(k - 1)], more[k])
        BY <2>1, ConsecutiveFold
  <2>4. ASSUME NEW k \in 1..n, f[1..(k - 1)] = g[1..(k - 1)] PROVE f[1..k] = g[1..k]
    <3>1. k \in 1..Len(more) /\ more[k] = es[k]
          BY <2>1
    <3>2. g[1..k] = Kept(g[1..(k - 1)], more[k])
          BY <2>3, <3>1
    <3> QED BY <2>2, <2>4, <3>1, <3>2
  <2>5. f[1..n] = g[1..n]
        BY <2>1, <2>2, <2>3, <2>4, Agree
  <2>6. g[1..(n + 1)] = Kept(g[1..n], e)
    <3>1. n + 1 \in 1..Len(more) /\ (n + 1) - 1 = n
          BY <2>1
    <3> QED BY <2>1, <2>3, <3>1
  <2> QED BY <2>1, <2>2, <2>3, <2>5, <2>6 DEF more
<1> QED BY <1>1, <1>2

\* The same for the merging one.
LEMMA GlobalSteps ==
    /\ DedupGlobal(<<>>) = <<>>
    /\ \A es \in Seq(Entry), e \in Entry :
          DedupGlobal(Append(es, e)) = MergedIn(DedupGlobal(es), e)
<1>1. DedupGlobal(<<>>) = <<>>
  <2>1. <<>> \in Seq(Entry) /\ Len(<<>>) = 0
        OBVIOUS
  <2> QED BY <2>1, GlobalFold
<1>2. ASSUME NEW es \in Seq(Entry), NEW e \in Entry
      PROVE  DedupGlobal(Append(es, e)) = MergedIn(DedupGlobal(es), e)
  <2> DEFINE n == Len(es)
             more == Append(es, e)
  <2>1. /\ n \in Nat /\ more \in Seq(Entry) /\ Len(more) = n + 1 /\ more[n + 1] = e
        /\ \A k \in 1..n : more[k] = es[k]
        OBVIOUS
  <2>2. PICK f : /\ DedupGlobal(es) = f[1..n] /\ f[1..0] = <<>>
                 /\ \A k \in 1..n : f[1..k] = MergedIn(f[1..(k - 1)], es[k])
        BY GlobalFold
  <2> HIDE DEF n, more
  <2>3. PICK g : /\ DedupGlobal(more) = g[1..Len(more)] /\ g[1..0] = <<>>
                 /\ \A k \in 1..Len(more) : g[1..k] = MergedIn(g[1..(k - 1)], more[k])
        BY <2>1, GlobalFold
  <2>4. ASSUME NEW k \in 1..n, f[1..(k - 1)] = g[1..(k - 1)] PROVE f[1..k] = g[1..k]
    <3>1. k \in 1..Len(more) /\ more[k] = es[k]
          BY <2>1
    <3>2. g[1..k] = MergedIn(g[1..(k - 1)], more[k])
          BY <2>3, <3>1
    <3> QED BY <2>2, <2>4, <3>1, <3>2
  <2>5. f[1..n] = g[1..n]
        BY <2>1, <2>2, <2>3, <2>4, Agree
  <2>6. g[1..(n + 1)] = MergedIn(g[1..n], e)
    <3>1. n + 1 \in 1..Len(more) /\ (n + 1) - 1 = n
          BY <2>1
    <3> QED BY <2>1, <2>3, <3>1
  <2> QED BY <2>1, <2>2, <2>3, <2>5, <2>6 DEF more
<1> QED BY <1>1, <1>2

\* Induction on the entries of a list.
LEMMA ListInduction ==
    ASSUME NEW E, NEW S, <<>> \in S,
           \A es \in Seq(E), e \in E : es \in S => Append(es, e) \in S
    PROVE  \A es \in Seq(E) : es \in S
<1> DEFINE G == {n \in Nat : \A es \in Seq(E) : Len(es) = n => es \in S}
<1>1. 0 \in G
  <2>1. \A es \in Seq(E) : Len(es) = 0 => es = <<>>
        OBVIOUS
  <2> QED BY <2>1
<1>2. ASSUME NEW n \in Nat, n \in G PROVE n + 1 \in G
  <2>1. ASSUME NEW es \in Seq(E), Len(es) = n + 1 PROVE es \in S
    <3> DEFINE less == SubSeq(es, 1, n)
    <3>1. less \in Seq(E) /\ Len(less) = n /\ es[n + 1] \in E
          BY <2>1
    <3>2. es = Append(less, es[n + 1])
          BY <2>1
    <3>3. less \in S
          BY <1>2, <3>1
    <3> HIDE DEF less
    <3>4. Append(less, es[n + 1]) \in S
          BY <3>1, <3>3
    <3> QED BY <3>2, <3>4
  <2> QED BY <2>1
<1>3. \A n \in Nat : n \in G
  <2> HIDE DEF G
  <2> QED BY <1>1, <1>2, Climb
<1> QED BY <1>3

----------------------------------------------------------------------------
(* Lists without duplicates.                                                *)

Stepped(mode, out, e) ==
    CASE mode = "none"        -> Append(out, e)
      [] mode = "global"      -> MergedIn(out, e)
      [] mode = "consecutive" -> Kept(out, e)

\* Each of the three ways goes through its list from the left.
LEMMA DedupSteps ==
    ASSUME NEW mode \in Mode
    PROVE  /\ ApplyDedup(mode, <<>>) = <<>>
           /\ \A es \in Seq(Entry), e \in Entry :
                 ApplyDedup(mode, Append(es, e)) = Stepped(mode, ApplyDedup(mode, es), e)
BY ConsecutiveSteps, GlobalSteps DEF ApplyDedup, Stepped, Mode

\* So does each of the three ways.
LEMMA SteppedIsList ==
    ASSUME NEW mode \in Mode, NEW out \in Seq(Entry), NEW e \in Entry
    PROVE  Stepped(mode, out, e) \in Seq(Entry)
BY KeptIsList, MergedInIsList DEF Stepped, Mode

\* What is left is a list of entries.
LEMMA DedupIsList ==
    ASSUME NEW mode \in Mode, NEW es \in Seq(Entry) PROVE ApplyDedup(mode, es) \in Seq(Entry)
<1> DEFINE S == {l \in Seq(Entry) : ApplyDedup(mode, l) \in Seq(Entry)}
<1>1. <<>> \in S
  <2>1. <<>> \in Seq(Entry)
        OBVIOUS
  <2> QED BY <2>1, DedupSteps
<1>2. ASSUME NEW l \in Seq(Entry), NEW e \in Entry, l \in S PROVE Append(l, e) \in S
  <2>1. Append(l, e) \in Seq(Entry)
        OBVIOUS
  <2>2. ApplyDedup(mode, Append(l, e)) = Stepped(mode, ApplyDedup(mode, l), e)
        BY DedupSteps
  <2>3. Stepped(mode, ApplyDedup(mode, l), e) \in Seq(Entry)
        BY <1>2, SteppedIsList
  <2> QED BY <2>1, <2>2, <2>3
<1>3. \A l \in Seq(Entry) : l \in S
  <2> HIDE DEF S
  <2> QED BY <1>1, <1>2, ListInduction
<1> QED BY <1>3

\* No duplicate that a mode excludes.
Tidy(mode, es) ==
    \A i, j \in DOMAIN es : i < j /\ es[i].command = es[j].command =>
        mode # "global" /\ (mode = "consecutive" => j > i + 1)

\* An entry that takes in another of the same command keeps the command.
LEMMA MergedCommand ==
    ASSUME NEW a \in Entry, NEW e \in Entry, a.command = e.command
    PROVE  Merged(a, e).command = e.command
BY DEF Merged, Entry

\* Merging changes no command.
LEMMA MergedInCommands ==
    ASSUME NEW out \in Seq(Entry), NEW e \in Entry, Has(out, e.command)
    PROVE  /\ DOMAIN MergedIn(out, e) = DOMAIN out
           /\ \A i \in DOMAIN out : MergedIn(out, e)[i].command = out[i].command
BY MergedCommand DEF MergedIn

\* One entry more leaves a list without duplicates.
LEMMA SteppedIsTidy ==
    ASSUME NEW mode \in Mode, NEW out \in Seq(Entry), NEW e \in Entry, Tidy(mode, out)
    PROVE  Tidy(mode, Stepped(mode, out, e))
<1> DEFINE more == Append(out, e)
<1>1. /\ more \in Seq(Entry) /\ DOMAIN more = 1..(Len(out) + 1) /\ more[Len(out) + 1] = e
      /\ \A i \in 1..Len(out) : more[i] = out[i]
      /\ DOMAIN out = 1..Len(out) /\ Len(out) \in Nat
      OBVIOUS
<1> HIDE DEF more
<1>2. CASE mode = "none"
  <2>1. Stepped(mode, out, e) = more
        BY <1>2 DEF Stepped, more
  <2> QED BY <1>2, <2>1 DEF Tidy
<1>3. CASE mode = "global"
  <2>1. Stepped(mode, out, e) = MergedIn(out, e)
        BY <1>3 DEF Stepped
  <2>2. CASE Has(out, e.command)
        BY <1>3, <2>1, <2>2, MergedInCommands DEF Tidy
  <2>3. CASE ~Has(out, e.command)
    <3>1. MergedIn(out, e) = more
          BY <2>3 DEF MergedIn, more
    <3>2. \A i \in 1..Len(out) : out[i].command # e.command
          BY <2>3, <1>1 DEF Has
    <3> QED BY <1>1, <1>3, <2>1, <3>1, <3>2 DEF Tidy
  <2> QED BY <2>2, <2>3
<1>4. CASE mode = "consecutive"
  <2>1. Stepped(mode, out, e) = Kept(out, e)
        BY <1>4 DEF Stepped
  <2>2. CASE out # <<>> /\ Last(out).command = e.command
        BY <2>1, <2>2 DEF Kept
  <2>3. CASE ~(out # <<>> /\ Last(out).command = e.command)
    <3>1. Kept(out, e) = more
          BY <2>3 DEF Kept, more
    <3>2. \A i \in 1..Len(out) : i = Len(out) => out[i].command # e.command
          BY <2>3, <1>1 DEF Last
    <3>3. ASSUME NEW i \in DOMAIN more, NEW j \in DOMAIN more,
                 i < j, more[i].command = more[j].command
          PROVE  j > i + 1
      <4>1. CASE j <= Len(out)
            BY <1>1, <1>4, <3>3, <4>1 DEF Tidy
      <4>2. CASE j = Len(out) + 1
        <5>1. i \in 1..Len(out) /\ out[i].command = e.command
              BY <1>1, <3>3, <4>2
        <5>2. i # Len(out)
              BY <3>2, <5>1
        <5>3. i \in Int /\ Len(out) \in Int /\ i <= Len(out)
              BY <5>1
        <5> QED BY <4>2, <5>2, <5>3
      <4> QED BY <1>1, <4>1, <4>2
    <3> QED BY <1>4, <2>1, <3>1, <3>3 DEF Tidy
  <2> QED BY <2>2, <2>3
<1> QED BY <1>2, <1>3, <1>4 DEF Mode

\* What is left has no duplicates.
LEMMA DedupIsTidy ==
    ASSUME NEW mode \in Mode, NEW es \in Seq(Entry) PROVE Tidy(mode, ApplyDedup(mode, es))
<1> DEFINE S == {l \in Seq(Entry) : Tidy(mode, ApplyDedup(mode, l))}
<1>1. <<>> \in S
  <2>1. Tidy(mode, <<>>)
        BY DEF Tidy
  <2> QED BY <2>1, DedupSteps
<1>2. ASSUME NEW l \in Seq(Entry), NEW e \in Entry, l \in S PROVE Append(l, e) \in S
  <2>1. Append(l, e) \in Seq(Entry) /\ ApplyDedup(mode, l) \in Seq(Entry)
        BY DedupIsList
  <2>2. ApplyDedup(mode, Append(l, e)) = Stepped(mode, ApplyDedup(mode, l), e)
        BY DedupSteps
  <2>3. Tidy(mode, Stepped(mode, ApplyDedup(mode, l), e))
        BY <1>2, <2>1, SteppedIsTidy
  <2> QED BY <2>1, <2>2, <2>3
<1>3. \A l \in Seq(Entry) : l \in S
  <2> HIDE DEF S
  <2> QED BY <1>1, <1>2, ListInduction
<1> QED BY <1>3

\* An entry after which a list is tidy is simply added to it.
LEMMA SteppedAppends ==
    ASSUME NEW mode \in Mode, NEW out \in Seq(Entry), NEW e \in Entry, Tidy(mode, Append(out, e))
    PROVE  Stepped(mode, out, e) = Append(out, e) /\ Tidy(mode, out)
<1> DEFINE more == Append(out, e)
<1>1. /\ DOMAIN more = 1..(Len(out) + 1) /\ more[Len(out) + 1] = e
      /\ \A i \in 1..Len(out) : more[i] = out[i]
      /\ DOMAIN out = 1..Len(out) /\ Len(out) \in Nat /\ Tidy(mode, more)
      OBVIOUS
<1> HIDE DEF more
<1>2. Tidy(mode, out)
      BY <1>1 DEF Tidy
<1>3. CASE mode = "none"
      BY <1>2, <1>3 DEF Stepped
<1>4. CASE mode = "global"
  <2>1. \A i \in 1..Len(out) : out[i].command # e.command
        BY <1>1, <1>4 DEF Tidy
  <2>2. ~Has(out, e.command)
        BY <1>1, <2>1 DEF Has
  <2> QED BY <1>2, <1>4, <2>2 DEF Stepped, MergedIn
<1>5. CASE mode = "consecutive"
  <2>1. out # <<>> => Last(out).command # e.command
        BY <1>1, <1>5 DEF Tidy, Last
  <2> QED BY <1>2, <1>5, <2>1 DEF Stepped, Kept
<1> QED BY <1>3, <1>4, <1>5 DEF Mode

\* A list without duplicates stays as it is.
LEMMA TidyStays ==
    ASSUME NEW mode \in Mode, NEW es \in Seq(Entry), Tidy(mode, es)
    PROVE  ApplyDedup(mode, es) = es
<1> DEFINE S == {l \in Seq(Entry) : Tidy(mode, l) => ApplyDedup(mode, l) = l}
<1>1. <<>> \in S
      BY DedupSteps
<1>2. ASSUME NEW l \in Seq(Entry), NEW e \in Entry, l \in S PROVE Append(l, e) \in S
  <2>1. Append(l, e) \in Seq(Entry)
        OBVIOUS
  <2>2. ASSUME Tidy(mode, Append(l, e)) PROVE ApplyDedup(mode, Append(l, e)) = Append(l, e)
    <3>1. Stepped(mode, l, e) = Append(l, e) /\ Tidy(mode, l)
          BY <2>2, SteppedAppends
    <3>2. ApplyDedup(mode, l) = l
          BY <1>2, <3>1
    <3>3. ApplyDedup(mode, Append(l, e)) = Stepped(mode, ApplyDedup(mode, l), e)
          BY DedupSteps
    <3> QED BY <3>1, <3>2, <3>3
  <2> QED BY <2>1, <2>2
<1>3. \A l \in Seq(Entry) : l \in S
  <2> HIDE DEF S
  <2> QED BY <1>1, <1>2, ListInduction
<1> QED BY <1>3

\* To drop the duplicates twice is to drop them once.
LEMMA DedupTwice ==
    ASSUME NEW mode \in Mode, NEW es \in Seq(Entry)
    PROVE  ApplyDedup(mode, ApplyDedup(mode, es)) = ApplyDedup(mode, es)
BY DedupIsList, DedupIsTidy, TidyStays

\* Where an entry comes from: the newest of those that were merged.
Origins(out, es) ==
    \A i \in DOMAIN out : \E j \in DOMAIN es :
        /\ es[j].command = out[i].command /\ es[j].session = out[i].session
        /\ es[j].timestamp = out[i].timestamp

Covers(out, es) == \A j \in DOMAIN es : Has(out, es[j].command)

\* A merged entry has the time and the session of one of the two.
LEMMA MergedOrigin ==
    ASSUME NEW a \in Entry, NEW e \in Entry, a.command = e.command
    PROVE  \E x \in {a, e} : /\ Merged(a, e).command = x.command
                             /\ Merged(a, e).session = x.session
                             /\ Merged(a, e).timestamp = x.timestamp
BY DEF Merged, Entry

\* One entry more, and its origin.
LEMMA SteppedOrigins ==
    ASSUME NEW mode \in Mode, NEW out \in Seq(Entry), NEW es \in Seq(Entry), NEW e \in Entry,
           Origins(out, es), Covers(out, es)
    PROVE  Origins(Stepped(mode, out, e), Append(es, e)) /\ Covers(Stepped(mode, out, e), Append(es, e))
<1> DEFINE more == Append(es, e)
           longer == Append(out, e)
           same(x, y) == x.command = y.command /\ x.session = y.session /\ x.timestamp = y.timestamp
<1>1. /\ DOMAIN more = 1..(Len(es) + 1) /\ more[Len(es) + 1] = e
      /\ \A i \in DOMAIN es : i \in DOMAIN more /\ more[i] = es[i]
      /\ \A i \in DOMAIN more : i \in DOMAIN es \/ i = Len(es) + 1
      /\ Len(es) + 1 \in DOMAIN more
      OBVIOUS
<1>2. /\ DOMAIN longer = 1..(Len(out) + 1) /\ longer[Len(out) + 1] = e
      /\ \A i \in DOMAIN out : i \in DOMAIN longer /\ longer[i] = out[i]
      /\ \A i \in DOMAIN longer : i \in DOMAIN out \/ i = Len(out) + 1
      /\ Len(out) + 1 \in DOMAIN longer
      OBVIOUS
<1> HIDE DEF more, longer
<1>3. Origins(longer, more) /\ Covers(longer, more)
  <2>1. \A i \in DOMAIN out : \E j \in DOMAIN more : same(more[j], out[i])
        BY <1>1, SMTT(40) DEF Origins
  <2>2. ASSUME NEW i \in DOMAIN longer PROVE \E j \in DOMAIN more : same(more[j], longer[i])
    <3>1. CASE i \in DOMAIN out
          BY <1>2, <2>1, <3>1
    <3>2. CASE i = Len(out) + 1
          BY <1>1, <1>2, <3>2
    <3> QED BY <1>2, <3>1, <3>2
  <2>3. \A j \in DOMAIN es : Has(longer, es[j].command)
        BY <1>2 DEF Covers, Has
  <2>4. Has(longer, e.command)
        BY <1>2 DEF Has
  <2>5. Origins(longer, more)
        BY <2>2 DEF Origins
  <2> QED BY <1>1, <2>5, <2>3, <2>4 DEF Covers
<1>4. CASE mode = "global" /\ Has(out, e.command)
  <2> DEFINE merged == MergedIn(out, e)
  <2>1. Stepped(mode, out, e) = merged
        BY <1>4 DEF Stepped
  <2>2. /\ DOMAIN merged = DOMAIN out
        /\ \A i \in DOMAIN out : merged[i].command = out[i].command
        BY <1>4, MergedInCommands
  <2>3. Covers(merged, more)
    <3>1. \A c : Has(out, c) => Has(merged, c)
          BY <2>2 DEF Has
    <3> QED BY <1>1, <1>4, <3>1 DEF Covers
  <2>4. ASSUME NEW i \in DOMAIN out PROVE \E j \in DOMAIN more : same(more[j], merged[i])
    <3>1. out[i] \in Entry
          OBVIOUS
    <3>2. CASE out[i].command = e.command
      <4>1. merged[i] = Merged(out[i], e)
            BY <1>4, <3>2 DEF MergedIn
      <4>2. PICK x \in {out[i], e} : same(merged[i], x)
            BY <3>1, <3>2, <4>1, MergedOrigin
      <4>3. CASE x = e
            BY <1>1, <4>2, <4>3
      <4>4. CASE x = out[i]
        <5>1. PICK j \in DOMAIN es : same(es[j], out[i])
              BY DEF Origins
        <5> QED BY <1>1, <4>2, <4>4, <5>1
      <4> QED BY <4>2, <4>3, <4>4
    <3>3. CASE out[i].command # e.command
      <4>1. merged[i] = out[i]
            BY <1>4, <3>3 DEF MergedIn
      <4>2. PICK j \in DOMAIN es : same(es[j], out[i])
            BY DEF Origins
      <4> QED BY <1>1, <4>1, <4>2
    <3> QED BY <3>2, <3>3
  <2> HIDE DEF merged
  <2>5. Origins(merged, more)
        BY <2>2, <2>4 DEF Origins
  <2> QED BY <2>1, <2>3, <2>5 DEF more
<1>5. CASE mode = "consecutive" /\ out # <<>> /\ Last(out).command = e.command
  <2>1. Stepped(mode, out, e) = out
        BY <1>5 DEF Stepped, Kept
  <2>2. Origins(out, more)
        BY <1>1, SMTT(40) DEF Origins
  <2>3. Has(out, e.command)
    <3>1. Len(out) \in DOMAIN out
          BY <1>5
    <3> QED BY <1>5, <3>1 DEF Has, Last
  <2>4. Covers(out, more)
        BY <1>1, <2>3 DEF Covers
  <2> QED BY <2>1, <2>2, <2>4 DEF more
<1>6. CASE /\ ~(mode = "global" /\ Has(out, e.command))
           /\ ~(mode = "consecutive" /\ out # <<>> /\ Last(out).command = e.command)
  <2>1. Stepped(mode, out, e) = longer
        BY <1>6 DEF Stepped, MergedIn, Kept, Mode, longer
  <2> QED BY <1>3, <2>1 DEF more
<1> QED BY <1>4, <1>5, <1>6

\* No command is lost, and no entry made up.
LEMMA DedupOrigins ==
    ASSUME NEW mode \in Mode, NEW es \in Seq(Entry)
    PROVE  Origins(ApplyDedup(mode, es), es) /\ Covers(ApplyDedup(mode, es), es)
<1> DEFINE S == {l \in Seq(Entry) : Origins(ApplyDedup(mode, l), l) /\ Covers(ApplyDedup(mode, l), l)}
<1>1. <<>> \in S
  <2>1. Origins(<<>>, <<>>) /\ Covers(<<>>, <<>>)
        BY DEF Origins, Covers
  <2> QED BY <2>1, DedupSteps
<1>2. ASSUME NEW l \in Seq(Entry), NEW e \in Entry, l \in S PROVE Append(l, e) \in S
  <2>1. Append(l, e) \in Seq(Entry) /\ ApplyDedup(mode, l) \in Seq(Entry)
        BY DedupIsList
  <2>2. ApplyDedup(mode, Append(l, e)) = Stepped(mode, ApplyDedup(mode, l), e)
        BY DedupSteps
  <2>3. Origins(ApplyDedup(mode, l), l) /\ Covers(ApplyDedup(mode, l), l)
        BY <1>2
  <2>4. /\ Origins(Stepped(mode, ApplyDedup(mode, l), e), Append(l, e))
        /\ Covers(Stepped(mode, ApplyDedup(mode, l), e), Append(l, e))
        BY <2>1, <2>3, SteppedOrigins
  <2> QED BY <2>1, <2>2, <2>4
<1>3. \A l \in Seq(Entry) : l \in S
  <2> HIDE DEF S
  <2> QED BY <1>1, <1>2, ListInduction
<1> QED BY <1>3

\* Where the order is kept the newest command stays the last.
LEMMA DedupKeepsLast ==
    ASSUME NEW mode \in Mode, mode # "global", NEW es \in Seq(Entry), es # <<>>
    PROVE  /\ ApplyDedup(mode, es) # <<>>
           /\ Last(ApplyDedup(mode, es)).command = Last(es).command
<1> DEFINE l == SubSeq(es, 1, Len(es) - 1)
           e == es[Len(es)]
           out == ApplyDedup(mode, l)
<1>1. l \in Seq(Entry) /\ e \in Entry /\ es = Append(l, e) /\ Last(es) = e
      BY DEF Last
<1>2. out \in Seq(Entry) /\ ApplyDedup(mode, es) = Stepped(mode, out, e)
  <2> HIDE DEF l, e
  <2> QED BY <1>1, DedupIsList, DedupSteps
<1> HIDE DEF l, e, out
<1>3. Append(out, e) # <<>> /\ Last(Append(out, e)) = e
      BY <1>1, <1>2, SMTT(40) DEF Last
<1>4. CASE mode = "none"
      BY <1>1, <1>2, <1>3, <1>4 DEF Stepped
<1>5. CASE mode = "consecutive"
      BY <1>1, <1>2, <1>3, <1>5 DEF Stepped, Kept
<1> QED BY <1>4, <1>5 DEF Mode

----------------------------------------------------------------------------
(* The end of a list, and a list with one command more.                     *)

\* The newest entries are the end of the list.
LEMMA NewestIsEnd ==
    ASSUME NEW n \in Nat, NEW es \in Seq(Entry)
    PROVE  \E d \in Nat : /\ d <= Len(es) /\ (es # <<>> => d < Len(es))
                          /\ Newest(n, es) \in Seq(Entry) /\ Len(Newest(n, es)) = Len(es) - d
                          /\ \A i \in 1..(Len(es) - d) : Newest(n, es)[i] = es[i + d]
                          /\ n = 0 => Newest(n, es) = es
<1>1. CASE n = 0 \/ Len(es) <= n
  <2>1. Newest(n, es) = es
        BY <1>1 DEF Newest
  <2>2. /\ 0 <= Len(es) /\ (es # <<>> => 0 < Len(es)) /\ Len(es) = Len(es) - 0
        /\ \A i \in 1..(Len(es) - 0) : es[i] = es[i + 0]
        OBVIOUS
  <2> QED BY <2>1, <2>2
<1>2. CASE n # 0 /\ Len(es) > n
  <2> DEFINE d == Len(es) - n
  <2>1. d \in Nat /\ d < Len(es) /\ Len(es) - n + 1 = d + 1 /\ Len(es) - d = n
        BY <1>2
  <2>2. Newest(n, es) = SubSeq(es, d + 1, Len(es))
        BY <1>2, <2>1 DEF Newest
  <2> HIDE DEF d
  <2>3. /\ SubSeq(es, d + 1, Len(es)) \in Seq(Entry)
        /\ Len(SubSeq(es, d + 1, Len(es))) = Len(es) - d
        /\ \A i \in 1..(Len(es) - d) : SubSeq(es, d + 1, Len(es))[i] = es[i + d]
        BY <2>1
  <2> QED BY <1>2, <2>1, <2>2, <2>3
<1> QED BY <1>1, <1>2, SMTT(40)

\* The last entry is among them.
LEMMA NewestKeepsLast ==
    ASSUME NEW n \in Nat, NEW es \in Seq(Entry), es # <<>>
    PROVE  Newest(n, es) # <<>> /\ Last(Newest(n, es)) = Last(es)
<1>1. PICK d \in Nat : /\ d < Len(es)
                       /\ Newest(n, es) \in Seq(Entry) /\ Len(Newest(n, es)) = Len(es) - d
                       /\ \A i \in 1..(Len(es) - d) : Newest(n, es)[i] = es[i + d]
      BY NewestIsEnd
<1>2. Len(es) - d \in 1..(Len(es) - d) /\ (Len(es) - d) + d = Len(es)
      BY <1>1
<1>3. Newest(n, es)[Len(es) - d] = es[Len(es)]
      BY <1>1, <1>2
<1> QED BY <1>1, <1>2, <1>3 DEF Last

\* An end of a list without duplicates has none.
LEMMA NewestIsTidy ==
    ASSUME NEW n \in Nat, NEW mode \in Mode, NEW es \in Seq(Entry), Tidy(mode, es)
    PROVE  Tidy(mode, Newest(n, es))
<1>1. PICK d \in Nat : /\ d <= Len(es)
                       /\ Newest(n, es) \in Seq(Entry) /\ Len(Newest(n, es)) = Len(es) - d
                       /\ \A i \in 1..(Len(es) - d) : Newest(n, es)[i] = es[i + d]
      BY NewestIsEnd
<1> DEFINE ns == Newest(n, es)
<1>2. DOMAIN ns = 1..(Len(es) - d)
      BY <1>1
<1> SUFFICES ASSUME NEW i \in DOMAIN ns, NEW j \in DOMAIN ns, i < j, ns[i].command = ns[j].command
             PROVE  mode # "global" /\ (mode = "consecutive" => j > i + 1)
    BY DEF Tidy
<1>0. i \in 1..(Len(es) - d) /\ j \in 1..(Len(es) - d)
      BY <1>2
<1>a. i + d \in DOMAIN es /\ j + d \in DOMAIN es /\ i + d < j + d
      BY <1>0, <1>1
<1>b. ns[i] = es[i + d] /\ ns[j] = es[j + d]
      BY <1>0, <1>1
<1>3. /\ i + d \in DOMAIN es /\ j + d \in DOMAIN es /\ i + d < j + d
      /\ es[i + d].command = es[j + d].command
      BY <1>a, <1>b
<1>4. mode # "global" /\ (mode = "consecutive" => j + d > (i + d) + 1)
      BY <1>3 DEF Tidy
<1> QED BY <1>0, <1>4

\* add: the list stays one without duplicates, holds the new command, and loses none.
LEMMA Added ==
    ASSUME NEW mode \in Mode, NEW es \in Seq(Entry), NEW e \in Entry, Tidy(mode, es)
    PROVE  LET out == AddWithDedup(mode, es, e)
           IN  /\ out \in Seq(Entry) /\ Tidy(mode, out)
               /\ Has(out, e.command) /\ \A c : Has(es, c) => Has(out, c)
<1> DEFINE out == AddWithDedup(mode, es, e)
           same == {i \in DOMAIN es : es[i].command = e.command}
<1>1. CASE mode = "consecutive" /\ es # <<>> /\ Last(es).command = e.command
  <2>1. out = es
        BY <1>1 DEF AddWithDedup
  <2>2. Has(es, e.command)
    <3>1. Len(es) \in DOMAIN es
          BY <1>1
    <3> QED BY <1>1, <3>1 DEF Has, Last
  <2> QED BY <2>1, <2>2
<1>2. CASE mode = "global" /\ same # {}
  <2> DEFINE k == CHOOSE j \in same : \A x \in same : j <= x
             rest == RemoveAt(es, k)
             merged == Merged(es[k], e)
  <2>1. same \subseteq Nat
        OBVIOUS
  <2>2. k \in same
    <3>1. \E j \in same : \A x \in same : j <= x
          BY <1>2, <2>1, LeastNumber
    <3> QED BY <3>1
  <2>3. out = Append(rest, merged)
        BY <1>2 DEF AddWithDedup
  <2> HIDE DEF k, out
  <2>4. k \in 1..Len(es) /\ es[k] \in Entry /\ es[k].command = e.command
        BY <2>2
  <2>5. /\ rest \in Seq(Entry) /\ Len(rest) = Len(es) - 1
        /\ \A i \in 1..(Len(es) - 1) : rest[i] = IF i < k THEN es[i] ELSE es[i + 1]
    <3> DEFINE a == SubSeq(es, 1, k - 1)
               b == SubSeq(es, k + 1, Len(es))
    <3>1. /\ a \in Seq(Entry) /\ Len(a) = k - 1
          /\ \A i \in 1..(k - 1) : a[i] = es[i]
          BY <2>4
    <3>2. /\ b \in Seq(Entry) /\ Len(b) = Len(es) - k
          /\ \A i \in 1..(Len(es) - k) : b[i] = es[i + k]
          BY <2>4
    <3>3. rest = a \o b
          BY DEF RemoveAt
    <3> HIDE DEF a, b, rest
    <3>4. rest \in Seq(Entry) /\ Len(rest) = Len(es) - 1
          BY <2>4, <3>1, <3>2, <3>3
    <3>5. ASSUME NEW i \in 1..(Len(es) - 1) PROVE rest[i] = IF i < k THEN es[i] ELSE es[i + 1]
      <4>1. CASE i < k
            BY <2>4, <3>1, <3>2, <3>3, <4>1
      <4>2. CASE ~(i < k)
        <5>1. i - (k - 1) \in 1..(Len(es) - k) /\ (i - (k - 1)) + k = i + 1
              BY <2>4, <4>2
        <5>2. rest[i] = b[i - (k - 1)]
              BY <2>4, <3>1, <3>2, <3>3, <4>2, <5>1
        <5> QED BY <3>2, <4>2, <5>1, <5>2
      <4> QED BY <4>1, <4>2
    <3> QED BY <3>4, <3>5
  <2>6. merged \in Entry /\ merged.command = e.command
        BY <2>4, MergedIsEntry, MergedCommand
  <2> HIDE DEF rest, merged, same
  <2>7. /\ out \in Seq(Entry) /\ Len(out) = Len(es)
        /\ \A i \in 1..(Len(es) - 1) : out[i] = IF i < k THEN es[i] ELSE es[i + 1]
        /\ out[Len(es)] = merged
        BY <2>3, <2>4, <2>5, <2>6
  <2>8. \A i, j \in DOMAIN es : es[i].command = es[j].command => i = j
    <3> SUFFICES ASSUME NEW i \in DOMAIN es, NEW j \in DOMAIN es, es[i].command = es[j].command, i # j
                 PROVE  FALSE
        OBVIOUS
    <3>1. i < j \/ j < i
          OBVIOUS
    <3> QED BY <1>2, <3>1 DEF Tidy
  <2>9. ASSUME NEW i \in DOMAIN out, NEW j \in DOMAIN out, i < j PROVE out[i].command # out[j].command
    <3>1. i \in 1..(Len(es) - 1) /\ j \in 1..Len(es)
          BY <2>7, <2>9
    <3>0. \A n \in 1..(Len(es) - 1) : \E x \in DOMAIN es :
              out[n] = es[x] /\ x # k /\ (IF n < k THEN x = n ELSE x = n + 1)
      <4> SUFFICES ASSUME NEW n \in 1..(Len(es) - 1)
                   PROVE  \E x \in DOMAIN es : out[n] = es[x] /\ x # k /\ (IF n < k THEN x = n ELSE x = n + 1)
          OBVIOUS
      <4>1. n \in DOMAIN es /\ n + 1 \in DOMAIN es
            OBVIOUS
      <4>2. CASE n < k
            BY <2>7, <4>1, <4>2
      <4>3. CASE ~(n < k)
            BY <2>4, <2>7, <4>1, <4>3
      <4> QED BY <4>2, <4>3
    <3>2. PICK x \in DOMAIN es : out[i] = es[x] /\ x # k /\ (IF i < k THEN x = i ELSE x = i + 1)
          BY <3>0, <3>1
    <3>3. CASE j = Len(es)
          BY <2>4, <2>6, <2>7, <2>8, <3>2, <3>3
    <3>4. CASE j # Len(es)
      <4>0. j \in 1..(Len(es) - 1)
            BY <3>1, <3>4
      <4>1. PICK y \in DOMAIN es : out[j] = es[y] /\ y # k /\ (IF j < k THEN y = j ELSE y = j + 1)
            BY <3>0, <4>0
      <4>2. x # y
            BY <2>4, <2>9, <3>1, <3>2, <4>1
      <4> QED BY <2>8, <3>2, <4>1, <4>2
    <3> QED BY <3>3, <3>4
  <2>10. Tidy(mode, out)
        BY <2>9 DEF Tidy
  <2>11. Has(out, e.command)
    <3>1. Len(es) \in DOMAIN out
          BY <2>4, <2>7
    <3> QED BY <2>6, <2>7, <3>1 DEF Has
  <2>12. ASSUME NEW c, Has(es, c) PROVE Has(out, c)
    <3>1. PICK i \in DOMAIN es : es[i].command = c
          BY <2>12 DEF Has
    <3>2. CASE i = k
          BY <2>4, <2>11, <3>1, <3>2
    <3>3. CASE i < k
      <4>1. i \in DOMAIN out /\ out[i] = es[i]
            BY <2>4, <2>7, <3>3
      <4> QED BY <3>1, <4>1 DEF Has
    <3>4. CASE i > k
      <4>1. i - 1 \in DOMAIN out /\ out[i - 1] = es[i]
            BY <2>4, <2>7, <3>4
      <4> QED BY <3>1, <4>1 DEF Has
    <3> QED BY <2>4, <3>2, <3>3, <3>4
  <2> QED BY <2>7, <2>10, <2>11, <2>12 DEF out
<1>3. CASE /\ ~(mode = "consecutive" /\ es # <<>> /\ Last(es).command = e.command)
           /\ ~(mode = "global" /\ same # {})
  <2>1. out = Append(es, e)
        BY <1>3 DEF AddWithDedup, Mode
  <2> HIDE DEF out
  <2>2. Stepped(mode, es, e) = Append(es, e)
        BY <1>3 DEF Stepped, Mode, MergedIn, Kept, Has
  <2>0. Append(es, e) \in Seq(Entry)
        OBVIOUS
  <2>3. out \in Seq(Entry) /\ Tidy(mode, out)
        BY <2>0, <2>1, <2>2, SteppedIsTidy
  <2>4. /\ DOMAIN Append(es, e) = 1..(Len(es) + 1) /\ Append(es, e)[Len(es) + 1] = e
        /\ Len(es) + 1 \in DOMAIN Append(es, e)
        /\ \A i \in DOMAIN es : i \in DOMAIN Append(es, e) /\ Append(es, e)[i] = es[i]
        OBVIOUS
  <2>5. Has(out, e.command) /\ \A c : Has(es, c) => Has(out, c)
        BY <2>1, <2>4 DEF Has
  <2> QED BY <2>3, <2>5 DEF out
<1> QED BY <1>1, <1>2, <1>3

----------------------------------------------------------------------------
Place == {"down", "idle", "append", "write", "replace"}

Fresh == [command : Command, timestamp : Time, session : Session, frequency : {1}]

Shape ==
    /\ pc \in [Session -> Place]
    /\ snapshot = [s \in Session |-> snapshot[s]]
    /\ pending = [s \in Session |-> pending[s]]
    /\ torn \in BOOLEAN

\* What is on its way to the file is one new entry.
OneEntry == \A s \in Session : pc[s] = "append" => \E e \in Fresh : pending[s] = <<e>>

IInv == Shape /\ OneEntry /\ SaveIsExclusive

----------------------------------------------------------------------------
(* One line gives one entry.                                                *)

\* Whatever becomes of the text of a command, its line loads as one entry.
LEMMA LoadedIsSingle ==
    ASSUME NEW e \in Fresh
    PROVE  \E x \in Single : Loaded(e) = <<x>>
<1>1. CASE e.command \in Splitting
  <2>1. Rest[e.command] \in Command \ Splitting
        BY <1>1, TextAssumption
  <2>2. Legacy(Rest[e.command]) \in Single
        BY <2>1 DEF Legacy, Single
  <2> QED BY <1>1, <2>2 DEF Loaded
<1>2. CASE e.command \notin Splitting
  <2>1. e \in Single
        BY <1>2 DEF Fresh, Single
  <2> QED BY <1>2, <2>1 DEF Loaded
<1> QED BY <1>1, <1>2

----------------------------------------------------------------------------
(* The inductive invariant, step by step.                                   *)

\* At the start nobody is within the engine.
LEMMA Base == Init => IInv
BY DEF Init, IInv, Shape, OneEntry, SaveIsExclusive, Place

\* Loading touches no file.
LEMMA LoadStep ==
    ASSUME IInv, NEW s \in Session, Load(s) PROVE IInv'
<1>1. /\ pc[s] \in {"down", "idle"} /\ pc' = [pc EXCEPT ![s] = "idle"]
      /\ UNCHANGED <<option, pending, snapshot, holder, disk, torn, tmp>>
      BY DEF Load, At, outside
<1>2. Shape' /\ OneEntry'
      BY <1>1 DEF IInv, Shape, OneEntry, Place
<1>3. SaveIsExclusive'
      BY <1>1 DEF IInv, Shape, SaveIsExclusive
<1> QED BY <1>2, <1>3 DEF IInv

\* A command becomes one entry.
LEMMA AddStep ==
    ASSUME IInv, NEW s \in Session, NEW c \in Typed, Add(s, c) PROVE IInv'
<1> DEFINE entry == [command |-> c, timestamp |-> clock, session |-> s, frequency |-> 1]
<1>1. /\ pc[s] = "idle" /\ clock \in Time
      /\ pending' = [pending EXCEPT ![s] = <<entry>>]
      /\ pc' = [pc EXCEPT ![s] = "append"]
      /\ UNCHANGED <<option, snapshot, holder, disk, torn, tmp>>
      BY DEF Add, At
<1>2. entry \in Fresh
      BY <1>1, InputAssumption DEF Fresh
<1> HIDE DEF entry
<1>3. Shape'
      BY <1>1 DEF IInv, Shape, Place
<1>4. OneEntry'
      BY <1>1, <1>2 DEF IInv, Shape, OneEntry
<1>5. SaveIsExclusive'
      BY <1>1 DEF IInv, Shape, SaveIsExclusive
<1> QED BY <1>3, <1>4, <1>5 DEF IInv

\* While the lock is free nobody is in the middle of a compaction.
LEMMA FreeLock ==
    ASSUME IInv, ~LockMayFail, Passes
    PROVE  \A s \in Session : pc[s] \notin {"write", "replace"}
BY NobodyAssumption DEF IInv, SaveIsExclusive, Passes

\* An append, complete or not, happens outside every compaction.
LEMMA AppendStep ==
    ASSUME IInv, ~LockMayFail, NEW s \in Session, AppendLine(s) \/ AppendFails(s)
    PROVE  IInv'
<1>1. /\ Passes /\ torn' \in BOOLEAN
      /\ pending' = [pending EXCEPT ![s] = <<>>]
      /\ pc' = [pc EXCEPT ![s] = "idle"]
      /\ UNCHANGED <<option, snapshot, holder, tmp>>
      BY DEF AppendLine, AppendFails, At, outside, IInv, Shape
<1>2. \A r \in Session : pc[r] \notin {"write", "replace"}
      BY <1>1, FreeLock
<1>3. Shape' /\ OneEntry'
      BY <1>1 DEF IInv, Shape, OneEntry, Place
<1>4. SaveIsExclusive'
      BY <1>1, <1>2 DEF IInv, Shape, SaveIsExclusive
<1> QED BY <1>3, <1>4 DEF IInv

\* A compaction starts with what is in the file, and with the lock.
LEMMA BeginStep ==
    ASSUME IInv, ~LockMayFail, ~ReadMayFail, NEW s \in Session, BeginSave(s)
    PROVE  IInv'
<1>1. /\ holder = Nobody /\ holder' = s
      /\ snapshot' = [snapshot EXCEPT ![s] = disk]
      /\ pc' = [pc EXCEPT ![s] = "write"]
      /\ UNCHANGED <<option, pending, disk, torn, tmp>>
      BY DEF BeginSave, Acquire, At, outside
<1>2. \A r \in Session : pc[r] \notin {"write", "replace"}
      BY <1>1, FreeLock DEF Passes
<1>3. Shape' /\ OneEntry'
      BY <1>1 DEF IInv, Shape, OneEntry, Place
<1>4. SaveIsExclusive'
      BY <1>1, <1>2 DEF IInv, Shape, SaveIsExclusive
<1> QED BY <1>3, <1>4 DEF IInv

\* Only the holder is in the middle of a compaction.
LEMMA OnlyHolder ==
    ASSUME IInv, NEW s \in Session, pc[s] \in {"write", "replace"}
    PROVE  /\ holder = s /\ snapshot[s] = disk
           /\ \A r \in Session : r # s => pc[r] \notin {"write", "replace"}
BY DEF IInv, SaveIsExclusive

\* The temporary file is made of what is in the data file.
LEMMA WriteStep ==
    ASSUME IInv, NEW s \in Session, WriteTmp(s) PROVE IInv'
<1>1. /\ pc[s] = "write" /\ tmp' = Compacted(option, snapshot[s])
      /\ pc' = [pc EXCEPT ![s] = "replace"]
      /\ UNCHANGED <<option, pending, snapshot, holder, disk, torn>>
      BY DEF WriteTmp, At, outside
<1>2. /\ holder = s /\ snapshot[s] = disk
      /\ \A r \in Session : r # s => pc[r] \notin {"write", "replace"}
      BY <1>1, OnlyHolder
<1>3. Shape' /\ OneEntry'
      BY <1>1 DEF IInv, Shape, OneEntry, Place
<1>4. SaveIsExclusive'
      BY <1>1, <1>2 DEF IInv, Shape, SaveIsExclusive
<1> QED BY <1>3, <1>4 DEF IInv

\* A compaction that ends, one way or the other, leaves nobody in the middle.
LEMMA EndStep ==
    ASSUME IInv, NEW s \in Session, Replace(s) \/ SaveFails(s) PROVE IInv'
<1>1. /\ pc[s] \in {"write", "replace"} /\ torn' \in BOOLEAN
      /\ pending' = [pending EXCEPT ![s] = <<>>]
      /\ snapshot' = [snapshot EXCEPT ![s] = <<>>]
      /\ pc' = [pc EXCEPT ![s] = "down"]
      BY DEF Replace, SaveFails, Forgotten, At, IInv, Shape
<1>2. \A r \in Session : r # s => pc[r] \notin {"write", "replace"}
      BY <1>1, OnlyHolder
<1>3. Shape' /\ OneEntry'
      BY <1>1 DEF IInv, Shape, OneEntry, Place
<1>4. SaveIsExclusive'
      BY <1>1, <1>2 DEF IInv, Shape, SaveIsExclusive
<1> QED BY <1>3, <1>4 DEF IInv

\* A shell that is killed drops no lock but its own.
LEMMA KillStep ==
    ASSUME IInv, NEW s \in Session, Killed(s) PROVE IInv'
<1>1. /\ torn' \in BOOLEAN
      /\ pending' = [pending EXCEPT ![s] = <<>>]
      /\ snapshot' = [snapshot EXCEPT ![s] = <<>>]
      /\ pc' = [pc EXCEPT ![s] = "down"]
      /\ holder' = IF holder = s THEN Nobody ELSE holder
      /\ UNCHANGED <<option, disk, tmp>>
      BY DEF Killed, Forgotten, Release, At, IInv, Shape
<1>2. Shape' /\ OneEntry'
      BY <1>1 DEF IInv, Shape, OneEntry, Place
<1>3. SaveIsExclusive'
      BY <1>1 DEF IInv, Shape, SaveIsExclusive
<1> QED BY <1>2, <1>3 DEF IInv

\* Every step keeps the invariant.
LEMMA Step ==
    ASSUME IInv, ~LockMayFail, ~ReadMayFail, [Next]_vars PROVE IInv'
<1>1. CASE UNCHANGED vars
      BY <1>1 DEF vars, IInv, Shape, OneEntry, SaveIsExclusive
<1>2. CASE Next
  <2>1. PICK s \in Session :
            \/ Load(s) \/ AppendLine(s) \/ AppendFails(s)
            \/ \E c \in Typed : Add(s, c)
            \/ BeginSave(s) \/ WriteTmp(s) \/ Replace(s) \/ SaveFails(s)
            \/ Killed(s)
        BY <1>2 DEF Next
  <2> QED BY <2>1, LoadStep, AddStep, AppendStep, BeginStep, WriteStep, EndStep, KillStep
<1> QED BY <1>1, <1>2

----------------------------------------------------------------------------
(* Results.                                                                 *)

\* atomic_compact: between its read and its replace nobody changes the file.
THEOREM CompactionIsExclusive ==
    ASSUME ~LockMayFail, ~ReadMayFail
    PROVE  Spec => []SaveIsExclusive
<1>1. IInv /\ [Next]_vars => IInv'
      BY Step
<1>2. IInv => SaveIsExclusive
      BY DEF IInv
<1> QED BY Base, <1>1, <1>2, PTL DEF Spec

\* Each step is one of the file's own, or none.
LEMMA FileStep ==
    ASSUME IInv, ~LockMayFail, [Next]_vars PROVE [File!Next]_(File!vars)
<1> USE DEF File!vars, File!Next, File!Appended, File!Glued, File!Tear, File!Compact
<1>1. CASE UNCHANGED vars
      BY <1>1 DEF vars
<1>2. ASSUME NEW s \in Session, AppendLine(s) PROVE File!Next
  <2>1. PICK e \in Fresh : pending[s] = <<e>>
        BY <1>2 DEF AppendLine, IInv, OneEntry
  <2>2. PICK x \in Single : Loaded(e) = <<x>>
        BY LoadedIsSingle
  <2>3. torn' = FALSE /\ option' = option
        BY <1>2 DEF AppendLine, outside
  <2>4. CASE torn
    <3>1. pending[s][1] = e
          BY <2>1
    <3>2. disk' = disk \o LoadedGlued(e)
          BY <1>2, <2>4, <3>1 DEF AppendLine
    <3>3. disk' = disk \/ \E r \in Remnant : disk' = disk \o <<r>>
      <4>1. CASE e.command \in Splitting
            BY <3>2, <4>1 DEF LoadedGlued, Remnant
      <4>2. CASE e.command \notin Splitting
        <5>1. LoadedGlued(e) = <<>>
              BY <4>2 DEF LoadedGlued
        <5> QED BY <3>2, <5>1, SMT DEF IInv, Shape
      <4> QED BY <4>1, <4>2
    <3> QED BY <2>3, <2>4, <3>3
  <2>5. CASE ~torn
    <3>1. pending[s][1] = e
          BY <2>1
    <3>2. disk' = disk \o <<x>>
          BY <1>2, <2>2, <2>5, <3>1 DEF AppendLine
    <3> QED BY <2>3, <2>5, <3>2
  <2> QED BY <2>4, <2>5
<1>3. ASSUME NEW s \in Session, Replace(s) PROVE [File!Next]_(File!vars)
  <2>1. pc[s] = "replace" /\ option' = option
        BY <1>3 DEF Replace, outside
  <2>2. tmp = Compacted(option, disk)
        BY <2>1 DEF IInv, SaveIsExclusive
  <2>3. CASE tmp = NoFile
        BY <1>3, <2>1, <2>3 DEF Replace
  <2>4. CASE tmp # NoFile
        BY <1>3, <2>1, <2>2, <2>4 DEF Replace
  <2> QED BY <2>3, <2>4
<1>4. ASSUME NEW s \in Session, AppendFails(s) \/ Killed(s)
      PROVE  [File!Next]_(File!vars)
  <2>1. UNCHANGED <<disk, option>> /\ torn' \in {torn, TRUE}
        BY <1>4 DEF AppendFails, Killed
  <2> QED BY <2>1 DEF IInv, Shape
<1>5. ASSUME NEW s \in Session,
             \/ Load(s) \/ BeginSave(s) \/ WriteTmp(s) \/ SaveFails(s)
             \/ \E c \in Typed : Add(s, c)
      PROVE  UNCHANGED File!vars
      BY <1>5 DEF Load, Add, BeginSave, WriteTmp, SaveFails, outside
<1> QED BY <1>1, <1>2, <1>3, <1>4, <1>5 DEF Next

\* Whoever looks at the data file sees lines added at its end and compactions
\* of all that is in it: no compaction undoes an append of another shell.
THEOREM FileChangesAtomically ==
    ASSUME ~LockMayFail, ~ReadMayFail
    PROVE  Spec => FileIsAtomic
<1>1. Init => File!Init
      BY FoundAssumption, SettingAssumption DEF Init, File!Init
<1>2. IInv /\ [Next]_vars => IInv'
      BY Step
<1>3. IInv /\ [Next]_vars => [File!Next]_(File!vars)
      BY FileStep
<1> QED BY Base, <1>1, <1>2, <1>3, PTL DEF Spec, FileIsAtomic, File!Spec

----------------------------------------------------------------------------
(* What the file is worth.                                                  *)

Dropped(es) == ApplyDedup(option.dedup_mode, es)

\* A command on its way to the file is in the list of its shell already.
OwnEntry ==
    \A s \in Session : pc[s] = "append" =>
        \E e \in Fresh : /\ pending[s] = <<e>> /\ e.session = s
                         /\ option.max_length = 0 => Has(memory[s], e.command)

\* RecallsItsOwn, in the middle of an append too.
Recall ==
    option.max_length = 0 =>
        \A s \in Session : pc[s] \in {"idle", "append"} =>
            \A i \in DOMAIN disk :
                disk[i].session = s /\ disk[i].timestamp > 0 => Has(memory[s], disk[i].command)

\* Where compaction orders by recency the newest command is the last of the file.
LastKept ==
    log # <<>> /\ option.dedup_mode # "global" =>
        disk # <<>> /\ Last(disk).command = Last(log).command

Worth == option.max_length = 0 => Dropped(disk) = Dropped(found \o log)

Lists == TypeOK /\ option \in Options /\ clock \in Nat /\ found \in Seq(Entry)

LInv == IInv /\ Lists /\ OwnEntry /\ Recall /\ LastKept /\ Deduplicated /\ Worth

\* The options, taken apart.
LEMMA Chosen ==
    ASSUME Lists PROVE option.dedup_mode \in Mode /\ option.max_length \in Nat
BY DEF Lists, Options

\* What is executed becomes an entry.
LEMMA EntryOfFresh == Fresh \subseteq Entry
<1> SUFFICES ASSUME NEW e \in Fresh PROVE e \in Entry
    OBVIOUS
<1>1. Time \subseteq Nat /\ Session \subseteq Session \union {Old}
      BY TextAssumption
<1>2. PICK c \in Command, t \in Time, s \in Session, f \in {1} :
          e = [command |-> c, timestamp |-> t, session |-> s, frequency |-> f]
      BY DEF Fresh
<1>3. t \in Nat /\ s \in Session \union {Old} /\ f \in Nat
      BY <1>1
<1> QED BY <1>2, <1>3 DEF Entry

\* Behind a torn line it loads as nothing, or as the entry of its second half.
LEMMA GluedIsEntry ==
    ASSUME NEW e \in Fresh
    PROVE  \/ LoadedGlued(e) = <<>>
           \/ \E x \in Entry : LoadedGlued(e) = <<x>> /\ (x.timestamp > 0 => x = e)
<1>1. CASE e.command \in Splitting
  <2>1. Legacy(Rest[e.command]) \in Entry
        BY <1>1, TextAssumption DEF Legacy, Entry
  <2>2. ~(Legacy(Rest[e.command]).timestamp > 0)
        BY DEF Legacy
  <2> QED BY <1>1, <2>1, <2>2 DEF LoadedGlued
<1>2. CASE e.command \notin Splitting
      BY <1>2 DEF LoadedGlued
<1> QED BY <1>1, <1>2

\* A line loads as one entry, its own unless the line is split.
LEMMA LoadedIsEntry ==
    ASSUME NEW e \in Fresh
    PROVE  \E x \in Entry : /\ Loaded(e) = <<x>>
                            /\ x.timestamp > 0 => x = e
<1>1. CASE e.command \in Splitting
  <2>1. Legacy(Rest[e.command]) \in Entry
        BY <1>1, TextAssumption DEF Legacy, Entry
  <2>2. ~(Legacy(Rest[e.command]).timestamp > 0)
        BY DEF Legacy
  <2> QED BY <1>1, <2>1, <2>2 DEF Loaded
<1>2. CASE e.command \notin Splitting
      BY <1>2, EntryOfFresh DEF Loaded
<1> QED BY <1>1, <1>2

\* Loading: the list of the shell is that of the file.
LEMMA LoadLists ==
    ASSUME LInv, NEW s \in Session, Load(s)
    PROVE  Lists' /\ OwnEntry' /\ Recall' /\ LastKept' /\ Deduplicated' /\ Worth'
<1> DEFINE mode == option.dedup_mode
           new  == ApplyDedup(mode, disk)
<1>1. /\ pc[s] \in {"down", "idle"} /\ pc' = [pc EXCEPT ![s] = "idle"]
      /\ memory' = [memory EXCEPT ![s] = new]
      /\ UNCHANGED <<option, pending, snapshot, holder, disk, torn, tmp, log, found, clock>>
      BY DEF Load, At, outside
<1>2. mode \in Mode /\ disk \in Seq(Entry)
      BY Chosen DEF LInv, Lists, TypeOK
<1>3. new \in Seq(Entry) /\ Tidy(mode, new) /\ Covers(new, disk)
      BY <1>2, DedupIsList, DedupIsTidy, DedupOrigins
<1> HIDE DEF new
<1>4. memory \in [Session -> Seq(Entry)] /\ pc \in [Session -> Place]
      BY DEF LInv, Lists, TypeOK, Place
<1>5. /\ memory' \in [Session -> Seq(Entry)] /\ memory'[s] = new /\ pc'[s] = "idle"
      /\ \A r \in Session : r # s => memory'[r] = memory[r] /\ pc'[r] = pc[r]
      BY <1>1, <1>3, <1>4
<1>6. Lists'
      BY <1>1, <1>5 DEF LInv, Lists, TypeOK
<1>7. OwnEntry'
      BY <1>1, <1>5 DEF LInv, OwnEntry
<1>8. Recall'
      BY <1>1, <1>3, <1>5 DEF LInv, Recall, Covers
<1>9. Deduplicated'
      BY <1>1, <1>3, <1>5 DEF LInv, Deduplicated, Tidy
<1>10. LastKept' /\ Worth'
      BY <1>1 DEF LInv, LastKept, Worth, Dropped
<1> QED BY <1>6, <1>7, <1>8, <1>9, <1>10

\* A command that is executed is in the list of its shell, and on its way to the file.
LEMMA AddLists ==
    ASSUME LInv, NEW s \in Session, NEW c \in Typed, Add(s, c)
    PROVE  Lists' /\ OwnEntry' /\ Recall' /\ LastKept' /\ Deduplicated' /\ Worth'
<1> DEFINE mode == option.dedup_mode
           entry == [command |-> c, timestamp |-> clock, session |-> s, frequency |-> 1]
           more == AddWithDedup(mode, memory[s], entry)
           new  == Newest(option.max_length, more)
<1>1. /\ pc[s] = "idle" /\ clock \in Time /\ pc' = [pc EXCEPT ![s] = "append"]
      /\ memory' = [memory EXCEPT ![s] = new]
      /\ pending' = [pending EXCEPT ![s] = <<entry>>] /\ clock' = clock + 1
      /\ UNCHANGED <<option, snapshot, holder, disk, torn, tmp, log, found>>
      BY DEF Add, At
<1>2. /\ mode \in Mode /\ option.max_length \in Nat
      BY Chosen DEF LInv
<1>3. /\ memory \in [Session -> Seq(Entry)] /\ pc \in [Session -> Place] /\ clock \in Nat
      /\ pending = [r \in Session |-> pending[r]] /\ Tidy(mode, memory[s])
      BY DEF LInv, Lists, TypeOK, Place, IInv, Shape, Deduplicated, Tidy
<1>4. entry \in Fresh /\ entry \in Entry /\ entry.session = s /\ entry.command = c
      BY <1>1, InputAssumption, EntryOfFresh DEF Fresh
<1> HIDE DEF entry
<1>5. /\ more \in Seq(Entry) /\ Tidy(mode, more) /\ Has(more, entry.command)
      /\ \A x : Has(memory[s], x) => Has(more, x)
  <2>1. memory[s] \in Seq(Entry)
        BY <1>3
  <2> QED BY <1>2, <1>3, <1>4, <2>1, Added
<1> HIDE DEF more
<1>6. new \in Seq(Entry) /\ Tidy(mode, new) /\ (option.max_length = 0 => new = more)
      BY <1>2, <1>5, NewestIsEnd, NewestIsTidy
<1> HIDE DEF new
<1>7. /\ memory' \in [Session -> Seq(Entry)] /\ memory'[s] = new
      /\ pc'[s] = "append" /\ pending'[s] = <<entry>>
      /\ \A r \in Session : r # s => memory'[r] = memory[r] /\ pc'[r] = pc[r] /\ pending'[r] = pending[r]
      /\ pc' \in [Session -> Place]
  <2>1. /\ memory' \in [Session -> Seq(Entry)] /\ memory'[s] = new
        /\ \A r \in Session : r # s => memory'[r] = memory[r]
        BY <1>1, <1>3, <1>6
  <2>2. pending'[s] = <<entry>> /\ \A r \in Session : r # s => pending'[r] = pending[r]
        BY <1>1, <1>3
  <2>3. /\ pc'[s] = "append" /\ pc' \in [Session -> Place]
        /\ \A r \in Session : r # s => pc'[r] = pc[r]
        BY <1>1, <1>3 DEF Place
  <2> QED BY <2>1, <2>2, <2>3
<1>8. Lists'
  <2>1. \A r \in Session : IF pc'[r] = "append" THEN pending'[r][1] \in Entry ELSE pending'[r] = <<>>
    <3>1. \A r \in Session : IF pc[r] = "append" THEN pending[r][1] \in Entry ELSE pending[r] = <<>>
          BY DEF LInv, Lists, TypeOK
    <3>2. pending'[s][1] \in Entry
          BY <1>4, <1>7
    <3> QED BY <1>7, <3>1, <3>2
  <2> QED BY <1>1, <1>3, <1>7, <2>1 DEF LInv, Lists, TypeOK, Place
<1>9. OwnEntry'
  <2> SUFFICES ASSUME NEW r \in Session, pc'[r] = "append"
               PROVE  \E e \in Fresh : /\ pending'[r] = <<e>> /\ e.session = r
                                       /\ option.max_length = 0 => Has(memory'[r], e.command)
      BY <1>1 DEF OwnEntry
  <2>1. CASE r = s
    <3>1. option.max_length = 0 => Has(memory'[s], entry.command)
          BY <1>5, <1>6, <1>7
    <3> QED BY <1>4, <1>7, <2>1, <3>1
  <2>2. CASE r # s
        BY <1>7, <2>2 DEF LInv, OwnEntry
  <2> QED BY <2>1, <2>2
<1>10. Recall'
  <2> SUFFICES ASSUME option.max_length = 0, NEW r \in Session, pc'[r] \in {"idle", "append"},
                      NEW i \in DOMAIN disk, disk[i].session = r, disk[i].timestamp > 0
               PROVE  Has(memory'[r], disk[i].command)
      BY <1>1 DEF Recall
  <2>1. pc[r] \in {"idle", "append"}
        BY <1>1, <1>7
  <2>2. Has(memory[r], disk[i].command)
        BY <2>1 DEF LInv, Recall
  <2>3. CASE r = s
        BY <1>5, <1>6, <1>7, <2>2, <2>3
  <2>4. CASE r # s
        BY <1>7, <2>2, <2>4
  <2> QED BY <2>3, <2>4
<1>11. Deduplicated'
  <2> SUFFICES ASSUME NEW r \in Session PROVE Tidy(mode, memory'[r])
      BY <1>1 DEF Deduplicated, Tidy
  <2>1. CASE r = s
        BY <1>6, <1>7, <2>1
  <2>2. CASE r # s
    <3>1. Tidy(mode, memory[r])
          BY DEF LInv, Deduplicated, Tidy
    <3> QED BY <1>7, <2>2, <3>1
  <2> QED BY <2>1, <2>2
<1>12. LastKept' /\ Worth'
      BY <1>1 DEF LInv, LastKept, Worth, Dropped
<1> QED BY <1>8, <1>9, <1>10, <1>11, <1>12

\* A line more: the file and the log grow by the same entry.
LEMMA AppendLists ==
    ASSUME LInv, NEW s \in Session, AppendLine(s)
    PROVE  Lists' /\ OwnEntry' /\ Recall' /\ LastKept' /\ Deduplicated' /\ Worth'
<1> DEFINE mode == option.dedup_mode
<1>1. /\ pc[s] = "append" /\ pc' = [pc EXCEPT ![s] = "idle"] /\ torn' = FALSE
      /\ pending' = [pending EXCEPT ![s] = <<>>]
      /\ UNCHANGED <<option, memory, snapshot, holder, tmp, found, clock>>
      BY DEF AppendLine, At, outside
<1>2. /\ mode \in Mode /\ option.max_length \in Nat
      BY Chosen DEF LInv
<1>3. /\ pc \in [Session -> Place] /\ pending = [r \in Session |-> pending[r]]
      /\ disk \in Seq(Entry) /\ log \in Seq(Entry) /\ found \in Seq(Entry)
      BY DEF LInv, Lists, TypeOK, Place, IInv, Shape
<1>4. PICK e \in Fresh : /\ pending[s] = <<e>> /\ e.session = s
                         /\ option.max_length = 0 => Has(memory[s], e.command)
      BY <1>1 DEF LInv, OwnEntry
<1> DEFINE Grow(x) == /\ disk' = disk \o <<x>> /\ log' = log \o <<x>>
                      /\ x.timestamp > 0 => x = e
           same == disk' = disk /\ log' = log
<1>5. same \/ \E x \in Entry : Grow(x)
  <2> DEFINE line == IF torn THEN LoadedGlued(e) ELSE Loaded(e)
  <2>1. disk' = disk \o line /\ log' = log \o line
    <3>1. pending[s][1] = e
          BY <1>4
    <3> QED BY <3>1 DEF AppendLine
  <2>2. line = <<>> \/ \E x \in Entry : line = <<x>> /\ (x.timestamp > 0 => x = e)
        BY LoadedIsEntry, GluedIsEntry
  <2>3. disk \o <<>> = disk /\ log \o <<>> = log
        BY <1>3
  <2> HIDE DEF line
  <2> QED BY <2>1, <2>2, <2>3
<1>6. /\ pc'[s] = "idle" /\ pending'[s] = <<>>
      /\ \A r \in Session : r # s => pc'[r] = pc[r] /\ pending'[r] = pending[r]
      /\ pc' \in [Session -> Place]
      BY <1>1, <1>3 DEF Place
<1>7. Lists'
  <2>1. \A r \in Session : IF pc'[r] = "append" THEN pending'[r][1] \in Entry ELSE pending'[r] = <<>>
        BY <1>6 DEF LInv, Lists, TypeOK
  <2>2. disk' \in Seq(Entry) /\ log' \in Seq(Entry)
    <3>1. CASE same
          BY <1>3, <3>1
    <3>2. ASSUME NEW x \in Entry, Grow(x) PROVE disk' \in Seq(Entry) /\ log' \in Seq(Entry)
          BY <1>3, <3>2
    <3> HIDE DEF same, Grow
    <3> QED BY <1>5, <3>1, <3>2
  <2> QED BY <1>1, <1>6, <2>1, <2>2 DEF LInv, Lists, TypeOK, Place
<1>8. OwnEntry' /\ Deduplicated'
      BY <1>1, <1>6 DEF LInv, OwnEntry, Deduplicated
<1>9. CASE same
      BY <1>1, <1>6, <1>7, <1>8, <1>9 DEF LInv, Recall, LastKept, Worth, Dropped
<1>10. ASSUME NEW x \in Entry, Grow(x)
       PROVE  Recall' /\ LastKept' /\ Worth'
  <2>1. disk' = disk \o <<x>> /\ log' = log \o <<x>>
        BY <1>10
  <2>2. disk' = Append(disk, x) /\ log' = Append(log, x) /\ found \o log' = Append(found \o log, x)
        /\ found \o log \in Seq(Entry)
        BY <1>3, <2>1
  <2>3. Worth'
    <3>1. option.max_length = 0 => ApplyDedup(mode, disk) = ApplyDedup(mode, found \o log)
          BY DEF LInv, Worth, Dropped
    <3>2. /\ ApplyDedup(mode, Append(disk, x)) = Stepped(mode, ApplyDedup(mode, disk), x)
          /\ ApplyDedup(mode, Append(found \o log, x)) = Stepped(mode, ApplyDedup(mode, found \o log), x)
          BY <1>2, <1>3, <2>2, DedupSteps
    <3>3. option.max_length = 0 =>
              ApplyDedup(mode, Append(disk, x)) = ApplyDedup(mode, Append(found \o log, x))
          BY <3>1, <3>2
    <3> QED BY <1>1, <2>2, <3>3 DEF Worth, Dropped
  <2>4. LastKept'
    <3>1. Append(disk, x) # <<>> /\ Last(Append(disk, x)) = x /\ Last(Append(log, x)) = x
          BY <1>3 DEF Last
    <3> QED BY <2>2, <3>1 DEF LastKept
  <2>5. Recall'
    <3> SUFFICES ASSUME option.max_length = 0, NEW r \in Session, pc'[r] \in {"idle", "append"},
                        NEW i \in DOMAIN disk', disk'[i].session = r, disk'[i].timestamp > 0
                 PROVE  Has(memory[r], disk'[i].command)
        BY <1>1 DEF Recall
    <3>1. pc[r] \in {"idle", "append"}
          BY <1>1, <1>6
    <3>2. CASE i \in DOMAIN disk
      <4>1. disk'[i] = disk[i]
            BY <1>3, <2>2, <3>2
      <4> QED BY <3>1, <3>2, <4>1 DEF LInv, Recall
    <3>3. CASE i \notin DOMAIN disk
      <4>1. disk'[i] = x
            BY <1>3, <2>2, <3>3
      <4>2. x = e
            BY <1>10, <4>1
      <4> QED BY <1>4, <4>1, <4>2
    <3> QED BY <3>2, <3>3
  <2> QED BY <2>3, <2>4, <2>5
<1> HIDE DEF same, Grow
<1> QED BY <1>5, <1>7, <1>8, <1>9, <1>10

\* An append that fails leaves the lists alone.
LEMMA FailLists ==
    ASSUME LInv, NEW s \in Session, AppendFails(s)
    PROVE  Lists' /\ OwnEntry' /\ Recall' /\ LastKept' /\ Deduplicated' /\ Worth'
<1>1. /\ pc[s] = "append" /\ pc' = [pc EXCEPT ![s] = "idle"] /\ torn' \in BOOLEAN
      /\ pending' = [pending EXCEPT ![s] = <<>>]
      /\ UNCHANGED <<option, memory, snapshot, holder, disk, tmp, found, log, clock>>
      BY DEF AppendFails, At, LInv, IInv, Shape
<1>2. pc \in [Session -> Place] /\ pending = [r \in Session |-> pending[r]]
      BY DEF LInv, Lists, TypeOK, Place, IInv, Shape
<1>3. /\ pc'[s] = "idle" /\ pending'[s] = <<>>
      /\ \A r \in Session : r # s => pc'[r] = pc[r] /\ pending'[r] = pending[r]
      /\ pc' \in [Session -> Place]
      BY <1>1, <1>2 DEF Place
<1>4. Lists'
      BY <1>1, <1>3 DEF LInv, Lists, TypeOK, Place
<1> QED BY <1>1, <1>3, <1>4 DEF LInv, OwnEntry, Recall, LastKept, Deduplicated, Worth, Dropped

\* The start of a compaction and its file leave the lists alone.
LEMMA SaveLists ==
    ASSUME LInv, NEW s \in Session, BeginSave(s) \/ WriteTmp(s)
    PROVE  Lists' /\ OwnEntry' /\ Recall' /\ LastKept' /\ Deduplicated' /\ Worth'
<1>1. /\ pc[s] \notin {"append", "down"} /\ \E p \in {"write", "replace"} : pc' = [pc EXCEPT ![s] = p]
      /\ UNCHANGED <<option, memory, pending, disk, torn, found, log, clock>>
      BY DEF BeginSave, WriteTmp, At, outside
<1>2. /\ pc \in [Session -> Place] /\ disk \in Seq(Entry) /\ snapshot \in [Session -> Seq(Entry)]
      /\ holder \in Session \union {Nobody}
      BY DEF LInv, Lists, TypeOK, Place
<1>3. /\ pc'[s] \in {"write", "replace"} /\ \A r \in Session : r # s => pc'[r] = pc[r]
      /\ pc' \in [Session -> Place]
      BY <1>1, <1>2 DEF Place
<1>4. snapshot' \in [Session -> Seq(Entry)] /\ holder' \in Session \union {Nobody}
  <2>1. holder' \in {s, holder}
        BY DEF BeginSave, WriteTmp, Acquire
  <2>2. \/ snapshot' = snapshot
        \/ snapshot' = [snapshot EXCEPT ![s] = disk]
        \/ snapshot' = [snapshot EXCEPT ![s] = <<>>]
        BY DEF BeginSave, WriteTmp
  <2>3. <<>> \in Seq(Entry)
        OBVIOUS
  <2> QED BY <1>2, <2>1, <2>2, <2>3
<1>5. tmp' = NoFile \/ tmp' \in Seq(Entry)
  <2>1. CASE BeginSave(s)
        BY <2>1 DEF BeginSave, LInv, Lists, TypeOK
  <2>2. CASE WriteTmp(s)
    <3>1. tmp' = Compacted(option, snapshot[s])
          BY <2>2 DEF WriteTmp
    <3> QED BY <1>2, <3>1, Chosen, DedupIsList, NewestIsEnd DEF LInv, Compacted
  <2> QED BY <2>1, <2>2
<1>6. Lists'
  <2>1. \A r \in Session : IF pc'[r] = "append" THEN pending'[r][1] \in Entry ELSE pending'[r] = <<>>
        BY <1>1, <1>3 DEF LInv, Lists, TypeOK
  <2> QED BY <1>1, <1>3, <1>4, <1>5, <2>1 DEF LInv, Lists, TypeOK, Place
<1>7. OwnEntry' /\ Recall'
      BY <1>1, <1>3 DEF LInv, OwnEntry, Recall
<1> QED BY <1>1, <1>6, <1>7 DEF LInv, LastKept, Deduplicated, Worth, Dropped

\* A shell that is no more has an empty list, and nothing on its way.
LEMMA ForgottenLists ==
    ASSUME LInv, NEW s \in Session, Forgotten(s), UNCHANGED <<option, found, log, clock>>
    PROVE  /\ pc' \in [Session -> Place] /\ memory' \in [Session -> Seq(Entry)]
           /\ snapshot' \in [Session -> Seq(Entry)] /\ holder' \in Session \union {Nobody}
           /\ \A r \in Session : IF pc'[r] = "append" THEN pending'[r][1] \in Entry ELSE pending'[r] = <<>>
           /\ pc'[s] = "down"
           /\ \A r \in Session : r # s => pc'[r] = pc[r] /\ memory'[r] = memory[r]
           /\ OwnEntry' /\ Deduplicated'
<1>1. /\ pc' = [pc EXCEPT ![s] = "down"]
      /\ memory' = [memory EXCEPT ![s] = <<>>]
      /\ pending' = [pending EXCEPT ![s] = <<>>]
      /\ snapshot' = [snapshot EXCEPT ![s] = <<>>]
      /\ holder' = IF holder = s THEN Nobody ELSE holder
      BY DEF Forgotten, At, Release
<1>2. /\ pc \in [Session -> Place] /\ pending = [r \in Session |-> pending[r]]
      /\ memory \in [Session -> Seq(Entry)] /\ snapshot \in [Session -> Seq(Entry)]
      /\ holder \in Session \union {Nobody}
      BY DEF LInv, Lists, TypeOK, Place, IInv, Shape
<1>3. <<>> \in Seq(Entry)
      OBVIOUS
<1>4. /\ pc'[s] = "down" /\ pending'[s] = <<>> /\ memory'[s] = <<>>
      /\ \A r \in Session : r # s =>
            pc'[r] = pc[r] /\ pending'[r] = pending[r] /\ memory'[r] = memory[r]
      /\ pc' \in [Session -> Place] /\ memory' \in [Session -> Seq(Entry)]
      /\ snapshot' \in [Session -> Seq(Entry)] /\ holder' \in Session \union {Nobody}
      BY <1>1, <1>2, <1>3 DEF Place
<1>5. \A r \in Session : IF pc'[r] = "append" THEN pending'[r][1] \in Entry ELSE pending'[r] = <<>>
      BY <1>4 DEF LInv, Lists, TypeOK
<1>6. OwnEntry'
      BY <1>4, ZenonT(60) DEF LInv, OwnEntry
<1>7. Deduplicated'
  <2>1. \A r \in Session : Tidy(option.dedup_mode, memory'[r])
    <3>1. Tidy(option.dedup_mode, <<>>)
          BY DEF Tidy
    <3> QED BY <1>4, <3>1 DEF LInv, Deduplicated, Tidy
  <2> QED BY <2>1 DEF Deduplicated, Tidy
<1> QED BY <1>4, <1>5, <1>6, <1>7

\* A compaction that is put in place drops duplicates only.
LEMMA ReplaceLists ==
    ASSUME LInv, NEW s \in Session, Replace(s)
    PROVE  Lists' /\ OwnEntry' /\ Recall' /\ LastKept' /\ Deduplicated' /\ Worth'
<1> DEFINE mode == option.dedup_mode
           less == ApplyDedup(mode, disk)
           new  == Compacted(option, disk)
<1>1. /\ pc[s] = "replace" /\ Forgotten(s) /\ tmp' = NoFile
      /\ UNCHANGED <<option, found, log, clock>>
      BY DEF Replace, outside
<1>2. tmp = new /\ (IF tmp = NoFile THEN UNCHANGED <<disk, torn>> ELSE disk' = tmp /\ torn' = FALSE)
      BY <1>1 DEF Replace, LInv, IInv, SaveIsExclusive
<1>3. /\ mode \in Mode /\ option.max_length \in Nat /\ disk \in Seq(Entry) /\ torn \in BOOLEAN
      BY Chosen DEF LInv, Lists, TypeOK
<1>4. /\ less \in Seq(Entry) /\ Origins(less, disk) /\ ApplyDedup(mode, less) = less
      BY <1>3, DedupIsList, DedupOrigins, DedupTwice
<1>5. new = Newest(option.max_length, less)
      BY DEF Compacted
<1> HIDE DEF less, new
<1>6. new \in Seq(Entry) /\ (option.max_length = 0 => new = less)
      BY <1>3, <1>4, <1>5, NewestIsEnd
<1>7. disk' \in {disk, new} /\ torn' \in BOOLEAN
      BY <1>2, <1>3
<1>8. /\ pc' \in [Session -> Place] /\ memory' \in [Session -> Seq(Entry)]
      /\ snapshot' \in [Session -> Seq(Entry)] /\ holder' \in Session \union {Nobody}
      /\ \A r \in Session : IF pc'[r] = "append" THEN pending'[r][1] \in Entry ELSE pending'[r] = <<>>
      /\ pc'[s] = "down"
      /\ \A r \in Session : r # s => pc'[r] = pc[r] /\ memory'[r] = memory[r]
      /\ OwnEntry' /\ Deduplicated'
      BY <1>1, ForgottenLists
<1>9. Lists'
      BY <1>1, <1>3, <1>6, <1>7, <1>8 DEF LInv, Lists, TypeOK, Place
<1>10. Recall'
  <2> SUFFICES ASSUME option.max_length = 0, NEW r \in Session, pc'[r] \in {"idle", "append"},
                      NEW i \in DOMAIN disk', disk'[i].session = r, disk'[i].timestamp > 0
               PROVE  Has(memory'[r], disk'[i].command)
      BY <1>1 DEF Recall
  <2>1. pc[r] \in {"idle", "append"} /\ memory'[r] = memory[r]
        BY <1>8
  <2>2. PICK j \in DOMAIN disk : /\ disk[j].command = disk'[i].command
                                 /\ disk[j].session = disk'[i].session
                                 /\ disk[j].timestamp = disk'[i].timestamp
    <3>1. CASE disk' = disk
          BY <3>1
    <3>2. CASE disk' = less
          BY <1>4, <3>2 DEF Origins
    <3> QED BY <1>6, <1>7, <3>1, <3>2
  <2> QED BY <2>1, <2>2 DEF LInv, Recall
<1>11. LastKept'
  <2> SUFFICES ASSUME log # <<>>, mode # "global"
               PROVE  disk' # <<>> /\ Last(disk').command = Last(log).command
      BY <1>1 DEF LastKept
  <2>1. disk # <<>> /\ Last(disk).command = Last(log).command
        BY DEF LInv, LastKept
  <2>2. less # <<>> /\ Last(less).command = Last(disk).command
        BY <1>3, <2>1, DedupKeepsLast DEF less
  <2>3. new # <<>> /\ Last(new) = Last(less)
        BY <1>3, <1>4, <1>5, <2>2, NewestKeepsLast
  <2> QED BY <1>7, <2>1, <2>2, <2>3
<1>12. Worth'
  <2> SUFFICES ASSUME option.max_length = 0
               PROVE  ApplyDedup(mode, disk') = ApplyDedup(mode, found \o log)
      BY <1>1 DEF Worth, Dropped
  <2>1. ApplyDedup(mode, disk) = ApplyDedup(mode, found \o log)
        BY DEF LInv, Worth, Dropped
  <2>2. ApplyDedup(mode, disk') = ApplyDedup(mode, disk)
    <3>1. CASE disk' = disk
          BY <3>1
    <3>2. CASE disk' = less
          BY <1>4, <3>2 DEF less
    <3> QED BY <1>6, <1>7, <3>1, <3>2
  <2> QED BY <2>1, <2>2
<1> QED BY <1>8, <1>9, <1>10, <1>11, <1>12

\* A compaction that fails, and a shell that is killed, leave the file alone.
LEMMA StopLists ==
    ASSUME LInv, NEW s \in Session, SaveFails(s) \/ Killed(s)
    PROVE  Lists' /\ OwnEntry' /\ Recall' /\ LastKept' /\ Deduplicated' /\ Worth'
<1>1. /\ Forgotten(s) /\ tmp' \in {tmp, NoFile} /\ torn' \in BOOLEAN
      /\ UNCHANGED <<option, found, log, clock, disk>>
      BY DEF SaveFails, Killed, LInv, IInv, Shape
<1>2. /\ pc' \in [Session -> Place] /\ memory' \in [Session -> Seq(Entry)]
      /\ snapshot' \in [Session -> Seq(Entry)] /\ holder' \in Session \union {Nobody}
      /\ \A r \in Session : IF pc'[r] = "append" THEN pending'[r][1] \in Entry ELSE pending'[r] = <<>>
      /\ pc'[s] = "down"
      /\ \A r \in Session : r # s => pc'[r] = pc[r] /\ memory'[r] = memory[r]
      /\ OwnEntry' /\ Deduplicated'
      BY <1>1, ForgottenLists
<1>3. Lists'
      BY <1>1, <1>2 DEF LInv, Lists, TypeOK, Place
<1>4. Recall'
      BY <1>1, <1>2 DEF LInv, Recall
<1> QED BY <1>1, <1>2, <1>3, <1>4 DEF LInv, LastKept, Worth, Dropped

\* At the start the log is empty.
LEMMA ListsBase == Init => LInv
<1> SUFFICES ASSUME Init PROVE LInv
    OBVIOUS
<1>1. <<>> \in Seq(Entry)
      OBVIOUS
<1>2. option \in Options /\ found \in Seq(Entry) /\ disk = found /\ log = <<>>
      BY SettingAssumption, FoundAssumption DEF Init
<1>3. Lists
      BY <1>1, <1>2 DEF Init, Lists, TypeOK
<1>4. OwnEntry /\ Recall /\ LastKept
      BY DEF Init, OwnEntry, Recall, LastKept
<1>5. Deduplicated
      BY DEF Init, Deduplicated
<1>6. Worth
  <2>1. found \o <<>> = found
        BY <1>2
  <2> QED BY <1>2, <2>1 DEF Worth
<1> QED BY Base, <1>3, <1>4, <1>5, <1>6 DEF LInv

\* Every step keeps the invariant.
LEMMA ListsStep ==
    ASSUME LInv, ~LockMayFail, ~ReadMayFail, [Next]_vars PROVE LInv'
<1>0. IInv'
      BY Step DEF LInv
<1>1. CASE UNCHANGED vars
      BY <1>0, <1>1 DEF vars, LInv, Lists, TypeOK, OwnEntry, Recall, LastKept, Deduplicated, Worth, Dropped
<1>2. CASE Next
  <2>1. PICK s \in Session :
            \/ Load(s) \/ AppendLine(s) \/ AppendFails(s)
            \/ \E c \in Typed : Add(s, c)
            \/ BeginSave(s) \/ WriteTmp(s) \/ Replace(s) \/ SaveFails(s)
            \/ Killed(s)
        BY <1>2 DEF Next
  <2>2. Lists' /\ OwnEntry' /\ Recall' /\ LastKept' /\ Deduplicated' /\ Worth'
        BY <2>1, LoadLists, AddLists, AppendLists, FailLists, SaveLists, ReplaceLists, StopLists
  <2> QED BY <1>0, <2>2 DEF LInv
<1> QED BY <1>1, <1>2

\* The data file is worth what was found in it and every line completed since, the newest
\* command is in it, and each shell recalls its own commands, without duplicates.
THEOREM NoCommandIsLost ==
    ASSUME ~LockMayFail, ~ReadMayFail
    PROVE  Spec => []NothingLost
<1>1. LInv /\ [Next]_vars => LInv'
      BY ListsStep
<1>2. ASSUME LInv PROVE NothingLost
  <2>1. TypeOK /\ Deduplicated
        BY <1>2 DEF LInv, Lists
  <2>2. NewestSurvives
    <3> SUFFICES ASSUME log # <<>>, option.dedup_mode # "global" PROVE Has(disk, Last(log).command)
        BY DEF NewestSurvives
    <3>1. disk # <<>> /\ Last(disk).command = Last(log).command /\ disk \in Seq(Entry)
          BY <1>2 DEF LInv, LastKept, Lists, TypeOK
    <3>2. Len(disk) \in DOMAIN disk
          BY <3>1
    <3> QED BY <3>1, <3>2 DEF Has, Last
  <2>3. RecallsItsOwn
        BY <1>2 DEF LInv, Recall, RecallsItsOwn
  <2>4. option.max_length = 0 =>
            ApplyDedup(option.dedup_mode, disk) = ApplyDedup(option.dedup_mode, found \o log)
        BY <1>2 DEF LInv, Worth, Dropped
  <2> QED BY <2>1, <2>2, <2>3, <2>4 DEF NothingLost
<1>3. LInv => NothingLost
      BY <1>2
<1> QED BY ListsBase, <1>1, <1>3, PTL DEF Spec

=============================================================================
