---------------------------- MODULE LoopTheorems ----------------------------
(***************************************************************************)
(* The loops of the handlers are recursive functions over an interval      *)
(* 0 .. n.  The first part is induction and definition by recursion over   *)
(* such an interval, stated with sets and functions only, so that a prover *)
(* can instantiate them; the second is what Keep and LastOf, the loops of  *)
(* Orders, return.                                                         *)
(***************************************************************************)
EXTENDS Integers, Orders, TLAPS, WellFoundedInduction

\* Every non-empty set of naturals has a least element.
LEMMA LeastNatural ==
  ASSUME NEW T \in SUBSET Nat, T # {}
  PROVE  \E x \in T : \A y \in T : ~(y < x)
<1> DEFINE R == OpToRel(<, Nat)
<1>1. IsWellFoundedOn(R, Nat)
  BY NatLessThanWellFounded
<1>2. \E x \in T : \A y \in T : ~(<<y, x>> \in R)
  <2> HIDE DEF R
  <2> QED BY <1>1, WFMin
<1>3. \A x, y \in T : y < x => <<y, x>> \in R
  BY DEF OpToRel
<1> QED BY <1>2, <1>3

\* A set that holds 0 and, with i - 1, holds i, holds the whole interval.
LEMMA IntervalInduction ==
  ASSUME NEW n \in Nat, NEW T, 0 \in T,
         \A i \in 1 .. n : i - 1 \in T => i \in T
  PROVE  0 .. n \subseteq T
<1> DEFINE U == (0 .. n) \ T
<1> SUFFICES ASSUME U # {} PROVE FALSE
  OBVIOUS
<1>1. U \in SUBSET Nat
  OBVIOUS
<1>2. PICK k \in U : \A j \in U : ~(j < k)
  <2> HIDE DEF U
  <2> QED BY <1>1, LeastNatural
<1>3. k \in 0 .. n /\ k \notin T /\ k # 0
  BY <1>2
<1>4. k \in 1 .. n /\ k - 1 \in 0 .. n /\ k - 1 < k
  BY <1>3
<1>5. k - 1 \in T
  BY <1>2, <1>4
<1> QED BY <1>3, <1>4, <1>5

\* The bodies of a loop of n rounds over values of V, and the runs of one of
\* them from a: f[i] is the value after i rounds.
Bodies(n, V) == [1 .. n -> [V -> V]]
Runs(n, V, a, G) ==
  {f \in [0 .. n -> V] : f[0] = a /\ \A i \in 1 .. n : f[i] = G[i][f[i - 1]]}

\* A loop over values of V, started at a value of V, has a run.
LEMMA RecursionExists ==
  ASSUME NEW n \in Nat, NEW V, NEW a \in V, NEW G \in Bodies(n, V)
  PROVE  Runs(n, V, a, G) # {}
<1> DEFINE Run(k, f) == f[0] = a /\ \A i \in 1 .. k : f[i] = G[i][f[i - 1]]
           T == {k \in 0 .. n : \E f \in [0 .. k -> V] : Run(k, f)}
<1>1. 0 \in T
  <2> DEFINE h == [i \in 0 .. 0 |-> a]
  <2>1. h \in [0 .. 0 -> V] /\ Run(0, h)
    OBVIOUS
  <2>2. \E f \in [0 .. 0 -> V] : Run(0, f)
    <3> HIDE DEF h, Run
    <3> QED BY <2>1
  <2> QED BY <2>2
<1>2. ASSUME NEW k \in 1 .. n, k - 1 \in T PROVE k \in T
  <2>1. PICK g \in [0 .. (k - 1) -> V] : Run(k - 1, g)
    BY <1>2
  <2>2. k - 1 \in 0 .. (k - 1) /\ g[k - 1] \in V /\ G[k][g[k - 1]] \in V
    BY <2>1 DEF Bodies
  <2> DEFINE h == [i \in 0 .. k |-> IF i = k THEN G[k][g[k - 1]] ELSE g[i]]
  <2>3. \A i \in 0 .. k : i # k => i \in 0 .. (k - 1)
    OBVIOUS
  <2>4. h \in [0 .. k -> V]
    BY <2>1, <2>2, <2>3
  <2>5. ASSUME NEW i \in 1 .. k PROVE h[i] = G[i][h[i - 1]]
    <3>1. CASE i = k
      <4>1. k - 1 \in 0 .. k /\ k \in 0 .. k /\ k - 1 # k
        OBVIOUS
      <4>2. h[k - 1] = g[k - 1] /\ h[k] = G[k][g[k - 1]]
        BY <4>1
      <4> QED BY <3>1, <4>2
    <3>2. CASE i # k
      <4>1. i \in 1 .. (k - 1) /\ i \in 0 .. k /\ i - 1 \in 0 .. k /\ i - 1 # k
        BY <3>2
      <4>2. h[i] = g[i] /\ h[i - 1] = g[i - 1]
        BY <4>1
      <4> QED BY <2>1, <4>1, <4>2
    <3> QED BY <3>1, <3>2
  <2>6. h[0] = a
    <3>1. 0 \in 0 .. k /\ 0 # k
      OBVIOUS
    <3> QED BY <2>1, <3>1
  <2>7. \E f \in [0 .. k -> V] : Run(k, f)
    <3>1. Run(k, h)
      BY <2>5, <2>6
    <3> HIDE DEF h, Run
    <3> QED BY <2>4, <3>1
  <2>8. k \in 0 .. n
    OBVIOUS
  <2> QED BY <2>7, <2>8
<1>3. 0 .. n \subseteq T
  <2> HIDE DEF T
  <2> QED BY <1>1, <1>2, IntervalInduction
<1>4. PICK f \in [0 .. n -> V] : Run(n, f)
  BY <1>3
<1> QED BY <1>4 DEF Runs

\* When the rounds lead from the members of one set to those of the next, the
\* loop has a run that stays within them.
LEMMA LoopKeeps ==
  ASSUME NEW n \in Nat, NEW V, NEW S \in [0 .. n -> SUBSET V], NEW a \in S[0],
         NEW G \in Bodies(n, V),
         \A i \in 1 .. n : \A e \in S[i - 1] : G[i][e] \in S[i]
  PROVE  \E f \in [0 .. n -> V] :
           /\ f[0] = a
           /\ \A i \in 1 .. n : f[i] = G[i][f[i - 1]]
           /\ \A i \in 0 .. n : f[i] \in S[i]
<1>1. 0 \in 0 .. n /\ a \in V
  OBVIOUS
<1>2. PICK f \in [0 .. n -> V] : f[0] = a /\ \A i \in 1 .. n : f[i] = G[i][f[i - 1]]
  BY <1>1, RecursionExists DEF Runs
<1> DEFINE T == {i \in 0 .. n : f[i] \in S[i]}
<1>3. 0 \in T
  BY <1>1, <1>2
<1>4. ASSUME NEW i \in 1 .. n, i - 1 \in T PROVE i \in T
  BY <1>2, <1>4
<1>5. 0 .. n \subseteq T
  <2> HIDE DEF T
  <2> QED BY <1>3, <1>4, IntervalInduction
<1> QED BY <1>2, <1>5

-----------------------------------------------------------------------------
(* Orders: what is kept of a sequence.                                      *)

\* The runs of Keep's own recursion: f[i] is what is kept of the first i elements.
KeepRuns(E, s, S) ==
  {f \in [0 .. Len(s) -> Seq(E)] :
     /\ f[0] = <<>>
     /\ \A i \in 1 .. Len(s) :
          f[i] = IF s[i] \in S THEN Append(f[i - 1], s[i]) ELSE f[i - 1]
     /\ Keep(s, S) = f[Len(s)]}

\* Keep is the last value of a run of its recursion.
LEMMA KeepRun ==
  ASSUME NEW E, NEW s \in Seq(E), NEW S
  PROVE  KeepRuns(E, s, S) # {}
<1> DEFINE n == Len(s)
           V == Seq(E)
           a == <<>>
           Round == [i \in 1 .. n |-> [q \in V |-> IF s[i] \in S THEN Append(q, s[i]) ELSE q]]
           Kept(f) == f = [i \in 0 .. n |->
                             IF i = 0 THEN <<>>
                             ELSE IF s[i] \in S THEN Append(f[i - 1], s[i]) ELSE f[i - 1]]
<1>1. n \in Nat /\ a \in V /\ Round \in Bodies(n, V)
  BY DEF Bodies
<1>2. PICK g \in Runs(n, V, a, Round) : TRUE
  <2> HIDE DEF n, Round, V, a
  <2> QED BY <1>1, RecursionExists
<1>3. g \in [0 .. n -> V] /\ g[0] = a /\ \A i \in 1 .. n : g[i] = Round[i][g[i - 1]]
  BY <1>2 DEF Runs
<1>4. Kept(g)
  <2>1. ASSUME NEW i \in 1 .. n
        PROVE  g[i] = IF s[i] \in S THEN Append(g[i - 1], s[i]) ELSE g[i - 1]
    <3>1. i - 1 \in 0 .. n /\ g[i] = Round[i][g[i - 1]]
      <4> HIDE DEF Round, V
      <4> QED BY <1>3
    <3>2. g[i - 1] \in V
      <4> HIDE DEF n, V
      <4> QED BY <3>1, <1>3
    <3> QED BY <3>1, <3>2
  <2>2. \A i \in 0 .. n : i # 0 => i \in 1 .. n
    BY <1>1
  <2> QED BY <1>3, <2>1, <2>2
<1> DEFINE f == CHOOSE f : Kept(f)
<1>5. Kept(f)
  BY <1>4
<1>6. Keep(s, S) = f[n]
  BY DEF Keep
<1> HIDE DEF f
<1>7. \A i \in 0 .. n : f[i] = IF i = 0 THEN <<>>
                               ELSE IF s[i] \in S THEN Append(f[i - 1], s[i]) ELSE f[i - 1]
  BY <1>5
<1>8. f[0] = <<>> /\ \A i \in 1 .. n :
        f[i] = IF s[i] \in S THEN Append(f[i - 1], s[i]) ELSE f[i - 1]
  <2>1. 0 \in 0 .. n /\ \A i \in 1 .. n : i \in 0 .. n /\ i # 0
    BY <1>1
  <2> HIDE DEF n
  <2> QED BY <1>7, <2>1
<1>9. f \in [0 .. n -> V]
  <2> DEFINE T == {i \in 0 .. n : f[i] \in V}
  <2>1. 0 \in T
    <3> HIDE DEF n, V
    <3>1. 0 \in 0 .. n
      BY <1>1
    <3> QED BY <1>8, <1>1, <3>1
  <2>2. ASSUME NEW i \in 1 .. n, i - 1 \in T PROVE i \in T
    <3>1. f[i - 1] \in V /\ i \in 0 .. n /\ s[i] \in E
      BY <2>2, <1>1
    <3>2. f[i] = IF s[i] \in S THEN Append(f[i - 1], s[i]) ELSE f[i - 1]
      BY <1>8
    <3>3. f[i] \in V
      <4> HIDE DEF T
      <4> QED BY <3>1, <3>2
    <3> HIDE DEF n, V
    <3> QED BY <3>1, <3>3
  <2>3. 0 .. n \subseteq T
    <3> HIDE DEF T, n
    <3> QED BY <2>1, <2>2, <1>1, IntervalInduction
  <2>4. \A i \in 0 .. n : f[i] \in V
    BY <2>3
  <2> HIDE DEF n, V
  <2> QED BY <2>4, <1>5
<1>10. f \in KeepRuns(E, s, S)
  BY <1>6, <1>8, <1>9 DEF KeepRuns
<1> QED BY <1>10

\* What Keep keeps is a sequence of elements of s that are in S, in which
\* nobody is twice who was not twice in s.
LEMMA KeepElements ==
  ASSUME NEW E, NEW s \in Seq(E), NEW S
  PROVE  /\ Keep(s, S) \in Seq(E)
         /\ Elements(Keep(s, S)) \subseteq S \cap Elements(s)
         /\ Distinct(s) => Distinct(Keep(s, S))
<1> DEFINE n == Len(s)
<1>0. n \in Nat
  OBVIOUS
<1>1. PICK f \in KeepRuns(E, s, S) : TRUE
  BY KeepRun
<1>2. /\ f \in [0 .. n -> Seq(E)] /\ f[0] = <<>> /\ Keep(s, S) = f[n]
      /\ \A i \in 1 .. n : f[i] = IF s[i] \in S THEN Append(f[i - 1], s[i]) ELSE f[i - 1]
  BY <1>1 DEF KeepRuns
<1> DEFINE From(i) == \A j \in 1 .. Len(f[i]) : \E k \in 1 .. i : f[i][j] = s[k] /\ s[k] \in S
           Once(i) == \A j, k \in 1 .. Len(f[i]) : f[i][j] = f[i][k] => j = k
           T == {i \in 0 .. n : From(i) /\ (Distinct(s) => Once(i))}
<1>3. 0 \in T
  BY <1>2, <1>0
<1>4. ASSUME NEW i \in 1 .. n, i - 1 \in T PROVE i \in T
  <2>0. i - 1 \in 0 .. n /\ i \in 0 .. n /\ s[i] \in E
    BY <1>0
  <2>1. i - 1 \in 0 .. n /\ i \in 0 .. n /\ f[i - 1] \in Seq(E) /\ s[i] \in E
    <3> DEFINE V == Seq(E)
    <3>1. f[i - 1] \in V
      <4>1. f \in [0 .. n -> V]
        BY <1>2
      <4> HIDE DEF V, n
      <4> QED BY <4>1, <2>0
    <3> QED BY <2>0, <3>1
  <2>2. From(i - 1) /\ (Distinct(s) => Once(i - 1))
    BY <1>4
  <2>3. \A k \in 1 .. (i - 1) : k \in 1 .. i /\ k \in DOMAIN s /\ i \in DOMAIN s /\ k # i
    BY <1>0
  <2>4. CASE s[i] \notin S
    <3>1. f[i] = f[i - 1]
      BY <2>4, <1>2
    <3> QED BY <2>1, <2>2, <2>3, <3>1
  <2>5. CASE s[i] \in S
    <3>1. f[i] = Append(f[i - 1], s[i])
      BY <2>5, <1>2
    <3> DEFINE m == Len(f[i - 1])
    <3>2. m \in Nat /\ Len(f[i]) = m + 1 /\ f[i][m + 1] = s[i]
          /\ \A j \in 1 .. m : f[i][j] = f[i - 1][j]
      BY <3>1, <2>1
    <3>3. From(i)
      <4> TAKE j \in 1 .. Len(f[i])
      <4>1. CASE j = m + 1
        BY <4>1, <3>2, <2>5
      <4>2. CASE j # m + 1
        <5>1. j \in 1 .. m
          BY <4>2, <3>2
        <5> QED BY <5>1, <3>2, <2>2, <2>3
      <4> QED BY <4>1, <4>2
    <3>4. ASSUME Distinct(s) PROVE Once(i)
      <4>1. \A j \in 1 .. m : f[i][j] # f[i][m + 1]
        <5> TAKE j \in 1 .. m
        <5>1. PICK k \in 1 .. (i - 1) : f[i - 1][j] = s[k]
          BY <2>2
        <5>2. s[k] # s[i]
          BY <2>3, <3>4 DEF Distinct
        <5> QED BY <5>1, <5>2, <3>2
      <4>2. \A j, k \in 1 .. m : f[i][j] = f[i][k] => j = k
        BY <2>2, <3>4, <3>2
      <4>3. \A j \in 1 .. Len(f[i]) : j = m + 1 \/ j \in 1 .. m
        BY <3>2
      <4> HIDE DEF m
      <4> QED BY <4>1, <4>2, <4>3
    <3> QED BY <3>3, <3>4, <2>1
  <2> QED BY <2>4, <2>5
<1>5. n \in T
  <2>1. 0 .. n \subseteq T
    <3> HIDE DEF T, n
    <3> QED BY <1>0, <1>3, <1>4, IntervalInduction
  <2>2. n \in 0 .. n
    BY <1>0
  <2> HIDE DEF T
  <2> QED BY <2>1, <2>2
<1>6. f[n] \in Seq(E) /\ DOMAIN f[n] = 1 .. Len(f[n])
  BY <1>0, <1>2
<1>7. From(n) /\ (Distinct(s) => Once(n))
  BY <1>5
<1>8. Elements(f[n]) \subseteq S \cap Elements(s)
  <2>1. \A k \in 1 .. n : k \in DOMAIN s
    OBVIOUS
  <2> QED BY <1>6, <1>7, <2>1 DEF Elements
<1>9. Distinct(s) => Distinct(f[n])
  BY <1>6, <1>7 DEF Distinct
<1> QED BY <1>2, <1>6, <1>8, <1>9

\* Keep loses no element that is in S.
LEMMA KeepAll ==
  ASSUME NEW E, NEW s \in Seq(E), NEW S
  PROVE  Elements(Keep(s, S)) = S \cap Elements(s)
<1> DEFINE n == Len(s)
<1>0. n \in Nat
  OBVIOUS
<1>1. PICK f \in KeepRuns(E, s, S) : TRUE
  BY KeepRun
<1>2. /\ f \in [0 .. n -> Seq(E)] /\ f[0] = <<>> /\ Keep(s, S) = f[n]
      /\ \A i \in 1 .. n : f[i] = IF s[i] \in S THEN Append(f[i - 1], s[i]) ELSE f[i - 1]
  BY <1>1 DEF KeepRuns
<1> DEFINE Has(i) == \A j \in 1 .. i : s[j] \in S => \E k \in 1 .. Len(f[i]) : f[i][k] = s[j]
           T == {i \in 0 .. n : Has(i)}
<1>3. 0 \in T
  BY <1>0
<1>4. ASSUME NEW i \in 1 .. n, i - 1 \in T PROVE i \in T
  <2>1. i - 1 \in 0 .. n /\ i \in 0 .. n /\ s[i] \in E /\ Has(i - 1)
    BY <1>0, <1>4
  <2>2. f[i - 1] \in Seq(E)
    <3> DEFINE V == Seq(E)
    <3>1. f \in [0 .. n -> V]
      BY <1>2
    <3> HIDE DEF V, n
    <3>2. f[i - 1] \in V
      BY <3>1, <2>1
    <3> QED BY <3>2 DEF V
  <2>3. CASE s[i] \notin S
    <3>1. f[i] = f[i - 1]
      BY <2>3, <1>2
    <3>2. Has(i)
      <4> TAKE j \in 1 .. i
      <4> HAVE s[j] \in S
      <4>1. j \in 1 .. (i - 1)
        BY <2>3
      <4> QED BY <4>1, <2>1, <3>1
    <3> QED BY <2>1, <3>2
  <2>4. CASE s[i] \in S
    <3>1. f[i] = Append(f[i - 1], s[i])
      BY <2>4, <1>2
    <3> DEFINE m == Len(f[i - 1])
    <3>2. m \in Nat /\ Len(f[i]) = m + 1 /\ f[i][m + 1] = s[i]
          /\ \A j \in 1 .. m : f[i][j] = f[i - 1][j]
      BY <3>1, <2>1, <2>2
    <3>3. Has(i)
      <4> TAKE j \in 1 .. i
      <4> HAVE s[j] \in S
      <4>1. CASE j = i
        BY <4>1, <3>2
      <4>2. CASE j # i
        <5>1. j \in 1 .. (i - 1)
          BY <4>2
        <5>2. PICK k \in 1 .. m : f[i - 1][k] = s[j]
          BY <5>1, <2>1
        <5>3. k \in 1 .. Len(f[i]) /\ f[i][k] = s[j]
          BY <5>2, <3>2
        <5> QED BY <5>3
      <4> QED BY <4>1, <4>2
    <3> QED BY <2>1, <3>3
  <2> QED BY <2>3, <2>4
<1>5. n \in T
  <2>1. 0 .. n \subseteq T
    <3> HIDE DEF T, n
    <3> QED BY <1>0, <1>3, <1>4, IntervalInduction
  <2>2. n \in 0 .. n
    BY <1>0
  <2> HIDE DEF T
  <2> QED BY <2>1, <2>2
<1>6. f[n] \in Seq(E) /\ DOMAIN f[n] = 1 .. Len(f[n]) /\ DOMAIN s = 1 .. n
  BY <1>0, <1>2
<1>7. S \cap Elements(s) \subseteq Elements(f[n])
  BY <1>5, <1>6 DEF Elements
<1>8. Elements(Keep(s, S)) \subseteq S \cap Elements(s)
  BY KeepElements
<1> QED BY <1>2, <1>7, <1>8

\* Keeping a set that holds the last element keeps it last.
LEMMA KeepLast ==
  ASSUME NEW E, NEW s \in Seq(E), s # <<>>, NEW S, s[Len(s)] \in S
  PROVE  Keep(s, S) # <<>> /\ Keep(s, S)[Len(Keep(s, S))] = s[Len(s)]
<1>1. PICK f \in KeepRuns(E, s, S) : TRUE
  BY KeepRun
<1>2. Len(s) \in 1 .. Len(s) /\ Len(s) - 1 \in 0 .. Len(s) /\ s[Len(s)] \in E
  OBVIOUS
<1>3. f[Len(s) - 1] \in Seq(E) /\ Keep(s, S) = Append(f[Len(s) - 1], s[Len(s)])
  BY <1>1, <1>2 DEF KeepRuns
<1> QED BY <1>2, <1>3

\* A run only depends on the elements it has passed.
LEMMA RunsAgree ==
  ASSUME NEW E, NEW s \in Seq(E), NEW r \in Seq(E), NEW S, NEW n \in Nat, n <= Len(s), n <= Len(r),
         \A i \in 1 .. n : s[i] = r[i],
         NEW f \in KeepRuns(E, s, S), NEW g \in KeepRuns(E, r, S)
  PROVE  f[n] = g[n]
<1> DEFINE T == {i \in 0 .. n : f[i] = g[i]}
<1>1. 0 \in T
  BY DEF KeepRuns
<1>2. ASSUME NEW i \in 1 .. n, i - 1 \in T PROVE i \in T
  <2>1. i \in 1 .. Len(s) /\ i \in 1 .. Len(r) /\ i \in 0 .. n /\ s[i] = r[i] /\ f[i - 1] = g[i - 1]
    BY <1>2
  <2>2. /\ f[i] = IF s[i] \in S THEN Append(f[i - 1], s[i]) ELSE f[i - 1]
        /\ g[i] = IF r[i] \in S THEN Append(g[i - 1], r[i]) ELSE g[i - 1]
    BY <2>1 DEF KeepRuns
  <2> QED BY <2>1, <2>2
<1>3. 0 .. n \subseteq T
  <2> HIDE DEF T
  <2> QED BY <1>1, <1>2, IntervalInduction
<1> QED BY <1>3

\* Keep goes through a sequence from the front.
LEMMA KeepAppend ==
  ASSUME NEW E, NEW s \in Seq(E), NEW x \in E, NEW S
  PROVE  Keep(Append(s, x), S) = IF x \in S THEN Append(Keep(s, S), x) ELSE Keep(s, S)
<1> DEFINE n == Len(s)
           r == Append(s, x)
<1>1. n \in Nat /\ r \in Seq(E) /\ Len(r) = n + 1 /\ r[n + 1] = x /\ \A i \in 1 .. n : r[i] = s[i]
  OBVIOUS
<1> HIDE DEF r, n
<1>2. PICK f \in KeepRuns(E, r, S) : TRUE
  BY <1>1, KeepRun
<1>3. PICK g \in KeepRuns(E, s, S) : TRUE
  BY KeepRun
<1>4. f[n] = g[n]
  BY <1>1, <1>2, <1>3, RunsAgree DEF n
<1>5. Keep(s, S) = g[n] /\ Keep(r, S) = f[n + 1]
  BY <1>1, <1>2, <1>3 DEF KeepRuns, n
<1>6. f[n + 1] = IF r[n + 1] \in S THEN Append(f[n], r[n + 1]) ELSE f[n]
  <2>1. n + 1 \in 1 .. Len(r) /\ (n + 1) - 1 = n
    BY <1>1
  <2> QED BY <1>2, <2>1 DEF KeepRuns
<1> QED BY <1>1, <1>4, <1>5, <1>6 DEF r

\* Two sequences that pass the same test at each place are kept to the same length.
LEMMA KeepAlike ==
  ASSUME NEW E, NEW s \in Seq(E), NEW r \in Seq(E), Len(s) = Len(r), NEW S, NEW T,
         \A i \in 1 .. Len(s) : s[i] \in S <=> r[i] \in T
  PROVE  Len(Keep(s, S)) = Len(Keep(r, T))
<1> DEFINE n == Len(s)
<1>0. n \in Nat
  OBVIOUS
<1>1. PICK f \in KeepRuns(E, s, S) : TRUE
  BY KeepRun
<1>2. PICK g \in KeepRuns(E, r, T) : TRUE
  BY KeepRun
<1> DEFINE D == {i \in 0 .. n : Len(f[i]) = Len(g[i])}
<1>3. 0 \in D
  BY <1>0, <1>1, <1>2 DEF KeepRuns
<1>4. ASSUME NEW i \in 1 .. n, i - 1 \in D PROVE i \in D
  <2>1. i \in 0 .. n /\ i - 1 \in 0 .. n /\ i \in 1 .. Len(r) /\ s[i] \in E /\ r[i] \in E
        /\ Len(f[i - 1]) = Len(g[i - 1])
    BY <1>0, <1>4
  <2>2. /\ f[i] = IF s[i] \in S THEN Append(f[i - 1], s[i]) ELSE f[i - 1]
        /\ g[i] = IF r[i] \in T THEN Append(g[i - 1], r[i]) ELSE g[i - 1]
    BY <1>1, <1>2, <2>1 DEF KeepRuns
  <2>3. f[i - 1] \in Seq(E) /\ g[i - 1] \in Seq(E)
    <3> DEFINE V == Seq(E)
    <3>1. f \in [0 .. n -> V] /\ g \in [0 .. n -> V]
      BY <1>1, <1>2 DEF KeepRuns
    <3> HIDE DEF V, n
    <3>2. f[i - 1] \in V /\ g[i - 1] \in V
      BY <2>1, <3>1
    <3> QED BY <3>2 DEF V
  <2>4. s[i] \in S <=> r[i] \in T
    BY <2>1
  <2> DEFINE a == f[i - 1]
             b == g[i - 1]
             x == s[i]
             y == r[i]
  <2>5. /\ Len(a) = Len(b) /\ (x \in S <=> y \in T)
        /\ Len(Append(a, x)) = Len(a) + 1 /\ Len(Append(b, y)) = Len(b) + 1
    <3>1. a \in Seq(E) /\ b \in Seq(E) /\ x \in E /\ y \in E
      BY <2>1, <2>3
    <3>2. Len(a) = Len(b) /\ (x \in S <=> y \in T)
      BY <2>1, <2>4
    <3> HIDE DEF a, b, x, y
    <3> QED BY <3>1, <3>2
  <2>6. f[i] = (IF x \in S THEN Append(a, x) ELSE a) /\ g[i] = IF y \in T THEN Append(b, y) ELSE b
    BY <2>2
  <2> HIDE DEF a, b, x, y
  <2>7. Len(f[i]) = Len(g[i])
    BY <2>5, <2>6
  <2> QED BY <2>1, <2>7
<1>5. 0 .. n \subseteq D
  <2> HIDE DEF D, n
  <2> QED BY <1>0, <1>3, <1>4, IntervalInduction
<1> QED BY <1>0, <1>1, <1>2, <1>5 DEF KeepRuns

\* Keeping twice is keeping what passes both tests.
LEMMA KeepKeep ==
  ASSUME NEW E, NEW s \in Seq(E), NEW S, NEW T
  PROVE  Keep(Keep(s, S), T) = Keep(s, S \cap T)
<1> DEFINE n == Len(s)
<1>0. n \in Nat
  OBVIOUS
<1>1. PICK f \in KeepRuns(E, s, S) : TRUE
  BY KeepRun
<1>2. PICK g \in KeepRuns(E, s, S \cap T) : TRUE
  BY KeepRun
<1> DEFINE D == {i \in 0 .. n : Keep(f[i], T) = g[i]}
<1>3. 0 \in D
  <2>1. Keep(<<>>, T) = <<>>
    <3>1. <<>> \in Seq(E)
      OBVIOUS
    <3>2. PICK h \in KeepRuns(E, <<>>, T) : TRUE
      BY <3>1, KeepRun
    <3> QED BY <3>2 DEF KeepRuns
  <2> QED BY <1>0, <1>1, <1>2, <2>1 DEF KeepRuns
<1>4. ASSUME NEW i \in 1 .. n, i - 1 \in D PROVE i \in D
  <2>1. i \in 0 .. n /\ i - 1 \in 0 .. n /\ s[i] \in E /\ Keep(f[i - 1], T) = g[i - 1]
    BY <1>0, <1>4
  <2>2. /\ f[i] = IF s[i] \in S THEN Append(f[i - 1], s[i]) ELSE f[i - 1]
        /\ g[i] = IF s[i] \in S \cap T THEN Append(g[i - 1], s[i]) ELSE g[i - 1]
    BY <1>1, <1>2, <2>1 DEF KeepRuns
  <2>3. f[i - 1] \in Seq(E)
    <3> DEFINE V == Seq(E)
    <3>1. f \in [0 .. n -> V]
      BY <1>1 DEF KeepRuns
    <3> HIDE DEF V, n
    <3>2. f[i - 1] \in V
      BY <2>1, <3>1
    <3> QED BY <3>2 DEF V
  <2>4. Keep(Append(f[i - 1], s[i]), T)
          = IF s[i] \in T THEN Append(Keep(f[i - 1], T), s[i]) ELSE Keep(f[i - 1], T)
    <3> DEFINE a == f[i - 1]
               x == s[i]
    <3>1. a \in Seq(E) /\ x \in E
      BY <2>1, <2>3
    <3> HIDE DEF a, x
    <3>2. Keep(Append(a, x), T) = IF x \in T THEN Append(Keep(a, T), x) ELSE Keep(a, T)
      BY <3>1, KeepAppend
    <3> QED BY <3>2 DEF a, x
  <2> QED BY <2>1, <2>2, <2>4
<1>5. 0 .. n \subseteq D
  <2> HIDE DEF D, n
  <2> QED BY <1>0, <1>3, <1>4, IntervalInduction
<1> QED BY <1>0, <1>1, <1>2, <1>5 DEF KeepRuns

\* The smaller the set, the fewer are kept.
LEMMA KeepFewer ==
  ASSUME NEW E, NEW s \in Seq(E), NEW S, NEW T, S \subseteq T
  PROVE  Len(Keep(s, S)) <= Len(Keep(s, T)) /\ Len(Keep(s, T)) <= Len(s)
<1>1. ASSUME NEW r \in Seq(E), NEW R
      PROVE  Len(Keep(r, R)) <= Len(r)
  <2> DEFINE n == Len(r)
  <2>0. n \in Nat
    OBVIOUS
  <2>1. PICK f \in KeepRuns(E, r, R) : TRUE
    BY KeepRun
  <2> DEFINE D == {i \in 0 .. n : Len(f[i]) <= i}
  <2>2. 0 \in D
    BY <2>0, <2>1 DEF KeepRuns
  <2>3. ASSUME NEW i \in 1 .. n, i - 1 \in D PROVE i \in D
    <3>1. i \in 0 .. n /\ i - 1 \in 0 .. n /\ r[i] \in E /\ Len(f[i - 1]) <= i - 1
      BY <2>0, <2>3
    <3>2. f[i] = IF r[i] \in R THEN Append(f[i - 1], r[i]) ELSE f[i - 1]
      BY <2>1, <3>1 DEF KeepRuns
    <3>3. f[i - 1] \in Seq(E)
      <4> DEFINE V == Seq(E)
      <4>1. f \in [0 .. n -> V]
        BY <2>1 DEF KeepRuns
      <4> HIDE DEF V, n
      <4>2. f[i - 1] \in V
        BY <3>1, <4>1
      <4> QED BY <4>2 DEF V
    <3> DEFINE a == f[i - 1]
               x == r[i]
    <3>4. Len(a) \in Nat /\ Len(Append(a, x)) = Len(a) + 1 /\ Len(a) <= i - 1
      BY <3>1, <3>3
    <3>5. f[i] = IF x \in R THEN Append(a, x) ELSE a
      BY <3>2
    <3> HIDE DEF a, x
    <3>6. Len(f[i]) <= i
      BY <3>4, <3>5
    <3> QED BY <3>1, <3>6
  <2>4. 0 .. n \subseteq D
    <3> HIDE DEF D, n
    <3> QED BY <2>0, <2>2, <2>3, IntervalInduction
  <2> QED BY <2>0, <2>1, <2>4 DEF KeepRuns
<1>2. Keep(s, S) = Keep(Keep(s, T), S)
  <2>1. T \cap S = S
    OBVIOUS
  <2> QED BY <2>1, KeepKeep
<1>3. Keep(s, T) \in Seq(E)
  BY KeepElements
<1> QED BY <1>1, <1>2, <1>3

-----------------------------------------------------------------------------
(* The last element in a set.                                               *)

\* A non-empty set of places has a last one.
LEMMA LastPlace ==
  ASSUME NEW n \in Nat, NEW H \in SUBSET (1 .. n), H # {}
  PROVE  Max(H) \in H /\ \A y \in H : Max(H) >= y
<1> DEFINE T == {n - y : y \in H}
<1>1. T \in SUBSET Nat /\ T # {}
  <2>1. \A y \in 1 .. n : n - y \in Nat
    OBVIOUS
  <2>2. \A y \in H : n - y \in Nat
    BY <2>1
  <2> QED BY <2>2
<1>2. PICK t \in T : \A y \in T : ~(y < t)
  <2> HIDE DEF T
  <2> QED BY <1>1, LeastNatural
<1>3. PICK x \in H : t = n - x
  BY <1>2
<1>4. ASSUME NEW y \in H PROVE x >= y
  <2>1. ~(n - y < n - x)
    BY <1>2, <1>3
  <2>2. x \in Int /\ y \in Int
    OBVIOUS
  <2> QED BY <2>1, <2>2
<1>5. \E z \in H : \A y \in H : z >= y
  BY <1>4
<1> QED BY <1>5 DEF Max

\* What LastOf finds is in the set, unless it finds nothing.
LEMMA LastIsIn ==
  ASSUME NEW E, NEW s \in Seq(E), NEW S, NEW none, LastOf(s, S, none) # none
  PROVE  LastOf(s, S, none) \in S
<1> DEFINE hits == {i \in DOMAIN s : s[i] \in S}
<1>1. Len(s) \in Nat /\ hits \in SUBSET (1 .. Len(s)) /\ hits # {}
  BY DEF LastOf
<1>2. Max(hits) \in hits
  BY <1>1, LastPlace
<1> QED BY <1>1, <1>2 DEF LastOf

\* The last element in a set is the last in a smaller set that still has it.
LEMMA LastFewer ==
  ASSUME NEW E, NEW s \in Seq(E), NEW S, NEW T, T \subseteq S, NEW none,
         LastOf(s, S, none) # none, LastOf(s, S, none) \in T
  PROVE  LastOf(s, T, none) = LastOf(s, S, none)
<1> DEFINE more == {i \in DOMAIN s : s[i] \in S}
           hits == {i \in DOMAIN s : s[i] \in T}
<1>1. Len(s) \in Nat /\ more \in SUBSET (1 .. Len(s)) /\ more # {} /\ hits \subseteq more
  BY DEF LastOf
<1>2. LastOf(s, S, none) = s[Max(more)]
  BY <1>1 DEF LastOf
<1>3. Max(more) \in more /\ \A y \in more : Max(more) >= y
  BY <1>1, LastPlace
<1>4. Max(more) \in hits
  BY <1>2, <1>3
<1>5. Max(hits) \in hits /\ \A y \in hits : Max(hits) >= y
  BY <1>1, <1>4, LastPlace
<1>6. Max(hits) = Max(more)
  <2>1. Max(hits) >= Max(more) /\ Max(more) >= Max(hits)
    BY <1>1, <1>3, <1>4, <1>5
  <2>2. Max(hits) \in Int /\ Max(more) \in Int
    BY <1>1, <1>3, <1>5
  <2> QED BY ONLY <2>1, <2>2
<1> QED BY <1>2, <1>4, <1>6 DEF LastOf

\* A non-empty set of places has a first one.
LEMMA FirstPlace ==
  ASSUME NEW n \in Nat, NEW H \in SUBSET (1 .. n), H # {}
  PROVE  Min(H) \in H /\ \A y \in H : Min(H) <= y
<1>1. H \in SUBSET Nat
  OBVIOUS
<1>2. PICK x \in H : \A y \in H : ~(y < x)
  BY <1>1, LeastNatural
<1>3. \A y \in H : x <= y
  <2> TAKE y \in H
  <2>1. x \in Nat /\ y \in Nat /\ ~(y < x)
    BY <1>1, <1>2
  <2> QED BY ONLY <2>1
<1>4. \E z \in H : \A y \in H : z <= y
  BY <1>3
<1> QED BY <1>4 DEF Min

\* FirstOf finds an element of the set, the first there is, when there is one.
LEMMA FirstIs ==
  ASSUME NEW E, NEW s \in Seq(E), NEW S, NEW none
  PROVE  /\ FirstOf(s, S, none) # none => FirstOf(s, S, none) \in S \cap Elements(s)
         /\ none \notin S /\ S \cap Elements(s) # {} => FirstOf(s, S, none) # none
<1> DEFINE hits == {i \in DOMAIN s : s[i] \in S}
<1>1. Len(s) \in Nat /\ hits \in SUBSET (1 .. Len(s)) /\ DOMAIN s = 1 .. Len(s)
  OBVIOUS
<1>2. hits # {} => Min(hits) \in hits
  BY <1>1, FirstPlace
<1>3. FirstOf(s, S, none) = IF hits = {} THEN none ELSE s[Min(hits)]
  BY DEF FirstOf
<1>4. hits # {} => s[Min(hits)] \in S \cap Elements(s)
  BY <1>1, <1>2 DEF Elements
<1>5. S \cap Elements(s) # {} => hits # {}
  BY DEF Elements
<1> HIDE DEF hits
<1> QED BY <1>3, <1>4, <1>5

\* LastOf finds nothing when there is nothing to find.
LEMMA LastFound ==
  ASSUME NEW E, NEW s \in Seq(E), NEW S, NEW none, none \notin S
  PROVE  LastOf(s, S, none) = none <=> S \cap Elements(s) = {}
<1> DEFINE hits == {i \in DOMAIN s : s[i] \in S}
<1>1. Len(s) \in Nat /\ hits \in SUBSET (1 .. Len(s)) /\ DOMAIN s = 1 .. Len(s)
  OBVIOUS
<1>2. hits # {} => Max(hits) \in hits
  BY <1>1, LastPlace
<1>3. LastOf(s, S, none) = IF hits = {} THEN none ELSE s[Max(hits)]
  BY DEF LastOf
<1>4. hits # {} => s[Max(hits)] \in S \cap Elements(s)
  BY <1>1, <1>2 DEF Elements
<1>5. S \cap Elements(s) # {} => hits # {}
  BY DEF Elements
<1> HIDE DEF hits
<1> QED BY <1>3, <1>4, <1>5
=============================================================================
