-------------------------------- MODULE Loops --------------------------------
(* Facts about the loops of the model: folds over sequences.  The provers     *)
(* cannot instantiate a theorem about every operator, but a module about one  *)
(* operator they need not: a proof takes an instance of this one for each     *)
(* loop, with the loop's body and the invariant it keeps.                     *)
EXTENDS Integers, Folds

LOCAL INSTANCE WellFoundedInduction

CONSTANTS Op(_, _, _),     \* the body: context, value so far, next element
          Inv(_, _, _, _)  \* the invariant: context, sequence, elements done, value so far

Less == {p \in Nat \X Nat : p[1] < p[2]}

\* A set of natural numbers has a least element: induction, by the least
\* counterexample.
LEMMA LeastNatural ==
    ASSUME NEW T \in SUBSET Nat, T # {}
    PROVE  \E m \in T : \A k \in T : m <= k
<1>1. IsWellFoundedOn(Less, Nat)
  BY NatLessThanWellFounded DEF OpToRel, Less
<1>2. PICK m \in T : \A k \in T : ~(<<k, m>> \in Less)
  BY <1>1, WFMin
<1>3. \A k \in T : ~(k < m)
  BY <1>2 DEF Less
<1> QED BY <1>3

-----------------------------------------------------------------------------
\* The greatest of a set of numbers.
Top(S) == CHOOSE x \in S : \A y \in S : x >= y

Fold(c, base, s) ==
    MapThenFoldSet(LAMBDA x, y : Op(c, y, x), base, LAMBDA i : s[i], LAMBDA S : Top(S), DOMAIN s)

\* g is the recursive function over the subsets of D the fold is defined by.
Folds(g, c, base, s, D) ==
    g = [t \in SUBSET D |-> IF t = {} THEN base ELSE Op(c, g[t \ {Top(t)}], s[Top(t)])]

Folded(c, base, s, n) == \E g : Folds(g, c, base, s, 1 .. n)

\* The largest number of an initial segment, and of a set it is in.
LEMMA MaxTop ==
    ASSUME NEW n \in Nat, NEW t \in SUBSET (1 .. n), n \in t
    PROVE  Top(t) = n
<1>1. \A y \in t : n >= y
  OBVIOUS
<1>2. \A x \in t : (\A y \in t : x >= y) => x = n
  OBVIOUS
<1> QED BY <1>1, <1>2 DEF Top

LEMMA FoldsExist ==
    ASSUME NEW c, NEW base, NEW s, NEW N \in Nat
    PROVE  Folded(c, base, s, N)
<1> DEFINE T == {n \in Nat : ~Folded(c, base, s, n)}
<1>1. Folded(c, base, s, 0)
  <2> DEFINE g == [t \in SUBSET {} |-> base]
  <2>1. Folds(g, c, base, s, 1 .. 0)
    BY DEF Folds
  <2> QED BY <2>1 DEF Folded
<1>2. ASSUME NEW n \in Nat, Folded(c, base, s, n)
      PROVE  Folded(c, base, s, n + 1)
  <2>1. PICK g : Folds(g, c, base, s, 1 .. n)
    BY <1>2 DEF Folded
  <2> DEFINE h == [t \in SUBSET (1 .. n + 1) |->
                     IF n + 1 \in t THEN Op(c, g[t \ {n + 1}], s[n + 1]) ELSE g[t]]
  <2>2. ASSUME NEW t \in SUBSET (1 .. n + 1)
        PROVE  h[t] = IF t = {} THEN base ELSE Op(c, h[t \ {Top(t)}], s[Top(t)])
    <3>1. CASE n + 1 \in t
      <4>1. Top(t) = n + 1
        BY <3>1, MaxTop
      <4>2. t \ {n + 1} \in SUBSET (1 .. n + 1) /\ n + 1 \notin t \ {n + 1}
        OBVIOUS
      <4>3. h[t \ {n + 1}] = g[t \ {n + 1}]
        BY <4>2
      <4> QED BY <4>1, <4>3, <3>1
    <3>2. CASE n + 1 \notin t
      <4> DEFINE u == t \ {Top(t)}
      <4>0. u \subseteq t
        OBVIOUS
      <4>1. t \in SUBSET (1 .. n)
        BY <3>2
      <4>2. u \in SUBSET (1 .. n) /\ n + 1 \notin u /\ u \in SUBSET (1 .. n + 1)
        <5> HIDE DEF u
        <5> QED BY <4>1, <4>0, <3>2
      <4>3. h[u] = g[u]
        BY <4>2
      <4>4. g[t] = IF t = {} THEN base ELSE Op(c, g[t \ {Top(t)}], s[Top(t)])
        BY <2>1, <4>1 DEF Folds
      <4> QED BY <4>3, <4>4, <3>2
    <3> QED BY <3>1, <3>2
  <2>3. Folds(h, c, base, s, 1 .. n + 1)
    <3> HIDE DEF h
    <3>1. h = [t \in SUBSET (1 .. n + 1) |-> h[t]]
      BY DEF h
    <3>2. [t \in SUBSET (1 .. n + 1) |-> h[t]]
          = [t \in SUBSET (1 .. n + 1) |-> IF t = {} THEN base ELSE Op(c, h[t \ {Top(t)}], s[Top(t)])]
      BY <2>2
    <3> QED BY <3>1, <3>2 DEF Folds
  <2> QED BY <2>3 DEF Folded
<1>3. ASSUME T # {} PROVE FALSE
  <2>1. PICK m \in T : \A k \in T : m <= k
    BY <1>3, LeastNatural
  <2>2. m - 1 \in Nat /\ m - 1 + 1 = m
    BY <2>1, <1>1
  <2>3. Folded(c, base, s, m - 1)
    BY <2>1, <2>2
  <2>4. Folded(c, base, s, m - 1 + 1)
    BY <2>2, <2>3, <1>2
  <2> QED BY <2>2, <2>4
<1> QED BY <1>3

TheFold(c, base, s, D) == CHOOSE g : Folds(g, c, base, s, D)

LEMMA FoldIs ==
    ASSUME NEW c, NEW base, NEW s
    PROVE  Fold(c, base, s) = TheFold(c, base, s, DOMAIN s)[DOMAIN s]
BY DEF Fold, MapThenFoldSet, TheFold, Folds

\* The values a run over s goes through, from the base on.
IsRun(a, c, base, s, N) ==
    /\ a[0] = base
    /\ \A n \in 0 .. N - 1 : a[n + 1] = Op(c, a[n], s[n + 1])

RunOf(c, base, s, N) == CHOOSE a : IsRun(a, c, base, s, N) /\ Fold(c, base, s) = a[N]

\* A fold is the last value of its run.
THEOREM FoldRun ==
    ASSUME NEW c, NEW base, NEW s, NEW N \in Nat, DOMAIN s = 1 .. N
    PROVE  /\ IsRun(RunOf(c, base, s, N), c, base, s, N)
           /\ Fold(c, base, s) = RunOf(c, base, s, N)[N]
<1> DEFINE g == TheFold(c, base, s, DOMAIN s)
           a == [n \in 0 .. N |-> g[1 .. n]]
<1>1. Folds(g, c, base, s, 1 .. N)
  BY FoldsExist DEF Folded, TheFold
<1>2. a[0] = base
  <2>1. a[0] = g[{}]
    OBVIOUS
  <2> HIDE DEF g, a
  <2> QED BY <1>1, <2>1 DEF Folds
<1>3. ASSUME NEW n \in 0 .. N - 1
      PROVE  a[n + 1] = Op(c, a[n], s[n + 1])
  <2>0. a[n + 1] = g[1 .. n + 1] /\ a[n] = g[1 .. n]
    OBVIOUS
  <2> HIDE DEF g, a
  <2>1. n + 1 \in 1 .. n + 1 /\ 1 .. n + 1 \subseteq 1 .. N
    OBVIOUS
  <2>2. Top(1 .. n + 1) = n + 1
    BY MaxTop
  <2>3. (1 .. n + 1) \ {n + 1} = 1 .. n
    OBVIOUS
  <2>4. 1 .. n + 1 # {} /\ 1 .. n + 1 \in SUBSET (1 .. N)
    BY <2>1
  <2>5. g[1 .. n + 1] = Op(c, g[1 .. n], s[n + 1])
    BY <2>2, <2>3, <2>4, <1>1 DEF Folds
  <2> QED BY <2>0, <2>5
<1>4. Fold(c, base, s) = a[N]
  BY FoldIs
<1> HIDE DEF a
<1>5. \E x : IsRun(x, c, base, s, N) /\ Fold(c, base, s) = x[N]
  BY <1>2, <1>3, <1>4 DEF IsRun
<1> QED BY <1>5 DEF RunOf

\* What holds of the base and is kept by each element in turn holds of the fold.
THEOREM FoldInvariant ==
    ASSUME NEW c, NEW base, NEW s, NEW N \in Nat, DOMAIN s = 1 .. N,
           Inv(c, s, 0, base),
           \A n \in 0 .. N - 1 : \A x : Inv(c, s, n, x) => Inv(c, s, n + 1, Op(c, x, s[n + 1]))
    PROVE  Inv(c, s, N, Fold(c, base, s))
<1> DEFINE a == RunOf(c, base, s, N)
<1>1. IsRun(a, c, base, s, N) /\ Fold(c, base, s) = a[N]
  BY FoldRun
<1> HIDE DEF a
<1> DEFINE T == {n \in 0 .. N : ~Inv(c, s, n, a[n])}
<1>2. ASSUME T # {} PROVE FALSE
  <2>1. PICK m \in T : \A k \in T : m <= k
    <3>1. T \in SUBSET Nat
      OBVIOUS
    <3> HIDE DEF T
    <3> QED BY <1>2, <3>1, LeastNatural
  <2>2. m # 0
    BY <2>1, <1>1 DEF IsRun
  <2>3. m - 1 \in 0 .. N - 1 /\ m - 1 + 1 = m
    BY <2>2
  <2>4. Inv(c, s, m - 1, a[m - 1])
    BY <2>3, <2>1
  <2>5. Inv(c, s, m - 1 + 1, a[m - 1 + 1])
    BY <2>4, <2>3, <1>1 DEF IsRun
  <2> QED BY <2>5, <2>3
<1> QED BY <1>1, <1>2

\* A fold over one more element is one more step.
THEOREM FoldExtended ==
    ASSUME NEW c, NEW base, NEW s, NEW t, NEW N \in Nat, DOMAIN s = 1 .. N, DOMAIN t = 1 .. N + 1,
           \A i \in 1 .. N : t[i] = s[i]
    PROVE  Fold(c, base, t) = Op(c, Fold(c, base, s), t[N + 1])
<1> DEFINE a == RunOf(c, base, s, N)
           b == RunOf(c, base, t, N + 1)
<1>1. IsRun(a, c, base, s, N) /\ Fold(c, base, s) = a[N]
  BY FoldRun
<1>2. IsRun(b, c, base, t, N + 1) /\ Fold(c, base, t) = b[N + 1]
  BY FoldRun
<1> HIDE DEF a, b
<1> DEFINE T == {n \in 0 .. N : b[n] # a[n]}
<1>3. ASSUME T # {} PROVE FALSE
  <2>1. PICK m \in T : \A k \in T : m <= k
    <3>1. T \in SUBSET Nat
      OBVIOUS
    <3> HIDE DEF T
    <3> QED BY <1>3, <3>1, LeastNatural
  <2>2. m \in 0 .. N /\ b[m] # a[m]
    OBVIOUS
  <2>3. m # 0
    BY <2>2, <1>1, <1>2 DEF IsRun
  <2> DEFINE k == m - 1
  <2>4. k \in 0 .. N - 1 /\ k + 1 = m /\ k \in 0 .. (N + 1) - 1 /\ m \in 1 .. N
    BY <2>2, <2>3
  <2>5. b[k] = a[k]
    BY <2>1, <2>4
  <2> HIDE DEF k
  <2>6. a[m] = Op(c, a[k], s[m])
    BY <1>1, <2>4 DEF IsRun
  <2>7. b[m] = Op(c, b[k], t[m])
    BY <1>2, <2>4 DEF IsRun
  <2> QED BY <2>2, <2>4, <2>5, <2>6, <2>7
<1>4. b[N] = a[N]
  <2>1. N \notin T
    BY <1>3
  <2> QED BY <2>1
<1>5. b[N + 1] = Op(c, b[N], t[N + 1])
  BY <1>2 DEF IsRun
<1> QED BY <1>1, <1>2, <1>4, <1>5
=============================================================================
