----------------------------- MODULE ColumnLemmas -----------------------------
(* What the helpers of Columns compute, for arguments of any size.  The loops *)
(* are folds; each is taken through an instance of Loops with its body and    *)
(* its invariant.                                                             *)
EXTENDS Columns, ViewProofs

-----------------------------------------------------------------------------
(* Sums.                                                                      *)

AddOp(c, x, y) == x + y
NatSum(c, s, n, x) == x \in Nat

Sums == INSTANCE Loops WITH Op <- AddOp, Inv <- NatSum

\* A set of natural numbers has a least element: induction, by the least
\* counterexample.
LEMMA LeastNatural ==
    ASSUME NEW T \in SUBSET Nat, T # {}
    PROVE  \E m \in T : \A k \in T : m <= k
BY Sums!LeastNatural

\* Induction up to N, over a set of numbers.
LEMMA UpTo ==
    ASSUME NEW N \in Nat, NEW T, 0 \in T, \A n \in 0 .. N - 1 : n \in T => n + 1 \in T
    PROVE  \A n \in 0 .. N : n \in T
<1> DEFINE U == {n \in 0 .. N : n \notin T}
<1>1. ASSUME U # {} PROVE FALSE
  <2>1. PICK m \in U : \A k \in U : m <= k
    <3>1. U \in SUBSET Nat
      OBVIOUS
    <3> HIDE DEF U
    <3> QED BY <1>1, <3>1, LeastNatural
  <2>2. m \in 0 .. N /\ m \notin T /\ m # 0
    BY <2>1
  <2>3. m - 1 \in 0 .. N - 1 /\ (m - 1) + 1 = m /\ m - 1 \in T
    BY <2>1, <2>2
  <2> QED BY <2>2, <2>3
<1> QED BY <1>1

LEMMA SumSeqFold ==
    ASSUME NEW s
    PROVE  SumSeq(s) = Sums!Fold(0, 0, s)
BY DEF SumSeq, FoldLeft, MapThenFoldSet, Sums!Fold, Sums!MapThenFoldSet,
       Sums!Top, Max, AddOp

LEMMA SumNat ==
    ASSUME NEW N \in Nat, NEW s, DOMAIN s = 1 .. N, \A i \in 1 .. N : s[i] \in Nat
    PROVE  SumSeq(s) \in Nat
<1>1. NatSum(0, s, 0, 0)
  BY DEF NatSum
<1>2. ASSUME NEW n \in 0 .. N - 1, NEW x, NatSum(0, s, n, x)
      PROVE  NatSum(0, s, n + 1, AddOp(0, x, s[n + 1]))
  <2>1. s[n + 1] \in Nat
    OBVIOUS
  <2> QED BY <1>2, <2>1 DEF NatSum, AddOp
<1>3. NatSum(0, s, N, Sums!Fold(0, 0, s))
  BY <1>1, <1>2, Sums!FoldInvariant
<1> QED BY <1>3, SumSeqFold DEF NatSum

LEMMA SumLast ==
    ASSUME NEW N \in Nat, NEW s, NEW t, DOMAIN s = 1 .. N, DOMAIN t = 1 .. N + 1,
           \A i \in 1 .. N : t[i] = s[i]
    PROVE  SumSeq(t) = SumSeq(s) + t[N + 1]
<1>1. Sums!Fold(0, 0, t) = AddOp(0, Sums!Fold(0, 0, s), t[N + 1])
  BY Sums!FoldExtended
<1> QED BY <1>1, SumSeqFold DEF AddOp

-----------------------------------------------------------------------------
(* Powers of two.                                                             *)

LEMMA PowAdd ==
    ASSUME NEW a \in Nat, NEW b \in Nat
    PROVE  2^(a + b) = 2^a * 2^b
<1> DEFINE T == {k \in Nat : 2^(k + b) # 2^k * 2^b}
<1>0. \A k \in Nat : 2^k \in Nat
  BY PowNat
<1>1. ASSUME T # {} PROVE FALSE
  <2>1. PICK m \in T : \A k \in T : m <= k
    <3>1. T \in SUBSET Nat
      OBVIOUS
    <3> HIDE DEF T
    <3> QED BY <1>1, <3>1, LeastNatural
  <2>2. m # 0
    <3>1. 0 + b = b /\ 1 * 2^b = 2^b
      BY <1>0
    <3> QED BY <2>1, <3>1, PowZero
  <2>3. m - 1 \in Nat /\ m - 1 + 1 = m /\ m - 1 \notin T
    BY <2>1, <2>2
  <2>4. 2^(m - 1 + b) = 2^(m - 1) * 2^b
    BY <2>3
  <2>5. 2^m = 2 * 2^(m - 1)
    BY <2>3, PowStep
  <2>6. 2^(m + b) = 2 * 2^(m - 1 + b)
    <3>1. m - 1 + b \in Nat /\ m - 1 + b + 1 = m + b
      BY <2>3
    <3> QED BY <3>1, PowStep
  <2>7. \A x, y \in Nat : 2 * (x * y) = (2 * x) * y
    OBVIOUS
  <2>8. 2^(m + b) = 2^m * 2^b
    BY <2>3, <2>4, <2>5, <2>6, <2>7, <1>0
  <2> QED BY <2>1, <2>8
<1> QED BY <1>1

-----------------------------------------------------------------------------
(* Search.                                                                    *)

SearchOp(c, w, i) == halved(w, c.hits)

\* What is left to search is lo .. hi - 1, and shrinks with every round.
SearchInv(c, s, n, w) ==
    /\ w \in [lo: 1 .. c.n + 1, hi: 1 .. c.n + 1]
    /\ w.lo <= w.hi /\ w.hi - w.lo <= c.n - n
    /\ w.lo = 1 \/ w.lo - 1 \notin c.hits
    /\ w.hi = c.n + 1 \/ w.hi \in c.hits

Searches == INSTANCE Loops WITH Op <- SearchOp, Inv <- SearchInv

\* Bisection stops at an edge of hits.
LEMMA SearchEdge ==
    ASSUME NEW n \in Nat, NEW hits
    PROVE  /\ Search(n, hits) \in 1 .. n + 1
           /\ Search(n, hits) = 1 \/ Search(n, hits) - 1 \notin hits
           /\ Search(n, hits) = n + 1 \/ Search(n, hits) \in hits
<1> DEFINE c == [hits |-> hits, n |-> n]
           base == [lo |-> 1, hi |-> n + 1]
           s == [i \in 1 .. n |-> i]
<1>1. Search(n, hits) = Searches!Fold(c, base, s).lo
  BY DEF Search, FoldLeft, MapThenFoldSet, Max, Searches!Fold, Searches!MapThenFoldSet, Searches!Top, SearchOp
<1>2. SearchInv(c, s, 0, base)
  BY DEF SearchInv
<1>3. ASSUME NEW k \in 0 .. n - 1, NEW w, SearchInv(c, s, k, w)
      PROVE  SearchInv(c, s, k + 1, SearchOp(c, w, s[k + 1]))
  <2>0. w \in [lo: 1 .. n + 1, hi: 1 .. n + 1]
    BY <1>3 DEF SearchInv
  <2>1. CASE w.lo >= w.hi
    BY <1>3, <2>1 DEF SearchInv, SearchOp, halved
  <2>2. CASE w.lo < w.hi
    <3> DEFINE mid == (w.lo + w.hi) \div 2
    <3>1. mid \in Int /\ w.lo <= mid /\ mid < w.hi
      BY <2>0, <2>2
    <3> HIDE DEF mid
    <3>2. CASE mid \in hits
      <4>1. SearchOp(c, w, s[k + 1]) = [w EXCEPT !.hi = mid]
        BY <2>2, <3>2, <2>0 DEF SearchOp, halved, mid
      <4>2. [w EXCEPT !.hi = mid] = [lo |-> w.lo, hi |-> mid]
        BY <2>0
      <4>3. w.lo \in 1 .. n + 1 /\ mid \in 1 .. n + 1
        BY <2>0, <3>1
      <4>4. w.lo = 1 \/ w.lo - 1 \notin hits
        BY <1>3 DEF SearchInv
      <4> DEFINE x == [lo |-> w.lo, hi |-> mid]
      <4>5. x \in [lo: 1 .. n + 1, hi: 1 .. n + 1] /\ x.lo = w.lo /\ x.hi = mid
        BY <4>3
      <4> HIDE DEF x
      <4>6. x.lo <= x.hi /\ (x.lo = 1 \/ x.lo - 1 \notin hits) /\ (x.hi = n + 1 \/ x.hi \in hits)
        BY <2>0, <3>1, <4>3, <4>4, <4>5, <3>2
      <4>7. x.hi - x.lo <= n - (k + 1)
        <5>1. w.hi - w.lo <= n - k
          BY <1>3 DEF SearchInv
        <5> QED BY <2>0, <3>1, <4>3, <4>5, <5>1
      <4>8. SearchInv(c, s, k + 1, x)
        BY <4>5, <4>6, <4>7 DEF SearchInv
      <4> QED BY <4>1, <4>2, <4>8 DEF x
    <3>3. CASE mid \notin hits
      <4>1. SearchOp(c, w, s[k + 1]) = [w EXCEPT !.lo = mid + 1]
        BY <2>2, <3>3, <2>0 DEF SearchOp, halved, mid
      <4>2. [w EXCEPT !.lo = mid + 1] = [lo |-> mid + 1, hi |-> w.hi]
        BY <2>0
      <4>3. mid + 1 \in 1 .. n + 1 /\ w.hi \in 1 .. n + 1 /\ (mid + 1) - 1 = mid
        BY <2>0, <3>1
      <4>4. w.hi = n + 1 \/ w.hi \in hits
        BY <1>3 DEF SearchInv
      <4> DEFINE x == [lo |-> mid + 1, hi |-> w.hi]
      <4>5. x \in [lo: 1 .. n + 1, hi: 1 .. n + 1] /\ x.lo = mid + 1 /\ x.hi = w.hi
        BY <4>3
      <4> HIDE DEF x
      <4>6. x.lo <= x.hi /\ (x.lo = 1 \/ x.lo - 1 \notin hits) /\ (x.hi = n + 1 \/ x.hi \in hits)
        BY <2>0, <3>1, <4>3, <4>4, <4>5, <3>3
      <4>7. x.hi - x.lo <= n - (k + 1)
        <5>1. w.hi - w.lo <= n - k
          BY <1>3 DEF SearchInv
        <5> QED BY <2>0, <3>1, <4>3, <4>5, <5>1
      <4>8. SearchInv(c, s, k + 1, x)
        BY <4>5, <4>6, <4>7 DEF SearchInv
      <4> QED BY <4>1, <4>2, <4>8 DEF x
    <3> QED BY <3>2, <3>3
  <2> QED BY <2>0, <2>1, <2>2
<1>4. SearchInv(c, s, n, Searches!Fold(c, base, s))
  <2>1. DOMAIN s = 1 .. n
    OBVIOUS
  <2> HIDE DEF c, s, base
  <2> QED BY <2>1, <1>2, <1>3, Searches!FoldInvariant
<1> HIDE DEF s, base
<1> QED BY <1>1, <1>4 DEF SearchInv

\* With hits that are all the places from some place on, it finds the first.
LEMMA SearchFirst ==
    ASSUME NEW n \in Nat, NEW hits,
           \A i, j \in 1 .. n : i <= j /\ i \in hits => j \in hits
    PROVE  /\ Search(n, hits) \in 1 .. n + 1
           /\ \A i \in 1 .. n : i \in hits <=> i >= Search(n, hits)
BY SearchEdge

-----------------------------------------------------------------------------
(* Pick.                                                                      *)

PickOp(c, t, i) == IF i \in c.S THEN Append(t, c.s[i]) ELSE t

\* The elements of t are those of s at the places of S, up to n, each once and
\* in order; at says which is from where.
Picked(at, s, S, n, t) ==
    /\ at \in [DOMAIN t -> S \cap (1 .. n)]
    /\ \A i \in DOMAIN t : t[i] = s[at[i]]
    /\ \A i, j \in DOMAIN t : i < j => at[i] < at[j]
    /\ \A k \in S \cap (1 .. n) : \E i \in DOMAIN t : at[i] = k

PickInv(c, s, n, t) ==
    /\ t \in Seq(Range(c.s))
    /\ \E at : Picked(at, c.s, c.S, n, t)

Picks == INSTANCE Loops WITH Op <- PickOp, Inv <- PickInv

LEMMA PickOrder ==
    ASSUME NEW n \in Nat, NEW s, DOMAIN s = 1 .. n, NEW S
    PROVE  /\ Pick(s, S) \in Seq(Range(s))
           /\ \E at : Picked(at, s, S, n, Pick(s, S))
<1> DEFINE c == [s |-> s, S |-> S]
           q == [i \in DOMAIN s |-> i]
<1>1. Pick(s, S) = Picks!Fold(c, <<>>, q)
  BY DEF Pick, FoldLeft, MapThenFoldSet, Max, Picks!Fold, Picks!MapThenFoldSet, Picks!Top, PickOp
<1>2. PickInv(c, q, 0, <<>>)
  <2>1. Picked(<<>>, s, S, 0, <<>>)
    BY DEF Picked
  <2>2. <<>> \in Seq(Range(s))
    OBVIOUS
  <2> QED BY <2>1, <2>2 DEF PickInv
<1>3. ASSUME NEW k \in 0 .. n - 1, NEW t, PickInv(c, q, k, t)
      PROVE  PickInv(c, q, k + 1, PickOp(c, t, q[k + 1]))
  <2>0. PICK at : Picked(at, s, S, k, t)
    BY <1>3 DEF PickInv
  <2>1. /\ at \in [DOMAIN t -> S \cap (1 .. k)]
        /\ \A i \in DOMAIN t : t[i] = s[at[i]]
        /\ \A i, j \in DOMAIN t : i < j => at[i] < at[j]
        /\ \A x \in S \cap (1 .. k) : \E i \in DOMAIN t : at[i] = x
    BY <2>0 DEF Picked
  <2>2. t \in Seq(Range(s))
    BY <1>3 DEF PickInv
  <2>3. q[k + 1] = k + 1 /\ k + 1 \in DOMAIN s
    OBVIOUS
  <2>4. CASE k + 1 \in S
    <3> DEFINE u == Append(t, s[k + 1])
               up == [i \in DOMAIN u |-> IF i \in DOMAIN t THEN at[i] ELSE k + 1]
    <3>1. PickOp(c, t, q[k + 1]) = u
      BY <2>3, <2>4 DEF PickOp
    <3>2. u \in Seq(Range(s))
      BY <2>2, <2>3 DEF Range
    <3>3. DOMAIN t = 1 .. Len(t) /\ DOMAIN u = 1 .. Len(t) + 1 /\ Len(t) \in Nat
          /\ u[Len(t) + 1] = s[k + 1] /\ \A i \in DOMAIN t : u[i] = t[i]
      BY <2>2
    <3> HIDE DEF u
    <3>4. up \in [DOMAIN u -> S \cap (1 .. k + 1)]
      BY <2>4, <2>1
    <3>5. \A i \in DOMAIN u : u[i] = s[up[i]]
      BY <2>1, <3>3
    <3>6. \A i, j \in DOMAIN u : i < j => up[i] < up[j]
      BY <2>1, <3>3
    <3>7. ASSUME NEW x \in S \cap (1 .. k + 1)
          PROVE  \E i \in DOMAIN u : up[i] = x
      <4>1. CASE x = k + 1
        <5>1. Len(t) + 1 \in DOMAIN u /\ up[Len(t) + 1] = k + 1
          BY <3>3
        <5> QED BY <5>1, <4>1
      <4>2. CASE x # k + 1
        <5>1. x \in S \cap (1 .. k)
          BY <4>2
        <5>2. PICK i \in DOMAIN t : at[i] = x
          BY <5>1, <2>1
        <5>3. i \in DOMAIN u /\ up[i] = x
          BY <5>2, <3>3
        <5> QED BY <5>3
      <4> QED BY <4>1, <4>2
    <3> HIDE DEF up
    <3>8. Picked(up, s, S, k + 1, u)
      BY <3>4, <3>5, <3>6, <3>7 DEF Picked
    <3> QED BY <3>1, <3>2, <3>8 DEF PickInv
  <2>5. CASE k + 1 \notin S
    <3>1. PickOp(c, t, q[k + 1]) = t
      BY <2>3, <2>5 DEF PickOp
    <3>2. S \cap (1 .. k + 1) = S \cap (1 .. k)
      BY <2>5
    <3>3. Picked(at, s, S, k + 1, t)
      BY <3>2, <2>1 DEF Picked
    <3> QED BY <3>1, <3>3, <2>2 DEF PickInv
  <2> QED BY <2>4, <2>5
<1>4. PickInv(c, q, n, Picks!Fold(c, <<>>, q))
  <2>1. DOMAIN q = 1 .. n
    OBVIOUS
  <2> HIDE DEF c, q
  <2> QED BY <2>1, <1>2, <1>3, Picks!FoldInvariant
<1> HIDE DEF q
<1> QED BY <1>1, <1>4 DEF PickInv

-----------------------------------------------------------------------------
(* Sortings.                                                                  *)

SortOp(c, ps, k) == UNION {{Append(p, x) : x \in nexts(c.n, c.before, p)} : p \in ps}

\* p has k of 1 .. n, none of them after one that it or the rest has.
Ordered(p, n, before, k) ==
    /\ p \in Seq(1 .. n) /\ Len(p) = k
    /\ \A i, j \in 1 .. k : i < j => p[i] # p[j] /\ <<p[j], p[i]>> \notin before
    /\ \A x \in (1 .. n) \ Range(p) : \A i \in 1 .. k : <<x, p[i]>> \notin before

SortInv(c, s, k, ps) == \A p \in ps : Ordered(p, c.n, c.before, k)

Sorts == INSTANCE Loops WITH Op <- SortOp, Inv <- SortInv

LEMMA SortingsOrdered ==
    ASSUME NEW n \in Nat, NEW before, NEW p \in Sortings(n, before)
    PROVE  Ordered(p, n, before, n)
<1> DEFINE c == [n |-> n, before |-> before]
           s == [k \in 1 .. n |-> k]
<1>1. Sortings(n, before) = Sorts!Fold(c, {<<>>}, s)
  BY DEF Sortings, FoldLeft, MapThenFoldSet, Max, Sorts!Fold, Sorts!MapThenFoldSet, Sorts!Top, SortOp
<1>2. SortInv(c, s, 0, {<<>>})
  BY DEF SortInv, Ordered
<1>3. ASSUME NEW k \in 0 .. n - 1, NEW ps, SortInv(c, s, k, ps)
      PROVE  SortInv(c, s, k + 1, SortOp(c, ps, s[k + 1]))
  <2>0. SUFFICES ASSUME NEW r \in SortOp(c, ps, s[k + 1])
                 PROVE  Ordered(r, n, before, k + 1)
    BY DEF SortInv
  <2>a. PICK q \in ps : \E x \in nexts(n, before, q) : r = Append(q, x)
    BY DEF SortOp
  <2>1. PICK x \in nexts(n, before, q) : r = Append(q, x)
    BY <2>a
  <2>2. Ordered(q, n, before, k)
    BY <1>3 DEF SortInv
  <2>3. x \in (1 .. n) \ Range(q) /\ \A y \in (1 .. n) \ Range(q) : <<y, x>> \notin before
    BY DEF nexts
  <2> DEFINE u == Append(q, x)
  <2>4. /\ u \in Seq(1 .. n) /\ Len(u) = k + 1 /\ u[k + 1] = x
        /\ \A i \in 1 .. k : u[i] = q[i] /\ i \in DOMAIN q
    BY <2>2, <2>3 DEF Ordered
  <2>5. Range(u) = Range(q) \cup {x}
    <3>1. DOMAIN u = 1 .. k + 1 /\ DOMAIN q = 1 .. k
      BY <2>2, <2>3 DEF Ordered
    <3> HIDE DEF u
    <3> QED BY <3>1, <2>4 DEF Range
  <2> HIDE DEF u
  <2>6. ASSUME NEW i \in 1 .. k + 1, NEW j \in 1 .. k + 1, i < j
        PROVE  u[i] # u[j] /\ <<u[j], u[i]>> \notin before
    <3>1. CASE j = k + 1
      <4>1. q[i] \in Range(q) /\ i \in 1 .. k
        BY <2>4, <2>6, <3>1 DEF Range
      <4> QED BY <4>1, <2>2, <2>3, <2>4, <3>1 DEF Ordered
    <3>2. CASE j # k + 1
      BY <2>2, <2>4, <2>6, <3>2 DEF Ordered
    <3> QED BY <3>1, <3>2
  <2>7. ASSUME NEW y \in (1 .. n) \ Range(u), NEW i \in 1 .. k + 1
        PROVE  <<y, u[i]>> \notin before
    BY <2>2, <2>3, <2>4, <2>5 DEF Ordered
  <2>8. Ordered(u, n, before, k + 1)
    BY <2>4, <2>6, <2>7 DEF Ordered
  <2> QED BY <2>1, <2>8 DEF u
<1>4. SortInv(c, s, n, Sorts!Fold(c, {<<>>}, s))
  <2>1. DOMAIN s = 1 .. n
    OBVIOUS
  <2> HIDE DEF c, s
  <2> QED BY <2>1, <1>2, <1>3, Sorts!FoldInvariant
<1> HIDE DEF s
<1> QED BY <1>1, <1>4 DEF SortInv

\* A sorting is a permutation.
LEMMA SortingsCover ==
    ASSUME NEW n \in Nat, NEW before, NEW p \in Sortings(n, before)
    PROVE  Range(p) = 1 .. n
<1>1. /\ p \in Seq(1 .. n) /\ Len(p) = n
      /\ \A i, j \in 1 .. n : i < j => p[i] # p[j]
  BY SortingsOrdered DEF Ordered
<1>2. p \in Bijection(1 .. n, Range(p))
  <2>1. DOMAIN p = 1 .. n /\ p = [i \in 1 .. n |-> p[i]]
    BY <1>1
  <2>2. p \in [1 .. n -> Range(p)]
    BY <2>1 DEF Range
  <2>3. \A i, j \in 1 .. n : p[i] = p[j] => i = j
    BY <1>1
  <2>4. \A x \in Range(p) : \E i \in 1 .. n : p[i] = x
    BY <2>1 DEF Range
  <2> QED BY <2>2, <2>3, <2>4 DEF Bijection, Injection, Surjection, IsInjective
<1>3. IsFiniteSet(1 .. n) /\ Cardinality(1 .. n) = n
  BY FS_Interval
<1>4. Cardinality(Range(p)) = n
  <2>1. ExistsBijection(1 .. n, Range(p))
    BY <1>2 DEF ExistsBijection
  <2> QED BY <2>1, <1>3, FS_Bijection
<1>5. Range(p) \subseteq 1 .. n
  BY <1>1 DEF Range
<1> QED BY <1>3, <1>4, <1>5, FS_Subset

-----------------------------------------------------------------------------
(* The zip of two sequences of entries.                                       *)

ZipOp(c, z, k) == zipped(c.b, c.d, z)

KeysAscend(s) == \A i, j \in DOMAIN s : i <= j => s[i].key <= s[j].key
IdsDiffer(s) == \A i, j \in DOMAIN s : i # j => s[i].row.ids # s[j].row.ids

\* What two sequences of entries of X must be for their zip.
Zippable(b, d, X) ==
    /\ b \in Seq(X) /\ d \in Seq(X) /\ \A e \in X : e.key \in Int
    /\ KeysAscend(b) /\ KeysAscend(d) /\ IdsDiffer(b) /\ IdsDiffer(d)
    /\ \A i \in DOMAIN b, j \in DOMAIN d : b[i].row.ids # d[j].row.ids

\* out has the first i - 1 of b and the first j - 1 of d and nothing else.
OutFrom(b, d, i, j, out) ==
    /\ \A x \in DOMAIN out : \/ \E r \in 1 .. i - 1 : out[x] = b[r]
                             \/ \E r \in 1 .. j - 1 : out[x] = d[r]
    /\ \A r \in 1 .. i - 1 : \E x \in DOMAIN out : out[x] = b[r]
    /\ \A r \in 1 .. j - 1 : \E x \in DOMAIN out : out[x] = d[r]

\* Nothing in out belongs after what is left of s, from place i on.
OutBefore(s, i, out) == i <= Len(s) => \A x \in DOMAIN out : out[x].key <= s[i].key

ZipState(b, d, X, i, j, out) ==
    /\ i \in 1 .. Len(b) + 1 /\ j \in 1 .. Len(d) + 1
    /\ out \in Seq(X) /\ Len(out) = i + j - 2
    /\ OutFrom(b, d, i, j, out)
    /\ KeysAscend(out) /\ OutBefore(b, i, out) /\ OutBefore(d, j, out) /\ IdsDiffer(out)

ZipInv(c, s, k, z) == z.i + z.j = k + 2 /\ ZipState(c.b, c.d, c.X, z.i, z.j, z.out)

Zips == INSTANCE Loops WITH Op <- ZipOp, Inv <- ZipInv

\* Appending to out the next entry of b, when it is not after that of d.
LEMMA ZipTake ==
    ASSUME NEW X, NEW b, NEW d, Zippable(b, d, X), NEW i, NEW j, NEW out,
           ZipState(b, d, X, i, j, out), i <= Len(b), j <= Len(d) => b[i].key <= d[j].key
    PROVE  ZipState(b, d, X, i + 1, j, Append(out, b[i]))
<1>0. /\ i \in 1 .. Len(b) /\ j \in 1 .. Len(d) + 1 /\ out \in Seq(X) /\ Len(out) = i + j - 2
      /\ OutFrom(b, d, i, j, out)
      /\ KeysAscend(out) /\ OutBefore(b, i, out) /\ OutBefore(d, j, out) /\ IdsDiffer(out)
      /\ Len(b) \in Nat /\ Len(d) \in Nat
  <2>1. Len(b) \in Nat /\ Len(d) \in Nat
    BY DEF Zippable
  <2> QED BY <2>1 DEF ZipState
<1> DEFINE u == Append(out, b[i])
           n == Len(out)
<1>1. /\ b \in Seq(X) /\ d \in Seq(X) /\ \A e \in X : e.key \in Int
      /\ i \in DOMAIN b /\ b[i] \in X
  BY <1>0 DEF Zippable
<1>2. /\ u \in Seq(X) /\ Len(u) = n + 1 /\ n \in Nat /\ u[n + 1] = b[i] /\ DOMAIN u = 1 .. n + 1
      /\ DOMAIN out = 1 .. n /\ \A x \in 1 .. n : u[x] = out[x] /\ out[x] \in X
  BY <1>0, <1>1
<1> HIDE DEF u, n
<1>3. OutFrom(b, d, i + 1, j, u)
  <2>1. ASSUME NEW x \in DOMAIN u
        PROVE  \/ \E r \in 1 .. i : u[x] = b[r]
               \/ \E r \in 1 .. j - 1 : u[x] = d[r]
    <3>1. CASE x = n + 1
      BY <3>1, <1>0, <1>2
    <3>2. CASE x # n + 1
      <4>1. x \in DOMAIN out /\ u[x] = out[x]
        BY <3>2, <1>2
      <4>2. CASE \E r \in 1 .. i - 1 : out[x] = b[r]
        <5>1. PICK r \in 1 .. i - 1 : out[x] = b[r]
          BY <4>2
        <5>2. r \in 1 .. i
          BY <1>0
        <5> QED BY <5>1, <5>2, <4>1
      <4>3. CASE \E r \in 1 .. j - 1 : out[x] = d[r]
        BY <4>1, <4>3
      <4> QED BY <1>0, <4>1, <4>2, <4>3 DEF OutFrom
    <3> QED BY <3>1, <3>2
  <2>2. ASSUME NEW r \in 1 .. i
        PROVE  \E x \in DOMAIN u : u[x] = b[r]
    <3>1. CASE r = i
      BY <3>1, <1>2
    <3>2. CASE r # i
      <4>1. r \in 1 .. i - 1
        BY <1>0, <3>2
      <4>2. PICK x \in DOMAIN out : out[x] = b[r]
        BY <1>0, <4>1 DEF OutFrom
      <4>3. x \in DOMAIN u /\ u[x] = b[r]
        BY <4>2, <1>2
      <4> QED BY <4>3
    <3> QED BY <3>1, <3>2
  <2>3. ASSUME NEW r \in 1 .. j - 1
        PROVE  \E x \in DOMAIN u : u[x] = d[r]
    <3>1. PICK x \in DOMAIN out : out[x] = d[r]
      BY <1>0 DEF OutFrom
    <3>2. x \in DOMAIN u /\ u[x] = d[r]
      BY <3>1, <1>2
    <3> QED BY <3>2
  <2>4. 1 .. (i + 1) - 1 = 1 .. i
    BY <1>0
  <2> QED BY <2>1, <2>2, <2>3, <2>4 DEF OutFrom
<1>5. ASSUME NEW x \in DOMAIN u
      PROVE  u[x].key <= b[i].key /\ u[x].key \in Int
  <2>1. CASE x = n + 1
    BY <2>1, <1>1, <1>2
  <2>2. CASE x # n + 1
    <3>1. x \in DOMAIN out /\ u[x] = out[x] /\ i <= Len(b)
      BY <2>2, <1>0, <1>2
    <3> QED BY <3>1, <1>0, <1>1, <1>2 DEF OutBefore
  <2> QED BY <2>1, <2>2
<1>6. KeysAscend(u)
  <2>1. SUFFICES ASSUME NEW x \in DOMAIN u, NEW y \in DOMAIN u, x <= y
                 PROVE  u[x].key <= u[y].key
    BY DEF KeysAscend
  <2>2. CASE y = n + 1
    BY <2>2, <1>2, <1>5
  <2>3. CASE y # n + 1
    <3>1. x \in DOMAIN out /\ y \in DOMAIN out /\ u[x] = out[x] /\ u[y] = out[y]
      BY <2>1, <2>3, <1>2
    <3> QED BY <3>1, <2>1, <1>0 DEF KeysAscend
  <2> QED BY <2>2, <2>3
<1>7. OutBefore(b, i + 1, u)
  <2>1. SUFFICES ASSUME i + 1 <= Len(b), NEW x \in DOMAIN u
                 PROVE  u[x].key <= b[i + 1].key
    BY DEF OutBefore
  <2>2. i + 1 \in DOMAIN b /\ b[i + 1] \in X /\ i <= i + 1
    BY <1>0, <1>1, <2>1
  <2>3. b[i].key <= b[i + 1].key
    BY <1>0, <1>1, <2>2 DEF Zippable, KeysAscend
  <2> QED BY <2>2, <2>3, <1>1, <1>5
<1>8. OutBefore(d, j, u)
  <2>1. SUFFICES ASSUME j <= Len(d), NEW x \in DOMAIN u
                 PROVE  u[x].key <= d[j].key
    BY DEF OutBefore
  <2>2. d[j] \in X /\ b[i].key <= d[j].key
    BY <1>0, <1>1, <2>1
  <2> QED BY <2>2, <1>1, <1>5
<1>9. IdsDiffer(u)
  <2>1. ASSUME NEW x \in DOMAIN out
        PROVE  u[x].row.ids # b[i].row.ids
    <3>1. u[x] = out[x]
      BY <1>2
    <3>2. CASE \E r \in 1 .. i - 1 : out[x] = b[r]
      <4>1. PICK r \in 1 .. i - 1 : out[x] = b[r]
        BY <3>2
      <4>2. r \in DOMAIN b /\ r # i
        BY <1>0, <1>1
      <4> QED BY <4>1, <4>2, <3>1, <1>1 DEF Zippable, IdsDiffer
    <3>3. CASE \E r \in 1 .. j - 1 : out[x] = d[r]
      <4>1. PICK r \in 1 .. j - 1 : out[x] = d[r]
        BY <3>3
      <4>2. r \in DOMAIN d
        BY <1>0, <1>1
      <4> QED BY <4>1, <4>2, <3>1, <1>1 DEF Zippable
    <3> QED BY <1>0, <3>2, <3>3 DEF OutFrom
  <2>2. SUFFICES ASSUME NEW x \in DOMAIN u, NEW y \in DOMAIN u, x # y
                 PROVE  u[x].row.ids # u[y].row.ids
    BY DEF IdsDiffer
  <2>3. CASE x \in DOMAIN out /\ y \in DOMAIN out
    BY <2>2, <2>3, <1>0, <1>2 DEF IdsDiffer
  <2>4. CASE x = n + 1
    <3>1. y \in DOMAIN out /\ u[x] = b[i]
      BY <2>2, <2>4, <1>2
    <3> QED BY <3>1, <2>1
  <2>5. CASE y = n + 1
    <3>1. x \in DOMAIN out /\ u[y] = b[i]
      BY <2>2, <2>5, <1>2
    <3> QED BY <3>1, <2>1
  <2> QED BY <2>3, <2>4, <2>5, <1>2
<1> QED BY <1>0, <1>2, <1>3, <1>6, <1>7, <1>8, <1>9 DEF ZipState, u, n

LEMMA ZipSwap ==
    ASSUME NEW X, NEW b, NEW d, NEW i, NEW j, NEW out, Zippable(b, d, X), ZipState(b, d, X, i, j, out)
    PROVE  Zippable(d, b, X) /\ ZipState(d, b, X, j, i, out)
<1>1. Zippable(d, b, X)
  BY DEF Zippable
<1>2. OutFrom(d, b, j, i, out)
  BY DEF ZipState, OutFrom
<1>3. i + j = j + i
  BY DEF ZipState, Zippable
<1> QED BY <1>1, <1>2, <1>3 DEF ZipState

\* A zip has the entries of both, keys ascending, and no ids twice.
LEMMA ZipMerges ==
    ASSUME NEW X, NEW b, NEW d, Zippable(b, d, X)
    PROVE  /\ Zip2(b, d) \in Seq(X)
           /\ OutFrom(b, d, Len(b) + 1, Len(d) + 1, Zip2(b, d))
           /\ KeysAscend(Zip2(b, d)) /\ IdsDiffer(Zip2(b, d))
<1> DEFINE c == [b |-> b, d |-> d, X |-> X]
           N == Len(b) + Len(d)
           base == [i |-> 1, j |-> 1, out |-> <<>>]
           s == [k \in 1 .. N |-> k]
<1>0. b \in Seq(X) /\ d \in Seq(X) /\ Len(b) \in Nat /\ Len(d) \in Nat /\ N \in Nat
  BY DEF Zippable
<1>1. Zip2(b, d) = Zips!Fold(c, base, s).out
  BY DEF Zip2, FoldLeft, MapThenFoldSet, Max, Zips!Fold, Zips!MapThenFoldSet,
         Zips!Top, ZipOp
<1>2. ZipInv(c, s, 0, base)
  <2>1. ZipState(b, d, X, 1, 1, <<>>)
    BY <1>0 DEF ZipState, OutFrom, OutBefore, KeysAscend, IdsDiffer
  <2> QED BY <2>1 DEF ZipInv
<1>3. ASSUME NEW k \in 0 .. N - 1, NEW z, ZipInv(c, s, k, z)
      PROVE  ZipInv(c, s, k + 1, ZipOp(c, z, s[k + 1]))
  <2>1. z.i + z.j = k + 2 /\ ZipState(b, d, X, z.i, z.j, z.out)
    BY <1>3 DEF ZipInv
  <2>2. z.i \in 1 .. Len(b) + 1 /\ z.j \in 1 .. Len(d) + 1
    BY <2>1 DEF ZipState
  <2>3. ZipOp(c, z, s[k + 1]) = zipped(b, d, z)
    BY DEF ZipOp
  <2>4. CASE z.j > Len(d) \/ (z.i <= Len(b) /\ b[z.i].key <= d[z.j].key)
    <3> DEFINE y == [i |-> z.i + 1, j |-> z.j, out |-> Append(z.out, b[z.i])]
    <3>1. zipped(b, d, z) = y
      BY <2>4 DEF zipped
    <3>2. z.i <= Len(b) /\ (z.j <= Len(d) => b[z.i].key <= d[z.j].key)
      BY <2>1, <2>2, <2>4, <1>0
    <3>3. ZipState(b, d, X, z.i + 1, z.j, Append(z.out, b[z.i]))
      BY <2>1, <3>2, ZipTake
    <3>4. y.i = z.i + 1 /\ y.j = z.j /\ c.b = b /\ c.d = d /\ c.X = X
      OBVIOUS
    <3>4a. ZipState(b, d, X, y.i, y.j, y.out)
      BY <3>3
    <3> HIDE DEF y, c
    <3>5. y.i + y.j = (k + 1) + 2
      BY <2>1, <2>2, <3>4
    <3> QED BY <3>1, <3>4, <3>4a, <3>5, <2>3 DEF ZipInv
  <2>5. CASE ~(z.j > Len(d) \/ (z.i <= Len(b) /\ b[z.i].key <= d[z.j].key))
    <3> DEFINE y == [i |-> z.i, j |-> z.j + 1, out |-> Append(z.out, d[z.j])]
    <3>1. zipped(b, d, z) = y
      BY <2>5 DEF zipped
    <3>2. z.j <= Len(d) /\ (z.i <= Len(b) => d[z.j].key <= b[z.i].key)
      <4>1. z.j \in 1 .. Len(d) /\ d[z.j] \in X /\ (z.i <= Len(b) => b[z.i] \in X)
        BY <2>2, <2>5, <1>0
      <4>2. z.i <= Len(b) => d[z.j].key \in Int /\ b[z.i].key \in Int
        BY <4>1 DEF Zippable
      <4> QED BY <4>1, <4>2, <2>5
    <3>3. Zippable(d, b, X) /\ ZipState(d, b, X, z.j, z.i, z.out)
      BY <2>1, ZipSwap
    <3>4. ZipState(d, b, X, z.j + 1, z.i, Append(z.out, d[z.j]))
      BY <3>2, <3>3, ZipTake
    <3>5. ZipState(b, d, X, z.i, z.j + 1, Append(z.out, d[z.j]))
      BY <3>3, <3>4, ZipSwap
    <3>6. y.i = z.i /\ y.j = z.j + 1 /\ c.b = b /\ c.d = d /\ c.X = X
      OBVIOUS
    <3>6a. ZipState(b, d, X, y.i, y.j, y.out)
      BY <3>5
    <3> HIDE DEF y, c
    <3> QED BY <3>1, <3>6, <3>6a, <2>1, <2>2, <2>3 DEF ZipInv
  <2> QED BY <2>4, <2>5
<1>4. ZipInv(c, s, N, Zips!Fold(c, base, s))
  <2>1. DOMAIN s = 1 .. N
    OBVIOUS
  <2> HIDE DEF c, s, base, N
  <2> QED BY <1>0, <2>1, <1>2, <1>3, Zips!FoldInvariant
<1> DEFINE z == Zips!Fold(c, base, s)
<1>5. /\ z.i \in 1 .. Len(b) + 1 /\ z.j \in 1 .. Len(d) + 1 /\ z.i + z.j = N + 2
      /\ z.out \in Seq(X) /\ OutFrom(b, d, z.i, z.j, z.out) /\ KeysAscend(z.out) /\ IdsDiffer(z.out)
  <2>1. z.i + z.j = N + 2 /\ ZipState(b, d, X, z.i, z.j, z.out)
    <3> HIDE DEF s, base, N, z
    <3> QED BY <1>4 DEF ZipInv, z
  <2> HIDE DEF z, N
  <2> QED BY <2>1 DEF ZipState
<1>6. z.i = Len(b) + 1 /\ z.j = Len(d) + 1
  <2> HIDE DEF z
  <2> QED BY <1>0, <1>5
<1> HIDE DEF c, s, base
<1> QED BY <1>1, <1>5, <1>6

-----------------------------------------------------------------------------
(* Dictionaries.                                                              *)

DictOK(dict) == dict \in Seq(Spellings) /\ IsInjective(dict)

LEMMA LookupIs ==
    ASSUME NEW dict, DictOK(dict), NEW s
    PROVE  /\ lookup(dict, s) \subseteq 0 .. Len(dict) - 1
           /\ \A id \in lookup(dict, s) : dict[id + 1] = s
           /\ \A i \in DOMAIN dict : dict[i] = s => lookup(dict, s) = {i - 1}
           /\ s \in Range(dict) <=> lookup(dict, s) # {}
<1>1. DOMAIN dict = 1 .. Len(dict) /\ Len(dict) \in Nat
  BY DEF DictOK
<1>2. \A i, j \in DOMAIN dict : dict[i] = dict[j] => i = j
  BY DEF DictOK, IsInjective
<1> QED BY <1>1, <1>2 DEF lookup, Range

LEMMA GetOrAddIs ==
    ASSUME NEW dict, DictOK(dict), NEW s \in Spellings
    PROVE  /\ DictOK(getOrAdd(dict, s))
           /\ Range(getOrAdd(dict, s)) = Range(dict) \cup {s}
           /\ Len(getOrAdd(dict, s)) >= Len(dict)
           /\ \A i \in DOMAIN dict : i \in DOMAIN getOrAdd(dict, s) /\ getOrAdd(dict, s)[i] = dict[i]
           /\ s \notin Range(dict) => getOrAdd(dict, s) = Append(dict, s)
<1>1. DOMAIN dict = 1 .. Len(dict) /\ Len(dict) \in Nat /\ dict \in Seq(Spellings)
  BY DEF DictOK
<1>2. \A i, j \in DOMAIN dict : dict[i] = dict[j] => i = j
  BY DEF DictOK, IsInjective
<1>3. CASE s \in Range(dict)
  <2>1. getOrAdd(dict, s) = dict
    BY <1>3, LookupIs DEF getOrAdd
  <2>2. Range(dict) = Range(dict) \cup {s} /\ Len(dict) >= Len(dict)
    BY <1>1, <1>3
  <2> QED BY <2>1, <2>2, <1>3
<1>4. CASE s \notin Range(dict)
  <2> DEFINE u == Append(dict, s)
  <2>1. getOrAdd(dict, s) = u
    BY <1>4, LookupIs DEF getOrAdd
  <2>2. /\ u \in Seq(Spellings) /\ Len(u) = Len(dict) + 1 /\ DOMAIN u = 1 .. Len(dict) + 1
        /\ u[Len(dict) + 1] = s /\ \A i \in DOMAIN dict : u[i] = dict[i]
    BY <1>1
  <2> HIDE DEF u
  <2>3. \A i \in DOMAIN dict : dict[i] # s
    BY <1>4 DEF Range
  <2>4. \A i, j \in DOMAIN u : u[i] = u[j] => i = j
    BY <1>1, <1>2, <2>2, <2>3
  <2>5. Range(u) = Range(dict) \cup {s}
    BY <1>1, <2>2 DEF Range
  <2> QED BY <1>1, <2>1, <2>2, <2>4, <2>5 DEF DictOK, IsInjective, u
<1> QED BY <1>3, <1>4

LEMMA ConcatIs ==
    ASSUME NEW S, NEW b \in Seq(S), NEW e \in Seq(S)
    PROVE  /\ b \o e \in Seq(S) /\ Len(b \o e) = Len(b) + Len(e) /\ Len(b) \in Nat /\ Len(e) \in Nat
           /\ DOMAIN b = 1 .. Len(b) /\ DOMAIN e = 1 .. Len(e) /\ DOMAIN (b \o e) = 1 .. Len(b) + Len(e)
           /\ \A i \in 1 .. Len(b) : (b \o e)[i] = b[i] /\ b[i] \in S
           /\ \A i \in 1 .. Len(e) : (b \o e)[Len(b) + i] = e[i] /\ e[i] \in S
OBVIOUS

\* The two dictionaries of a dimension of a view: one id per value.
DictPair(v, d) ==
    /\ v.base.dicts[d] \in Seq(Spellings) /\ v.extras[d] \in Seq(Spellings)
    /\ IsInjective(v.base.dicts[d] \o v.extras[d])

LEMMA DimStrings ==
    ASSUME NEW v, NEW d, DictPair(v, d)
    PROVE  /\ idSpace(v, d) \in Nat /\ Len(v.base.dicts[d]) \in 0 .. idSpace(v, d)
           /\ \A id \in 0 .. idSpace(v, d) - 1 :
                 /\ dimString(v, d, id) \in Spellings
                 /\ dimString(v, d, id) = (v.base.dicts[d] \o v.extras[d])[id + 1]
           /\ \A x, y \in 0 .. idSpace(v, d) - 1 : dimString(v, d, x) = dimString(v, d, y) => x = y
           /\ DictOK(v.base.dicts[d]) /\ DictOK(v.extras[d])
<1> DEFINE b == v.base.dicts[d]
           e == v.extras[d]
           u == b \o e
<1>1. b \in Seq(Spellings) /\ e \in Seq(Spellings) /\ \A i, j \in DOMAIN u : u[i] = u[j] => i = j
  BY DEF DictPair, IsInjective
<1>a. /\ \A id : dimString(v, d, id) = IF id < Len(b) THEN b[id + 1] ELSE e[id - Len(b) + 1]
      /\ idSpace(v, d) = Len(b) + Len(e)
  BY DEF dimString, idSpace
<1> HIDE DEF b, e
<1>2. /\ u \in Seq(Spellings) /\ DOMAIN u = 1 .. Len(b) + Len(e) /\ Len(b) \in Nat /\ Len(e) \in Nat
      /\ DOMAIN b = 1 .. Len(b) /\ DOMAIN e = 1 .. Len(e)
      /\ \A i \in 1 .. Len(b) : u[i] = b[i] /\ b[i] \in Spellings
      /\ \A i \in 1 .. Len(e) : u[Len(b) + i] = e[i] /\ e[i] \in Spellings
  BY <1>1, ConcatIs
<1> HIDE DEF u
<1>4. ASSUME NEW id \in 0 .. Len(b) + Len(e) - 1
      PROVE  dimString(v, d, id) = u[id + 1] /\ u[id + 1] \in Spellings /\ id + 1 \in DOMAIN u
  <2>1. CASE id < Len(b)
    <3>1. u[id + 1] = b[id + 1] /\ b[id + 1] \in Spellings
      BY <1>1, <1>2, <2>1
    <3> QED BY <2>1, <3>1, <1>2, <1>a
  <2>2. CASE ~(id < Len(b))
    <3>1. id - Len(b) + 1 \in 1 .. Len(e) /\ Len(b) + (id - Len(b) + 1) = id + 1
      BY <1>2, <2>2
    <3>2. u[id + 1] = e[id - Len(b) + 1] /\ e[id - Len(b) + 1] \in Spellings
      BY <1>1, <1>2, <3>1
    <3> QED BY <2>2, <3>1, <3>2, <1>2, <1>a
  <2> QED BY <2>1, <2>2
<1>5. ASSUME NEW i \in DOMAIN b, NEW j \in DOMAIN b, b[i] = b[j]
      PROVE  i = j
  <2>1. i \in DOMAIN u /\ j \in DOMAIN u /\ u[i] = b[i] /\ u[j] = b[j]
    BY <1>1, <1>2
  <2> QED BY <2>1, <1>1, <1>5
<1>6. ASSUME NEW i \in DOMAIN e, NEW j \in DOMAIN e, e[i] = e[j]
      PROVE  i = j
  <2>1. /\ Len(b) + i \in DOMAIN u /\ Len(b) + j \in DOMAIN u /\ i \in Nat /\ j \in Nat
        /\ u[Len(b) + i] = e[i] /\ u[Len(b) + j] = e[j]
    BY <1>1, <1>2
  <2>2. Len(b) + i = Len(b) + j
    <3> HIDE DEF u
    <3> QED BY <2>1, <1>1, <1>6
  <2> QED BY <2>1, <2>2, <1>2
<1>7. ASSUME NEW x \in 0 .. Len(b) + Len(e) - 1, NEW y \in 0 .. Len(b) + Len(e) - 1,
             dimString(v, d, x) = dimString(v, d, y)
      PROVE  x = y
  <2>1. u[x + 1] = u[y + 1] /\ x + 1 \in DOMAIN u /\ y + 1 \in DOMAIN u
    BY <1>4, <1>7
  <2>2. x + 1 = y + 1
    <3> HIDE DEF u
    <3> QED BY <2>1, <1>1
  <2> QED BY <2>2, <1>2
<1>8. DictOK(b) /\ DictOK(e)
  BY <1>1, <1>5, <1>6 DEF DictOK, IsInjective
<1>9. idSpace(v, d) \in Nat /\ Len(b) \in 0 .. idSpace(v, d)
  BY <1>2, <1>a
<1>10. /\ \A id \in 0 .. idSpace(v, d) - 1 : dimString(v, d, id) \in Spellings /\ dimString(v, d, id) = u[id + 1]
       /\ \A x, y \in 0 .. idSpace(v, d) - 1 : dimString(v, d, x) = dimString(v, d, y) => x = y
  <2> HIDE DEF u, b, e
  <2>1. \A id \in 0 .. idSpace(v, d) - 1 : dimString(v, d, id) \in Spellings /\ dimString(v, d, id) = u[id + 1]
    BY <1>a, <1>4
  <2>2. \A x, y \in 0 .. idSpace(v, d) - 1 : dimString(v, d, x) = dimString(v, d, y) => x = y
    BY <1>a, <1>7
  <2> QED BY <2>1, <2>2
<1> QED BY <1>8, <1>9, <1>10 DEF u, b, e

\* A value's id in a view is the id it stands for.
LEMMA LookupIDIs ==
    ASSUME NEW v, NEW d, DictPair(v, d), NEW s
    PROVE  lookupID(v, d, s) = {id \in 0 .. idSpace(v, d) - 1 : dimString(v, d, id) = s}
<1> DEFINE b == v.base.dicts[d]
           e == v.extras[d]
           N == idSpace(v, d)
<1>a. /\ \A id : dimString(v, d, id) = IF id < Len(b) THEN b[id + 1] ELSE e[id - Len(b) + 1]
      /\ N = Len(b) + Len(e)
      /\ lookupID(v, d, s) = IF lookup(b, s) # {} THEN lookup(b, s)
                             ELSE {Len(b) + id : id \in lookup(e, s)}
  BY DEF dimString, idSpace, lookupID
<1>b. DictOK(b) /\ DictOK(e)
  BY DimStrings
<1>1. /\ N = Len(b) + Len(e) /\ Len(b) \in Nat /\ Len(e) \in Nat
      /\ DOMAIN b = 1 .. Len(b) /\ DOMAIN e = 1 .. Len(e) 
  <2> HIDE DEF b, e, N
  <2> QED BY <1>a, <1>b DEF DictOK
<1>2. \A x, y \in 0 .. N - 1 : dimString(v, d, x) = dimString(v, d, y) => x = y
  BY DimStrings
<1> HIDE DEF b, e, N
<1>3. \A id \in lookup(b, s) : id \in 0 .. N - 1 /\ dimString(v, d, id) = s
  <2>1. \A id \in lookup(b, s) : id \in 0 .. Len(b) - 1 /\ b[id + 1] = s
    BY <1>1, <1>b, LookupIs
  <2> QED BY <2>1, <1>1, <1>a
<1>4. \A id \in lookup(e, s) : Len(b) + id \in 0 .. N - 1 /\ dimString(v, d, Len(b) + id) = s
  <2>1. ASSUME NEW id \in lookup(e, s)
        PROVE  Len(b) + id \in 0 .. N - 1 /\ dimString(v, d, Len(b) + id) = s
    <3>1. id \in 0 .. Len(e) - 1 /\ e[id + 1] = s
      BY <1>1, <1>b, LookupIs
    <3>2. ~(Len(b) + id < Len(b)) /\ Len(b) + id - Len(b) + 1 = id + 1
      BY <1>1, <3>1
    <3> QED BY <3>1, <3>2, <1>1, <1>a
  <2> QED BY <2>1
<1>5. ASSUME NEW x \in 0 .. N - 1, dimString(v, d, x) = s
      PROVE  x \in lookup(b, s) \/ \E id \in lookup(e, s) : x = Len(b) + id
  <2>1. CASE x < Len(b)
    <3>1. x + 1 \in DOMAIN b /\ b[x + 1] = s
      BY <1>1, <1>5, <2>1, <1>a
    <3>2. lookup(b, s) = {x + 1 - 1}
      BY <1>1, <1>b, <3>1, LookupIs
    <3> QED BY <3>2
  <2>2. CASE ~(x < Len(b))
    <3>1. x - Len(b) + 1 \in DOMAIN e /\ e[x - Len(b) + 1] = s
      BY <1>1, <1>5, <2>2, <1>a
    <3>2. lookup(e, s) = {x - Len(b) + 1 - 1}
      BY <1>1, <1>b, <3>1, LookupIs
    <3> QED BY <3>2, <1>1
  <2> QED BY <2>1, <2>2
<1>6. CASE lookup(b, s) # {}
  <2>1. PICK y \in lookup(b, s) : TRUE
    BY <1>6
  <2>2. \A x \in 0 .. N - 1 : dimString(v, d, x) = s => x = y
    BY <2>1, <1>2, <1>3
  <2> QED BY <1>3, <2>1, <2>2, <1>6, <1>a DEF N
<1>7. CASE lookup(b, s) = {}
  <2>1. lookupID(v, d, s) = {Len(b) + id : id \in lookup(e, s)}
    BY <1>a, <1>7
  <2>2. \A x \in lookupID(v, d, s) : x \in 0 .. N - 1 /\ dimString(v, d, x) = s
    BY <2>1, <1>4
  <2>3. \A x \in 0 .. N - 1 : dimString(v, d, x) = s => x \in lookupID(v, d, s)
    BY <2>1, <1>5, <1>7
  <2> QED BY <2>2, <2>3 DEF N
<1> QED BY <1>6, <1>7

ExtendOp(c, dict, s) == getOrAdd(dict, s)

\* dict has the values of the first k ids of the view.
ExtendState(v, d, k, dict) ==
    /\ DictOK(dict) /\ Len(dict) = k
    /\ \A id \in 0 .. k - 1 : dict[id + 1] = dimString(v, d, id)

ExtendInv(c, s, n, dict) == ExtendState(c.v, c.d, c.k + n, dict)

Extends == INSTANCE Loops WITH Op <- ExtendOp, Inv <- ExtendInv

\* Folding the extras into the base dictionary keeps every id.
LEMMA ExtendedIs ==
    ASSUME NEW v, NEW d, DictPair(v, d)
    PROVE  ExtendState(v, d, idSpace(v, d), Extended(v, d))
<1> DEFINE b == v.base.dicts[d]
           c == [v |-> v, d |-> d, k |-> Len(b)]
           e == v.extras[d]
<1>1. Extended(v, d) = Extends!Fold(c, b, e)
  BY DEF Extended, FoldLeft, MapThenFoldSet, Max, Extends!Fold, Extends!MapThenFoldSet, Extends!Top, ExtendOp
<1>2. /\ DictOK(b) /\ DictOK(e) /\ idSpace(v, d) = Len(b) + Len(e)
      /\ \A id : dimString(v, d, id) = IF id < Len(b) THEN b[id + 1] ELSE e[id - Len(b) + 1]
  BY DimStrings DEF idSpace, dimString
<1>4. \A x, y \in 0 .. idSpace(v, d) - 1 : dimString(v, d, x) = dimString(v, d, y) => x = y
  BY DimStrings
<1>a. c.v = v /\ c.d = d /\ c.k = Len(b)
  OBVIOUS
<1> HIDE DEF b, e, c
<1>5. /\ Len(b) \in Nat /\ Len(e) \in Nat /\ DOMAIN b = 1 .. Len(b) /\ DOMAIN e = 1 .. Len(e)
      /\ b \in Seq(Spellings) /\ \A i \in 1 .. Len(e) : e[i] \in Spellings
  BY <1>2 DEF DictOK
<1>6. ExtendInv(c, e, 0, b)
  BY <1>2, <1>5, <1>a DEF ExtendInv, ExtendState
<1>7. ASSUME NEW n \in 0 .. Len(e) - 1, NEW x, ExtendInv(c, e, n, x)
      PROVE  ExtendInv(c, e, n + 1, ExtendOp(c, x, e[n + 1]))
  <2> DEFINE k == Len(b) + n
             s == e[n + 1]
  <2>1. DictOK(x) /\ Len(x) = k /\ \A id \in 0 .. k - 1 : x[id + 1] = dimString(v, d, id)
    BY <1>7, <1>a DEF ExtendInv, ExtendState
  <2>2. k \in Nat /\ s \in Spellings /\ s = dimString(v, d, k) /\ k \in 0 .. idSpace(v, d) - 1
    BY <1>5, <1>2
  <2>3. x \in Seq(Spellings) /\ DOMAIN x = 1 .. k
    BY <2>1 DEF DictOK
  <2>4. s \notin Range(x)
    <3>1. ASSUME NEW i \in 1 .. k, x[i] = s
          PROVE  FALSE
      <4>1. i - 1 \in 0 .. k - 1 /\ i - 1 + 1 = i
        BY <2>2
      <4>2. dimString(v, d, i - 1) = dimString(v, d, k) /\ i - 1 \in 0 .. idSpace(v, d) - 1
        BY <3>1, <4>1, <2>1, <2>2, <1>2, <1>5
      <4> QED BY <4>1, <4>2, <2>2, <1>4
    <3> QED BY <3>1, <2>3 DEF Range
  <2>5. ExtendOp(c, x, s) = Append(x, s) /\ DictOK(Append(x, s))
    BY <2>1, <2>2, <2>4, GetOrAddIs DEF ExtendOp
  <2>6. c.k + (n + 1) = k + 1
    BY <1>5, <1>a
  <2> HIDE DEF k, s
  <2>7. /\ Len(Append(x, s)) = k + 1 /\ Append(x, s)[k + 1] = s
        /\ \A i \in 1 .. k : Append(x, s)[i] = x[i]
    BY <2>1, <2>2, <2>3
  <2>8. \A id \in 0 .. k + 1 - 1 : Append(x, s)[id + 1] = dimString(v, d, id)
    BY <2>1, <2>2, <2>7
  <2>9. ExtendState(v, d, k + 1, Append(x, s))
    <3> DEFINE u == Append(x, s)
    <3>1. DictOK(u) /\ Len(u) = k + 1 /\ \A id \in 0 .. (k + 1) - 1 : u[id + 1] = dimString(v, d, id)
      BY <2>2, <2>3, <2>5, <2>7, <2>8
    <3> HIDE DEF u
    <3>2. ExtendState(v, d, k + 1, u)
      BY <3>1 DEF ExtendState
    <3> QED BY <3>2 DEF u
  <2> QED BY <1>a, <2>5, <2>6, <2>9 DEF ExtendInv, s
<1>8. ExtendInv(c, e, Len(e), Extends!Fold(c, b, e))
  BY <1>5, <1>6, <1>7, Extends!FoldInvariant
<1> QED BY <1>1, <1>2, <1>8, <1>a DEF ExtendInv

CompactOp(c, dict, id) == addUsed(c.v, c.ids, c.d, dict, id)

\* dict has the values of the ids in use, up to n, in the order of the ids.
CompactState(v, ids, d, n, dict) ==
    /\ DictOK(dict)
    /\ \A id \in ids \cap (0 .. n - 1) : dimString(v, d, id) \in Range(dict)
    /\ \A i \in DOMAIN dict : \E id \in ids \cap (0 .. n - 1) : dict[i] = dimString(v, d, id)
    /\ \A i, j \in DOMAIN dict : \A x, y \in 0 .. idSpace(v, d) - 1 :
          i < j /\ dict[i] = dimString(v, d, x) /\ dict[j] = dimString(v, d, y) => x < y

CompactInv(c, s, n, dict) == CompactState(c.v, c.ids, c.d, n, dict)

Compacts == INSTANCE Loops WITH Op <- CompactOp, Inv <- CompactInv

LEMMA CompactedIs ==
    ASSUME NEW v, NEW d, DictPair(v, d), NEW ids
    PROVE  CompactState(v, ids, d, idSpace(v, d), Compacted(v, ids, d))
<1> DEFINE c == [v |-> v, d |-> d, ids |-> ids]
           N == idSpace(v, d)
           q == [i \in 1 .. N |-> i - 1]
<1>1. Compacted(v, ids, d) = Compacts!Fold(c, <<>>, q)
  BY DEF Compacted, FoldLeft, MapThenFoldSet, Max, Compacts!Fold, Compacts!MapThenFoldSet, Compacts!Top, CompactOp
<1>2. /\ N \in Nat /\ \A id \in 0 .. N - 1 : dimString(v, d, id) \in Spellings
      /\ \A x, y \in 0 .. N - 1 : dimString(v, d, x) = dimString(v, d, y) => x = y
  BY DimStrings
<1>3. CompactInv(c, q, 0, <<>>)
  <2>1. DictOK(<<>>)
    BY DEF DictOK, IsInjective
  <2>2. CompactState(v, ids, d, 0, <<>>)
    BY <2>1 DEF CompactState
  <2> QED BY <2>2 DEF CompactInv
<1>4. ASSUME NEW n \in 0 .. N - 1, NEW t, CompactInv(c, q, n, t)
      PROVE  CompactInv(c, q, n + 1, CompactOp(c, t, q[n + 1]))
  <2>0. CompactState(v, ids, d, n, t)
    BY <1>4 DEF CompactInv
  <2>1. q[n + 1] = n
    BY <1>2
  <2>2. CompactOp(c, t, q[n + 1]) = addUsed(v, ids, d, t, n)
    BY <2>1 DEF CompactOp
  <2>3. CompactState(v, ids, d, n + 1, addUsed(v, ids, d, t, n))
    <3>1. CASE n \notin ids
      <4>1. addUsed(v, ids, d, t, n) = t
        BY <3>1 DEF addUsed
      <4>2. ids \cap (0 .. n + 1 - 1) = ids \cap (0 .. n - 1)
        BY <3>1, <1>2
      <4> QED BY <4>1, <4>2, <2>0 DEF CompactState
    <3>2. CASE n \in ids
      <4> DEFINE s == dimString(v, d, n)
                 u == Append(t, s)
      <4>1. /\ DictOK(t) /\ t \in Seq(Spellings) /\ DOMAIN t = 1 .. Len(t) /\ Len(t) \in Nat
            /\ s \in Spellings
        BY <2>0, <1>2 DEF CompactState, DictOK
      <4>2. ASSUME NEW i \in DOMAIN t, NEW x \in 0 .. N - 1, t[i] = dimString(v, d, x)
            PROVE  x < n
        <5>1. PICK y \in ids \cap (0 .. n - 1) : t[i] = dimString(v, d, y)
          BY <2>0 DEF CompactState
        <5>2. y \in 0 .. N - 1
          BY <1>2
        <5>3. x = y
          BY <1>2, <4>2, <5>1, <5>2
        <5> QED BY <5>3
      <4>3. s \notin Range(t)
        BY <4>2, <1>2 DEF Range
      <4>4. addUsed(v, ids, d, t, n) = u /\ DictOK(u)
        BY <3>2, <4>1, <4>3, GetOrAddIs DEF addUsed
      <4>5. Range(u) = Range(t) \cup {s}
        BY <4>1, <4>3, GetOrAddIs
      <4>6. /\ DOMAIN u = 1 .. Len(t) + 1 /\ u[Len(t) + 1] = s
            /\ \A i \in DOMAIN t : u[i] = t[i]
        BY <4>1
      <4> HIDE DEF u, s
      <4>7. ASSUME NEW id \in ids \cap (0 .. n + 1 - 1)
            PROVE  dimString(v, d, id) \in Range(u)
        <5>1. CASE id = n
          BY <5>1, <4>5 DEF s
        <5>2. CASE id # n
          <6>1. id \in ids \cap (0 .. n - 1)
            BY <5>2
          <6> QED BY <6>1, <4>5, <2>0 DEF CompactState
        <5> QED BY <5>1, <5>2
      <4>8. ASSUME NEW i \in DOMAIN u
            PROVE  \E id \in ids \cap (0 .. n + 1 - 1) : u[i] = dimString(v, d, id)
        <5>1. CASE i = Len(t) + 1
          <6>1. n \in ids \cap (0 .. n + 1 - 1) /\ u[i] = dimString(v, d, n)
            BY <5>1, <4>6, <3>2 DEF s
          <6> QED BY <6>1
        <5>2. CASE i # Len(t) + 1
          <6>1. i \in DOMAIN t /\ u[i] = t[i]
            BY <5>2, <4>1, <4>6
          <6>2. PICK y \in ids \cap (0 .. n - 1) : t[i] = dimString(v, d, y)
            BY <6>1, <2>0 DEF CompactState
          <6>3. y \in ids \cap (0 .. n + 1 - 1)
            BY <1>2
          <6> QED BY <6>1, <6>2, <6>3
        <5> QED BY <5>1, <5>2
      <4>9. ASSUME NEW i \in DOMAIN u, NEW j \in DOMAIN u, NEW x \in 0 .. N - 1, NEW y \in 0 .. N - 1,
                   i < j, u[i] = dimString(v, d, x), u[j] = dimString(v, d, y)
            PROVE  x < y
        <5>1. CASE j = Len(t) + 1
          <6>1. y = n
            BY <5>1, <4>6, <4>9, <1>2 DEF s
          <6>2. i \in DOMAIN t /\ t[i] = dimString(v, d, x)
            BY <5>1, <4>1, <4>6, <4>9
          <6> QED BY <6>1, <6>2, <4>2
        <5>2. CASE j # Len(t) + 1
          <6>1. i \in DOMAIN t /\ j \in DOMAIN t /\ u[i] = t[i] /\ u[j] = t[j]
            BY <5>2, <4>1, <4>6, <4>9
          <6> QED BY <6>1, <4>9, <2>0 DEF CompactState
        <5> QED BY <5>1, <5>2
      <4>10. CompactState(v, ids, d, n + 1, u)
        BY <4>4, <4>7, <4>8, <4>9 DEF CompactState
      <4> QED BY <4>4, <4>10
    <3> QED BY <3>1, <3>2
  <2>4. c.v = v /\ c.ids = ids /\ c.d = d
    OBVIOUS
  <2> HIDE DEF c, q
  <2> QED BY <2>2, <2>3, <2>4 DEF CompactInv
<1>5. CompactInv(c, q, N, Compacts!Fold(c, <<>>, q))
  <2>1. DOMAIN q = 1 .. N
    OBVIOUS
  <2> HIDE DEF c, q, N
  <2> QED BY <1>2, <2>1, <1>3, <1>4, Compacts!FoldInvariant
<1> HIDE DEF q
<1> QED BY <1>1, <1>5 DEF CompactInv

BuildOp(c, dict, r) == getOrAdd(dict, Resolve(r)[c])

BuildInv(c, s, n, dict) == DictOK(dict) /\ Range(dict) = {Resolve(s[i])[c] : i \in 1 .. n}

Builds == INSTANCE Loops WITH Op <- BuildOp, Inv <- BuildInv

\* A dump's dictionaries hold the values of its records, each once.
LEMMA BuiltDictsIs ==
    ASSUME NEW recs, NEW N \in Nat, DOMAIN recs = 1 .. N, NEW d \in Dims,
           \A i \in 1 .. N : Resolve(recs[i])[d] \in Spellings
    PROVE  /\ DictOK(builtDicts(recs)[d])
           /\ Range(builtDicts(recs)[d]) = {Resolve(recs[i])[d] : i \in 1 .. N}
<1>1. builtDicts(recs)[d] = Builds!Fold(d, <<>>, recs)
  BY DEF builtDicts, FoldLeft, MapThenFoldSet, Max, Builds!Fold, Builds!MapThenFoldSet, Builds!Top, BuildOp
<1>2. BuildInv(d, recs, 0, <<>>)
  BY DEF BuildInv, DictOK, IsInjective, Range
<1>3. ASSUME NEW n \in 0 .. N - 1, NEW t, BuildInv(d, recs, n, t)
      PROVE  BuildInv(d, recs, n + 1, BuildOp(d, t, recs[n + 1]))
  <2> DEFINE s == Resolve(recs[n + 1])[d]
  <2>1. s \in Spellings
    OBVIOUS
  <2>2. DictOK(t) /\ Range(t) = {Resolve(recs[i])[d] : i \in 1 .. n}
    BY <1>3 DEF BuildInv
  <2>3. DictOK(getOrAdd(t, s)) /\ Range(getOrAdd(t, s)) = Range(t) \cup {s}
    BY <2>1, <2>2, GetOrAddIs
  <2>4. {Resolve(recs[i])[d] : i \in 1 .. n + 1} = {Resolve(recs[i])[d] : i \in 1 .. n} \cup {s}
    OBVIOUS
  <2> QED BY <2>2, <2>3, <2>4 DEF BuildInv, BuildOp
<1>4. BuildInv(d, recs, N, Builds!Fold(d, <<>>, recs))
  BY <1>2, <1>3, Builds!FoldInvariant
<1> QED BY <1>1, <1>4 DEF BuildInv

-----------------------------------------------------------------------------
(* Packed keys.                                                               *)

\* A sum without its first summand.
LEMMA SumHead ==
    ASSUME NEW m \in Nat, NEW s, NEW t, DOMAIN s = 1 .. m + 1, DOMAIN t = 1 .. m,
           \A i \in 1 .. m + 1 : s[i] \in Nat, \A i \in 1 .. m : t[i] = s[i + 1]
    PROVE  SumSeq(s) = s[1] + SumSeq(t)
<1> DEFINE a == Sums!RunOf(0, 0, s, m + 1)
           b == Sums!RunOf(0, 0, t, m)
<1>1. Sums!IsRun(a, 0, 0, s, m + 1) /\ Sums!Fold(0, 0, s) = a[m + 1]
  BY Sums!FoldRun
<1>2. Sums!IsRun(b, 0, 0, t, m) /\ Sums!Fold(0, 0, t) = b[m]
  BY Sums!FoldRun
<1> HIDE DEF a, b
<1>3. /\ a[0] = 0 /\ b[0] = 0
      /\ \A n \in 0 .. m : a[n + 1] = a[n] + s[n + 1]
      /\ \A n \in 0 .. m - 1 : b[n + 1] = b[n] + t[n + 1]
  BY <1>1, <1>2 DEF Sums!IsRun, AddOp
<1> DEFINE T == {n \in 0 .. m : ~(b[n] \in Nat /\ a[n + 1] = s[1] + b[n])}
<1>4. ASSUME T # {} PROVE FALSE
  <2>1. PICK n \in T : \A k \in T : n <= k
    <3>1. T \in SUBSET Nat
      OBVIOUS
    <3> HIDE DEF T
    <3> QED BY <1>4, <3>1, LeastNatural
  <2>2. n \in 0 .. m /\ ~(b[n] \in Nat /\ a[n + 1] = s[1] + b[n])
    OBVIOUS
  <2>3. n # 0
    <3>1. a[0 + 1] = a[0] + s[0 + 1] /\ s[1] \in Nat
      BY <1>3
    <3> QED BY <3>1, <1>3, <2>2
  <2>4. n - 1 \in 0 .. m - 1 /\ n - 1 + 1 = n /\ n - 1 \notin T
    BY <2>1, <2>2, <2>3
  <2>5. b[n - 1] \in Nat /\ a[n] = s[1] + b[n - 1]
    BY <2>4
  <2>6. b[n] = b[n - 1] + t[n] /\ a[n + 1] = a[n] + s[n + 1] /\ t[n] = s[n + 1] /\ s[n + 1] \in Nat
        /\ s[1] \in Nat
    BY <1>3, <2>2, <2>4
  <2> QED BY <2>2, <2>5, <2>6
<1>5. a[m + 1] = s[1] + b[m]
  BY <1>4
<1> QED BY <1>1, <1>2, <1>5, SumSeqFold

\* The index prefix is not empty.
LEMMA PrefixIs ==
    /\ Cardinality(IndexDims) \in Nat \ {0} /\ Prefix = 1 .. Cardinality(IndexDims)
    /\ IsFiniteSet(Dims) /\ Cardinality(Dims) \in Nat
    /\ \A i \in Prefix : DimOrder[i] \in IndexDims /\ DimOrder[i] \in Dims
<1>1. IsFiniteSet(IndexDims) /\ Cardinality(IndexDims) \in Nat /\ Cardinality(Dims) \in Nat
  BY SchemaAssumption, OrderAssumption, FS_Subset, FS_CardinalityType
<1>2. Cardinality(IndexDims) # 0
  BY <1>1, SchemaAssumption, FS_EmptySet
<1>3. \A i \in Prefix : DimOrder[i] \in IndexDims
  BY OrderAssumption DEF Prefix
<1> QED BY <1>1, <1>2, <1>3, SchemaAssumption, OrderAssumption DEF Prefix

WidthsOf(dicts) == \A d \in Dims : dicts[d] \in Seq(Spellings)

LEMMA WidthNat ==
    ASSUME NEW dicts, WidthsOf(dicts), NEW i \in Prefix
    PROVE  /\ dictWidth(dicts, i) \in Nat \ {0}
           /\ Len(dicts[DimOrder[i]]) <= 2^dictWidth(dicts, i)
           /\ Len(dicts[DimOrder[i]]) \in Nat
<1>1. DimOrder[i] \in Dims
  BY PrefixIs
<1>2. Len(dicts[DimOrder[i]]) \in Nat
  BY <1>1 DEF WidthsOf
<1> QED BY <1>2, DictBits DEF dictWidth

\* Each field lies above the later ones.
LEMMA ShiftsStep ==
    ASSUME NEW dicts, WidthsOf(dicts)
    PROVE  /\ \A i \in Prefix : computeShifts(dicts)[i] \in Nat
           /\ \A i \in Prefix : i + 1 \in Prefix =>
                 computeShifts(dicts)[i] = dictWidth(dicts, i + 1) + computeShifts(dicts)[i + 1]
           /\ computeShifts(dicts)[Cardinality(IndexDims)] = 0
<1> DEFINE n == Cardinality(IndexDims)
           S(i) == [j \in 1 .. n - i |-> dictWidth(dicts, i + j)]
<1>1. n \in Nat \ {0} /\ Prefix = 1 .. n
  BY PrefixIs
<1>2. \A i \in Prefix : computeShifts(dicts)[i] = SumSeq(S(i))
  BY DEF computeShifts
<1> HIDE DEF n
<1>3. ASSUME NEW i \in Prefix
      PROVE  n - i \in Nat /\ DOMAIN S(i) = 1 .. n - i /\ \A j \in 1 .. n - i : S(i)[j] \in Nat
  <2>1. \A j \in 1 .. n - i : i + j \in Prefix
    BY <1>1
  <2> QED BY <1>1, <2>1, WidthNat
<1>4. \A i \in Prefix : SumSeq(S(i)) \in Nat
  <2>1. ASSUME NEW i \in Prefix PROVE SumSeq(S(i)) \in Nat
    <3> HIDE DEF S
    <3> QED BY <1>3, SumNat
  <2> QED BY <2>1
<1>5. ASSUME NEW i \in Prefix, i + 1 \in Prefix
      PROVE  SumSeq(S(i)) = dictWidth(dicts, i + 1) + SumSeq(S(i + 1))
  <2> DEFINE m == n - (i + 1)
  <2>1. m \in Nat /\ n - i = m + 1
    BY <1>1, <1>5
  <2>2. S(i)[1] = dictWidth(dicts, i + 1)
    BY <2>1
  <2>3. \A j \in 1 .. m : S(i + 1)[j] = S(i)[j + 1]
    <3>1. ASSUME NEW j \in 1 .. m
          PROVE  S(i + 1)[j] = S(i)[j + 1]
      <4>1. i + 1 + j = i + (j + 1) /\ j + 1 \in 1 .. n - i /\ j \in 1 .. n - (i + 1)
        BY <1>1, <2>1
      <4> QED BY <4>1
    <3> QED BY <3>1
  <2> HIDE DEF S
  <2>4. DOMAIN S(i) = 1 .. m + 1 /\ DOMAIN S(i + 1) = 1 .. m /\ \A j \in 1 .. m + 1 : S(i)[j] \in Nat
    BY <1>3, <1>5, <2>1
  <2> HIDE DEF m
  <2>5. SumSeq(S(i)) = S(i)[1] + SumSeq(S(i + 1))
    BY <2>1, <2>3, <2>4, SumHead
  <2> QED BY <2>2, <2>5
<1>6. SumSeq(S(n)) = 0
  <2>1. DOMAIN S(n) = {} /\ S(n) = <<>>
    BY <1>1
  <2>2. SumSeq(<<>>) = 0
    <3> DEFINE a == Sums!RunOf(0, 0, <<>>, 0)
    <3>1. Sums!IsRun(a, 0, 0, <<>>, 0) /\ Sums!Fold(0, 0, <<>>) = a[0]
      <4>1. DOMAIN <<>> = 1 .. 0
        OBVIOUS
      <4> QED BY <4>1, Sums!FoldRun
    <3> QED BY <3>1, SumSeqFold DEF Sums!IsRun
  <2> QED BY <2>1, <2>2
<1>7. n \in Prefix
  BY <1>1
<1> HIDE DEF S
<1> QED BY <1>2, <1>4, <1>5, <1>6, <1>7 DEF n

\* The ids fit the fields of a key.
Fits(dicts, ids) == \A i \in Prefix : ids[DimOrder[i]] \in 0 .. 2^dictWidth(dicts, i) - 1

LexBefore(a, b) ==
    \E i \in Prefix : /\ a[DimOrder[i]] < b[DimOrder[i]]
                      /\ \A j \in 1 .. i - 1 : a[DimOrder[j]] = b[DimOrder[j]]

LEMMA MulMono ==
    ASSUME NEW x \in Nat, NEW y \in Nat, NEW m \in Nat, x < y
    PROVE  x * m + m <= y * m
<1>1. y - x - 1 \in Nat
  OBVIOUS
<1>2. \A a, b \in Nat : a * b \in Nat
  OBVIOUS
<1>3. (y - x - 1) * m \in Nat
  BY <1>1, <1>2
<1>4. (y - x - 1) * m = y * m - x * m - m
  OBVIOUS
<1>5. x * m \in Nat /\ y * m \in Nat
  BY <1>2
<1> QED BY <1>3, <1>4, <1>5

\* A digit below W does not make up for a difference of W at the place above.
LEMMA Digits ==
    ASSUME NEW p \in Nat, NEW q \in Nat, NEW x \in Nat, NEW y \in Nat, NEW W \in Nat, NEW m \in Nat,
           x < W, p + W * m <= q
    PROVE  (p + x * m) + m <= q + y * m
<1>1. x * m + m <= W * m
  BY MulMono
<1>2. x * m \in Nat /\ y * m \in Nat /\ W * m \in Nat
  OBVIOUS
<1> QED BY <1>1, <1>2

Summands(shifts, ids) == [i \in Prefix |-> ids[DimOrder[i]] * 2^shifts[i]]

LEMMA KeyRun ==
    ASSUME NEW shifts, \A i \in Prefix : shifts[i] \in Nat,
           NEW ids, \A i \in Prefix : ids[DimOrder[i]] \in Nat
    PROVE  LET a == Sums!RunOf(0, 0, Summands(shifts, ids), Cardinality(IndexDims))
           IN  /\ a[0] = 0 /\ packKey(shifts, ids) = a[Cardinality(IndexDims)]
               /\ \A k \in Prefix : /\ a[k] = a[k - 1] + ids[DimOrder[k]] * 2^shifts[k]
                                    /\ ids[DimOrder[k]] * 2^shifts[k] \in Nat
               /\ packKey(shifts, ids) \in Nat
<1> DEFINE n == Cardinality(IndexDims)
           s == Summands(shifts, ids)
           a == Sums!RunOf(0, 0, s, n)
<1>1. n \in Nat \ {0} /\ Prefix = 1 .. n
  BY PrefixIs
<1>2. packKey(shifts, ids) = SumSeq(s)
  BY DEF packKey, Summands
<1>3. DOMAIN s = 1 .. n /\ \A i \in 1 .. n : s[i] = ids[DimOrder[i]] * 2^shifts[i]
  BY <1>1 DEF Summands
<1> HIDE DEF n, s
<1>4. \A i \in 1 .. n : s[i] \in Nat
  <2>1. ASSUME NEW i \in 1 .. n PROVE s[i] \in Nat
    <3>1. ids[DimOrder[i]] \in Nat /\ 2^shifts[i] \in Nat
      BY <1>1, PowNat
    <3> QED BY <3>1, <1>3
  <2> QED BY <2>1
<1>5. Sums!IsRun(a, 0, 0, s, n) /\ Sums!Fold(0, 0, s) = a[n]
  BY <1>1, <1>3, Sums!FoldRun
<1> HIDE DEF a
<1>6. a[0] = 0 /\ \A k \in 0 .. n - 1 : a[k + 1] = a[k] + s[k + 1]
  BY <1>5 DEF Sums!IsRun, AddOp
<1>7. \A k \in 1 .. n : a[k] = a[k - 1] + s[k]
  <2>1. ASSUME NEW k \in 1 .. n PROVE a[k] = a[k - 1] + s[k]
    <3>1. k - 1 \in 0 .. n - 1 /\ k - 1 + 1 = k
      BY <1>1
    <3> QED BY <3>1, <1>6
  <2> QED BY <2>1
<1>8. SumSeq(s) \in Nat
  BY <1>1, <1>3, <1>4, SumNat
<1>9. packKey(shifts, ids) = a[n]
  BY <1>2, <1>5, SumSeqFold
<1>10. /\ a[0] = 0 /\ packKey(shifts, ids) = a[n]
       /\ \A k \in Prefix : /\ a[k] = a[k - 1] + ids[DimOrder[k]] * 2^shifts[k]
                            /\ ids[DimOrder[k]] * 2^shifts[k] \in Nat
       /\ packKey(shifts, ids) \in Nat
  BY <1>1, <1>2, <1>3, <1>4, <1>6, <1>7, <1>8, <1>9
<1> QED BY <1>10 DEF a, s, n

LEMMA KeyNat ==
    ASSUME NEW dicts, WidthsOf(dicts), NEW ids, \A d \in Dims : ids[d] \in Nat
    PROVE  packKey(computeShifts(dicts), ids) \in Nat
<1>1. \A i \in Prefix : computeShifts(dicts)[i] \in Nat /\ ids[DimOrder[i]] \in Nat
  BY ShiftsStep, PrefixIs
<1> QED BY <1>1, KeyRun

\* Keys are in the lexicographic order of the ids of the prefix.
LEMMA KeyLess ==
    ASSUME NEW dicts, WidthsOf(dicts), NEW a, NEW b, Fits(dicts, a), Fits(dicts, b), LexBefore(a, b)
    PROVE  packKey(computeShifts(dicts), a) < packKey(computeShifts(dicts), b)
<1> DEFINE n == Cardinality(IndexDims)
           sh == computeShifts(dicts)
           A(k) == a[DimOrder[k]]
           B(k) == b[DimOrder[k]]
           W(k) == 2^dictWidth(dicts, k)
           M(k) == 2^sh[k]
           p == Sums!RunOf(0, 0, Summands(sh, a), n)
           q == Sums!RunOf(0, 0, Summands(sh, b), n)
<1>1. n \in Nat \ {0} /\ Prefix = 1 .. n
  BY PrefixIs
<1>2. \A k \in Prefix : /\ dictWidth(dicts, k) \in Nat /\ sh[k] \in Nat
                        /\ W(k) \in Nat /\ M(k) \in Nat /\ 0 < M(k)
                        /\ A(k) \in Nat /\ A(k) < W(k) /\ B(k) \in Nat /\ B(k) < W(k)
  <2>1. ASSUME NEW k \in Prefix
        PROVE  /\ dictWidth(dicts, k) \in Nat /\ sh[k] \in Nat
               /\ W(k) \in Nat /\ M(k) \in Nat /\ 0 < M(k)
               /\ A(k) \in Nat /\ A(k) < W(k) /\ B(k) \in Nat /\ B(k) < W(k)
    <3>1. dictWidth(dicts, k) \in Nat /\ sh[k] \in Nat
      BY WidthNat, ShiftsStep
    <3>2. W(k) \in Nat /\ M(k) \in Nat /\ sh[k] < M(k)
      BY <3>1, PowNat, PowGrows
    <3>3. A(k) \in 0 .. W(k) - 1 /\ B(k) \in 0 .. W(k) - 1
      BY DEF Fits
    <3> HIDE DEF sh, W, M
    <3> QED BY <3>1, <3>2, <3>3
  <2> QED BY <2>1
<1>3. \A k \in Prefix : k - 1 \in Prefix => M(k - 1) = W(k) * M(k)
  <2>1. ASSUME NEW k \in Prefix, k - 1 \in Prefix
        PROVE  M(k - 1) = W(k) * M(k)
    <3>1. k - 1 + 1 = k
      BY <1>1
    <3>2. sh[k - 1] = dictWidth(dicts, k) + sh[k]
      BY <2>1, <3>1, ShiftsStep
    <3>3. dictWidth(dicts, k) \in Nat /\ sh[k] \in Nat
      BY <1>2
    <3> HIDE DEF sh
    <3> QED BY <3>2, <3>3, PowAdd
  <2> QED BY <2>1
<1>4. /\ p[0] = 0 /\ packKey(sh, a) = p[n] /\ q[0] = 0 /\ packKey(sh, b) = q[n]
      /\ \A k \in Prefix : /\ p[k] = p[k - 1] + A(k) * M(k) /\ A(k) * M(k) \in Nat
                           /\ q[k] = q[k - 1] + B(k) * M(k) /\ B(k) * M(k) \in Nat
  <2>1. \A k \in Prefix : sh[k] \in Nat /\ a[DimOrder[k]] \in Nat /\ b[DimOrder[k]] \in Nat
    BY <1>2
  <2> HIDE DEF sh
  <2> QED BY <2>1, KeyRun
<1>5. PICK i \in Prefix : A(i) < B(i) /\ \A j \in 1 .. i - 1 : A(j) = B(j)
  BY DEF LexBefore
<1> HIDE DEF n, sh, p, q, A, B, M, W
<1> DEFINE good(k) == /\ p[k] \in Nat /\ q[k] \in Nat
                      /\ k < i => p[k] = q[k]
                      /\ k >= i => p[k] + M(k) <= q[k]
           T == {k \in 0 .. n : ~good(k)}
<1>6. ASSUME T # {} PROVE FALSE
  <2>1. PICK k \in T : \A j \in T : k <= j
    <3>1. T \in SUBSET Nat
      BY <1>1
    <3> HIDE DEF T
    <3> QED BY <1>6, <3>1, LeastNatural
  <2>2. k \in 0 .. n /\ ~good(k)
    OBVIOUS
  <2>3. k # 0
    <3>1. good(0)
      BY <1>1, <1>4
    <3> HIDE DEF good
    <3> QED BY <3>1, <2>2
  <2>4. k \in Prefix /\ k - 1 \in 0 .. n /\ good(k - 1)
    <3>1. k \in Prefix /\ k - 1 \in 0 .. n /\ k - 1 < k
      BY <1>1, <2>2, <2>3
    <3> HIDE DEF good
    <3> QED BY <3>1, <2>1
  <2>5. /\ p[k - 1] \in Nat /\ q[k - 1] \in Nat
        /\ p[k] = p[k - 1] + A(k) * M(k) /\ A(k) * M(k) \in Nat
        /\ q[k] = q[k - 1] + B(k) * M(k) /\ B(k) * M(k) \in Nat
    BY <2>4, <1>4
  <2>6. CASE k < i
    <3>1. k \in 1 .. i - 1 /\ k - 1 < i
      BY <1>1, <2>4, <2>6
    <3>2. A(k) = B(k) /\ p[k - 1] = q[k - 1]
      BY <3>1, <1>5, <2>4
    <3>3. ~(k >= i)
      BY <1>1, <2>4, <2>6
    <3> QED BY <2>2, <2>5, <3>2, <3>3
  <2>7. CASE k = i
    <3>1. p[k - 1] = q[k - 1]
      BY <1>1, <2>4, <2>7
    <3>2. A(k) * M(k) + M(k) <= B(k) * M(k)
      BY <1>2, <1>5, <2>4, <2>7, MulMono
    <3>3. M(k) \in Nat
      BY <1>2, <2>4
    <3>4. p[k] + M(k) <= q[k]
      BY <2>5, <3>1, <3>2, <3>3
    <3> QED BY <2>2, <2>5, <2>7, <3>4, <1>1
  <2>8. CASE k > i
    <3>1. k - 1 \in Prefix /\ k - 1 >= i
      BY <1>1, <2>4, <2>8
    <3>2. p[k - 1] + W(k) * M(k) <= q[k - 1]
      BY <3>1, <1>3, <2>4
    <3>3. M(k) \in Nat /\ W(k) \in Nat /\ A(k) \in Nat /\ B(k) \in Nat /\ A(k) < W(k)
      BY <1>2, <2>4
    <3>4. (p[k - 1] + A(k) * M(k)) + M(k) <= q[k - 1] + B(k) * M(k)
      BY <2>5, <3>2, <3>3, Digits
    <3>5. p[k] + M(k) <= q[k]
      BY <2>5, <3>4
    <3>6. ~(k < i)
      BY <1>1, <2>4, <2>8
    <3> QED BY <2>2, <2>5, <3>5, <3>6
  <2> QED BY <2>6, <2>7, <2>8, <2>2, <1>1
<1>7. good(n) /\ n \in Prefix /\ n >= i
  BY <1>1, <1>6
<1>8. M(n) \in Nat /\ 0 < M(n)
  BY <1>2, <1>7
<1> QED BY <1>4, <1>7, <1>8 DEF sh

LEMMA KeyEqual ==
    ASSUME NEW shifts, NEW a, NEW b, \A i \in Prefix : a[DimOrder[i]] = b[DimOrder[i]]
    PROVE  packKey(shifts, a) = packKey(shifts, b)
BY DEF packKey

LEMMA LexTotal ==
    ASSUME NEW a, NEW b, \A i \in Prefix : a[DimOrder[i]] \in Nat /\ b[DimOrder[i]] \in Nat
    PROVE  LexBefore(a, b) \/ LexBefore(b, a) \/ \A i \in Prefix : a[DimOrder[i]] = b[DimOrder[i]]
<1> DEFINE T == {i \in Prefix : a[DimOrder[i]] # b[DimOrder[i]]}
<1>1. ASSUME T # {} PROVE LexBefore(a, b) \/ LexBefore(b, a)
  <2>1. PICK i \in T : \A k \in T : i <= k
    <3>1. T \in SUBSET Nat
      BY PrefixIs
    <3> HIDE DEF T
    <3> QED BY <1>1, <3>1, LeastNatural
  <2>2. \A j \in 1 .. i - 1 : j \in Prefix /\ j \notin T
    BY <2>1, PrefixIs
  <2>3. \A j \in 1 .. i - 1 : a[DimOrder[j]] = b[DimOrder[j]]
    BY <2>2
  <2>4. a[DimOrder[i]] < b[DimOrder[i]] \/ b[DimOrder[i]] < a[DimOrder[i]]
    OBVIOUS
  <2> QED BY <2>3, <2>4 DEF LexBefore
<1> QED BY <1>1

\* x and y are what a and b become when ids change but keep their order.
SameOrder(a, b, x, y) ==
    \A i \in Prefix :
        LET d == DimOrder[i]
        IN  /\ a[d] < b[d] => x[d] < y[d]
            /\ a[d] = b[d] => x[d] = y[d]
            /\ b[d] < a[d] => y[d] < x[d]

\* Keys stay in order when ids are renumbered in order and fields change width.
LEMMA KeyOrder ==
    ASSUME NEW old, WidthsOf(old), NEW a, NEW b, Fits(old, a), Fits(old, b),
           NEW new, WidthsOf(new), NEW x, NEW y, Fits(new, x), Fits(new, y),
           SameOrder(a, b, x, y),
           packKey(computeShifts(old), a) <= packKey(computeShifts(old), b)
    PROVE  packKey(computeShifts(new), x) <= packKey(computeShifts(new), y)
<1>0. ASSUME NEW dicts, WidthsOf(dicts), NEW ids, Fits(dicts, ids)
      PROVE  packKey(computeShifts(dicts), ids) \in Nat /\ \A i \in Prefix : ids[DimOrder[i]] \in Nat
  <2>1. \A i \in Prefix : computeShifts(dicts)[i] \in Nat /\ ids[DimOrder[i]] \in Nat
    BY <1>0, ShiftsStep DEF Fits
  <2> QED BY <2>1, KeyRun
<1>1. /\ packKey(computeShifts(old), a) \in Nat /\ packKey(computeShifts(old), b) \in Nat
      /\ packKey(computeShifts(new), x) \in Nat /\ packKey(computeShifts(new), y) \in Nat
      /\ \A i \in Prefix : /\ a[DimOrder[i]] \in Nat /\ b[DimOrder[i]] \in Nat
                           /\ x[DimOrder[i]] \in Nat /\ y[DimOrder[i]] \in Nat
  BY <1>0
<1>2. CASE LexBefore(y, x)
  <2>1. PICK i \in Prefix : /\ y[DimOrder[i]] < x[DimOrder[i]]
                            /\ \A j \in 1 .. i - 1 : y[DimOrder[j]] = x[DimOrder[j]]
    BY <1>2 DEF LexBefore
  <2>2. b[DimOrder[i]] < a[DimOrder[i]]
    BY <1>1, <2>1 DEF SameOrder
  <2>3. ASSUME NEW j \in 1 .. i - 1
        PROVE  b[DimOrder[j]] = a[DimOrder[j]]
    <3>1. j \in Prefix
      BY PrefixIs
    <3>2. y[DimOrder[j]] = x[DimOrder[j]]
      BY <2>1
    <3> QED BY <3>1, <3>2, <1>1 DEF SameOrder
  <2>4. LexBefore(b, a)
    BY <2>2, <2>3 DEF LexBefore
  <2>5. packKey(computeShifts(old), b) < packKey(computeShifts(old), a)
    BY <2>4, KeyLess
  <2> QED BY <2>5, <1>1
<1>3. CASE LexBefore(x, y)
  <2>1. packKey(computeShifts(new), x) < packKey(computeShifts(new), y)
    BY <1>3, KeyLess
  <2> QED BY <2>1, <1>1
<1>4. CASE \A i \in Prefix : x[DimOrder[i]] = y[DimOrder[i]]
  <2>1. packKey(computeShifts(new), x) = packKey(computeShifts(new), y)
    BY <1>4, KeyEqual
  <2> QED BY <2>1, <1>1
<1> QED BY <1>1, <1>2, <1>3, <1>4, LexTotal

-----------------------------------------------------------------------------
(* Snapshots.                                                                 *)

ColRow == [ids: [Dims -> Nat], upd: Time, exp: Time, met: Payloads]
Entry == [key: Nat, row: ColRow]

\* The ids of a row are ids of these dictionaries.
IdsIn(dicts, ids) == \A d \in Dims : ids[d] < Len(dicts[d])

SnapOK(s) ==
    /\ \A d \in Dims : DictOK(s.dicts[d])
    /\ s.shifts = computeShifts(s.dicts)
    /\ s.rows \in Seq(ColRow) /\ s.keys \in Seq(Nat) /\ Len(s.keys) = Len(s.rows)
    /\ \A r \in DOMAIN s.rows : /\ s.keys[r] = packKey(s.shifts, s.rows[r].ids)
                                /\ IdsIn(s.dicts, s.rows[r].ids)
    /\ \A q, r \in DOMAIN s.rows : q <= r => s.keys[q] <= s.keys[r]
    /\ \A q, r \in DOMAIN s.rows : q # r => s.rows[q].ids # s.rows[r].ids

LEMMA IdsFit ==
    ASSUME NEW dicts, WidthsOf(dicts), NEW ids \in [Dims -> Nat], IdsIn(dicts, ids)
    PROVE  Fits(dicts, ids)
<1>1. ASSUME NEW i \in Prefix
      PROVE  ids[DimOrder[i]] \in 0 .. 2^dictWidth(dicts, i) - 1
  <2>1. DimOrder[i] \in Dims
    BY PrefixIs
  <2>2. /\ dictWidth(dicts, i) \in Nat /\ Len(dicts[DimOrder[i]]) <= 2^dictWidth(dicts, i)
        /\ Len(dicts[DimOrder[i]]) \in Nat
    BY WidthNat
  <2>3. ids[DimOrder[i]] \in Nat /\ ids[DimOrder[i]] < Len(dicts[DimOrder[i]])
    BY <2>1 DEF IdsIn
  <2>4. 2^dictWidth(dicts, i) \in Nat
    BY <2>2, PowNat
  <2> QED BY <2>2, <2>3, <2>4
<1> QED BY <1>1 DEF Fits

\* A set with one element, as the least of it.
LEMMA MinOne ==
    ASSUME NEW x \in Int
    PROVE  Min({x}) = x
BY DEF Min

\* The search of a snapshot for a tuple finds its row, and nothing else.
LEMMA FindRowIs ==
    ASSUME NEW s, SnapOK(s), NEW ids \in [Dims -> Nat]
    PROVE  findRowIn(s, ids) = {r \in DOMAIN s.rows : s.rows[r].ids = ids}
<1> DEFINE n == Len(s.keys)
           key == packKey(s.shifts, ids)
           up == {r \in DOMAIN s.keys : s.keys[r] >= key}
           from == Search(n, up)
           hits == {r \in from .. n : (\A q \in from .. r : s.keys[q] = key) /\ s.rows[r].ids = ids}
<1>1. findRowIn(s, ids) = IF hits = {} THEN {} ELSE {Min(hits)}
  BY DEF findRowIn
<1>2. /\ n \in Nat /\ DOMAIN s.keys = 1 .. n /\ DOMAIN s.rows = 1 .. n
      /\ \A r \in 1 .. n : s.keys[r] \in Nat /\ s.keys[r] = packKey(s.shifts, s.rows[r].ids)
      /\ \A q, r \in 1 .. n : q <= r => s.keys[q] <= s.keys[r]
      /\ \A q, r \in 1 .. n : q # r => s.rows[q].ids # s.rows[r].ids
  BY DEF SnapOK
<1>3. key \in Nat
  <2>1. WidthsOf(s.dicts) /\ s.shifts = computeShifts(s.dicts)
    BY DEF SnapOK, WidthsOf, DictOK
  <2> QED BY <2>1, KeyNat
<1>4. \A r : r \in 1 .. n /\ s.rows[r].ids = ids => s.keys[r] = key
  BY <1>2
<1> HIDE DEF key, n
<1>5. \A i, j \in 1 .. n : i <= j /\ i \in up => j \in up
  BY <1>2, <1>3
<1>6. up \subseteq 1 .. n /\ \A r \in 1 .. n : r \in up <=> s.keys[r] >= key
  BY <1>2
<1> HIDE DEF up
<1>7. from \in 1 .. n + 1 /\ \A i \in 1 .. n : i \in up <=> i >= from
  BY <1>2, <1>5, SearchFirst
<1> HIDE DEF from
<1>8. ASSUME NEW r \in 1 .. n, s.rows[r].ids = ids
      PROVE  r \in hits
  <2>1. s.keys[r] = key
    BY <1>4, <1>8
  <2>2. r \in from .. n
    BY <2>1, <1>2, <1>3, <1>6, <1>7
  <2>3. ASSUME NEW q \in from .. r PROVE s.keys[q] = key
    <3>1. q \in 1 .. n /\ q >= from /\ q <= r
      BY <1>2, <1>7, <2>2
    <3>2. s.keys[q] >= key /\ s.keys[q] <= s.keys[r] /\ s.keys[q] \in Nat
      BY <3>1, <1>2, <1>6, <1>7
    <3> QED BY <3>2, <2>1, <1>3
  <2> QED BY <2>2, <2>3, <1>8
<1>9. \A r \in hits : r \in 1 .. n /\ s.rows[r].ids = ids
  BY <1>2, <1>7
<1>10. CASE hits = {}
  BY <1>1, <1>2, <1>8, <1>10
<1>11. CASE hits # {}
  <2>1. PICK r \in hits : TRUE
    BY <1>11
  <2>2. hits = {r}
    <3> HIDE DEF hits
    <3> QED BY <2>1, <1>2, <1>9
  <2> HIDE DEF hits
  <2>3. findRowIn(s, ids) = {r}
    BY <1>1, <2>1, <2>2, <1>9, MinOne
  <2>4. {q \in DOMAIN s.rows : s.rows[q].ids = ids} = {r}
    BY <1>2, <1>9, <2>1
  <2> QED BY <2>3, <2>4
<1> QED BY <1>10, <1>11

\* Entries a snapshot with these dictionaries may be made of.
EntriesOK(dicts, keyed) ==
    /\ keyed \in Seq(Entry)
    /\ \A i \in DOMAIN keyed : /\ keyed[i].key = packKey(computeShifts(dicts), keyed[i].row.ids)
                               /\ IdsIn(dicts, keyed[i].row.ids)
    /\ KeysAscend(keyed) /\ IdsDiffer(keyed)

TrackOp(c, s, row) == Track(s, row)

\* Only the scalars change.
TrackInv(c, s, n, x) ==
    x \in [dicts: {c.dicts}, shifts: {c.shifts}, rows: {c.rows}, keys: {c.keys},
           maxUpdated: Time, minUpdated: Time, minExpire: Time]

Tracks == INSTANCE Loops WITH Op <- TrackOp, Inv <- TrackInv

LEMMA NewColumnsHas ==
    ASSUME NEW dicts, NEW keyed \in Seq(Entry)
    PROVE  NewColumns(dicts, keyed) \in
               [dicts: {dicts}, shifts: {computeShifts(dicts)},
                rows: {[i \in DOMAIN keyed |-> keyed[i].row]},
                keys: {[i \in DOMAIN keyed |-> keyed[i].key]},
                maxUpdated: Time, minUpdated: Time, minExpire: Time]
<1> DEFINE rows == [i \in DOMAIN keyed |-> keyed[i].row]
           c == [dicts |-> dicts, shifts |-> computeShifts(dicts), rows |-> rows,
                 keys |-> [i \in DOMAIN keyed |-> keyed[i].key],
                 maxUpdated |-> 0, minUpdated |-> 0, minExpire |-> 0]
           s == NewColumns(dicts, keyed)
<1>1. s = Tracks!Fold(c, c, rows)
  BY DEF NewColumns, FoldLeft, MapThenFoldSet, Max, Tracks!Fold, Tracks!MapThenFoldSet, Tracks!Top, TrackOp
<1>2. /\ DOMAIN rows = 1 .. Len(keyed) /\ Len(keyed) \in Nat
      /\ \A i \in 1 .. Len(keyed) : rows[i].upd \in Time /\ rows[i].exp \in Time
  <2>1. \A i \in 1 .. Len(keyed) : keyed[i] \in Entry
    OBVIOUS
  <2> QED BY <2>1 DEF Entry, ColRow
<1>3. TrackInv(c, rows, 0, c)
  <2>1. 0 \in Time
    BY TimeAssumption DEF Time
  <2> QED BY <2>1 DEF TrackInv
<1> HIDE DEF s
<1>4. ASSUME NEW n \in 0 .. Len(keyed) - 1, NEW x, TrackInv(c, rows, n, x)
      PROVE  TrackInv(c, rows, n + 1, TrackOp(c, x, rows[n + 1]))
  <2>1. rows[n + 1].upd \in Time /\ rows[n + 1].exp \in Time
    BY <1>2
  <2> HIDE DEF c, rows
  <2> QED BY <1>4, <2>1 DEF TrackInv, TrackOp, Track
<1>5. TrackInv(c, rows, Len(keyed), Tracks!Fold(c, c, rows))
  <2> HIDE DEF c, rows
  <2> QED BY <1>2, <1>3, <1>4, Tracks!FoldInvariant
<1>6. TrackInv(c, rows, Len(keyed), s)
  BY <1>1, <1>5
<1> QED BY <1>6 DEF TrackInv, s

LEMMA NewColumnsOK ==
    ASSUME NEW dicts, \A d \in Dims : DictOK(dicts[d]), NEW keyed, EntriesOK(dicts, keyed)
    PROVE  SnapOK(NewColumns(dicts, keyed)) /\ NewColumns(dicts, keyed).dicts = dicts
<1> DEFINE s == NewColumns(dicts, keyed)
<1>1. keyed \in Seq(Entry)
  BY DEF EntriesOK
<1>2. /\ s.dicts = dicts /\ s.shifts = computeShifts(dicts)
      /\ s.rows = [i \in DOMAIN keyed |-> keyed[i].row]
      /\ s.keys = [i \in DOMAIN keyed |-> keyed[i].key]
  BY <1>1, NewColumnsHas
<1> HIDE DEF s
<1>3. /\ DOMAIN keyed = 1 .. Len(keyed) /\ Len(keyed) \in Nat
      /\ \A i \in DOMAIN keyed : keyed[i] \in Entry
  BY <1>1
<1>4. s.rows \in Seq(ColRow) /\ s.keys \in Seq(Nat) /\ Len(s.keys) = Len(s.rows)
      /\ DOMAIN s.rows = DOMAIN keyed
  BY <1>2, <1>3 DEF Entry
<1>5. \A r \in DOMAIN keyed : s.rows[r] = keyed[r].row /\ s.keys[r] = keyed[r].key
  BY <1>2
<1>6. \A r \in DOMAIN s.rows : s.keys[r] = packKey(s.shifts, s.rows[r].ids) /\ IdsIn(s.dicts, s.rows[r].ids)
  BY <1>2, <1>4, <1>5 DEF EntriesOK
<1>7. \A q, r \in DOMAIN s.rows : q <= r => s.keys[q] <= s.keys[r]
  BY <1>4, <1>5 DEF EntriesOK, KeysAscend
<1>8. \A q, r \in DOMAIN s.rows : q # r => s.rows[q].ids # s.rows[r].ids
  BY <1>4, <1>5 DEF EntriesOK, IdsDiffer
<1> QED BY <1>2, <1>4, <1>6, <1>7, <1>8 DEF SnapOK, s

\* At the places of S, s has entries of X whose keys ascend and whose ids differ.
Pickable(s, S, n, X) ==
    /\ DOMAIN s = 1 .. n
    /\ \A i \in S \cap (1 .. n) : s[i] \in X /\ s[i].key \in Int
    /\ \A i, j \in S \cap (1 .. n) :
          i < j => s[i].key <= s[j].key /\ s[i].row.ids # s[j].row.ids

EntriesPicked(s, S, n, X, t) ==
    /\ t \in Seq(X) /\ KeysAscend(t) /\ IdsDiffer(t)
    /\ \A x \in DOMAIN t : \E i \in S \cap (1 .. n) : t[x] = s[i]
    /\ \A i \in S \cap (1 .. n) : \E x \in DOMAIN t : t[x] = s[i]

LEMMA PickEntries ==
    ASSUME NEW n \in Nat, NEW s, NEW S, NEW X, Pickable(s, S, n, X)
    PROVE  EntriesPicked(s, S, n, X, Pick(s, S))
<1>0. /\ DOMAIN s = 1 .. n
      /\ \A i \in S \cap (1 .. n) : s[i] \in X /\ s[i].key \in Int
      /\ \A i, j \in S \cap (1 .. n) :
            i < j => s[i].key <= s[j].key /\ s[i].row.ids # s[j].row.ids
  BY DEF Pickable
<1> DEFINE t == Pick(s, S)
<1>1. t \in Seq(Range(s))
  BY <1>0, PickOrder
<1>2. PICK at : Picked(at, s, S, n, t)
  BY <1>0, PickOrder
<1> HIDE DEF t
<1>3. /\ DOMAIN t = 1 .. Len(t) /\ Len(t) \in Nat
      /\ \A x \in DOMAIN t : at[x] \in S \cap (1 .. n) /\ t[x] = s[at[x]]
      /\ \A x, y \in DOMAIN t : x < y => at[x] < at[y]
      /\ \A i \in S \cap (1 .. n) : \E x \in DOMAIN t : at[x] = i
  BY <1>0, <1>1, <1>2 DEF Picked
<1>4. \A x \in DOMAIN t : t[x] \in X
  BY <1>0, <1>3
<1>5. t \in Seq(X)
  BY <1>1, <1>3, <1>4
<1>6. KeysAscend(t)
  <2>1. SUFFICES ASSUME NEW x \in DOMAIN t, NEW y \in DOMAIN t, x <= y
                 PROVE  t[x].key <= t[y].key
    BY DEF KeysAscend
  <2>2. CASE x < y
    BY <2>2, <1>0, <1>3
  <2>3. CASE x = y
    BY <2>3, <1>0, <1>3
  <2> QED BY <2>1, <2>2, <2>3, <1>3
<1>7. IdsDiffer(t)
  <2>1. SUFFICES ASSUME NEW x \in DOMAIN t, NEW y \in DOMAIN t, x # y
                 PROVE  t[x].row.ids # t[y].row.ids
    BY DEF IdsDiffer
  <2>2. CASE x < y
    BY <2>2, <1>0, <1>3
  <2>3. CASE y < x
    BY <2>3, <1>0, <1>3
  <2> QED BY <2>1, <2>2, <2>3, <1>3
<1>8. \A x \in DOMAIN t : \E i \in S \cap (1 .. n) : t[x] = s[i]
  BY <1>3
<1>9. ASSUME NEW i \in S \cap (1 .. n) PROVE \E x \in DOMAIN t : t[x] = s[i]
  BY <1>3
<1> QED BY <1>5, <1>6, <1>7, <1>8, <1>9 DEF EntriesPicked, t

-----------------------------------------------------------------------------
(* The bits of a key: the sum over the index dimensions, as a set and in      *)
(* their order.                                                               *)

\* A sum without one of its summands.
LEMMA SumWithout ==
    ASSUME NEW N \in Nat, NEW s, NEW t, DOMAIN s = 1 .. N, DOMAIN t = 1 .. N, NEW j \in 1 .. N,
           \A i \in 1 .. N : s[i] \in Int, t[j] = 0, \A i \in 1 .. N : i # j => t[i] = s[i]
    PROVE  SumSeq(s) = s[j] + SumSeq(t)
<1> DEFINE a == Sums!RunOf(0, 0, s, N)
           b == Sums!RunOf(0, 0, t, N)
<1>1. Sums!IsRun(a, 0, 0, s, N) /\ Sums!Fold(0, 0, s) = a[N]
  BY Sums!FoldRun
<1>2. Sums!IsRun(b, 0, 0, t, N) /\ Sums!Fold(0, 0, t) = b[N]
  BY Sums!FoldRun
<1> HIDE DEF a, b
<1>3. /\ a[0] = 0 /\ b[0] = 0
      /\ \A n \in 0 .. N - 1 : a[n + 1] = a[n] + s[n + 1]
      /\ \A n \in 0 .. N - 1 : b[n + 1] = b[n] + t[n + 1]
  BY <1>1, <1>2 DEF Sums!IsRun, AddOp
<1> DEFINE T == {n \in 0 .. N : ~(b[n] \in Int /\ a[n] = IF n < j THEN b[n] ELSE s[j] + b[n])}
<1>4. ASSUME T # {} PROVE FALSE
  <2>1. PICK n \in T : \A k \in T : n <= k
    <3>1. T \in SUBSET Nat
      OBVIOUS
    <3> HIDE DEF T
    <3> QED BY <1>4, <3>1, LeastNatural
  <2>2. n \in 0 .. N /\ ~(b[n] \in Int /\ a[n] = IF n < j THEN b[n] ELSE s[j] + b[n])
    OBVIOUS
  <2>3. n # 0
    BY <1>3, <2>2
  <2> DEFINE m == n - 1
  <2>4. m \in 0 .. N - 1 /\ m + 1 = n /\ m \notin T /\ m \in 0 .. N
    BY <2>1, <2>2, <2>3
  <2>5. b[m] \in Int /\ a[m] = IF m < j THEN b[m] ELSE s[j] + b[m]
    BY <2>4
  <2> HIDE DEF m, T
  <2>6. b[n] = b[m] + t[n] /\ a[n] = a[m] + s[n]
    BY <1>3, <2>4
  <2>7. s[n] \in Int /\ s[j] \in Int /\ n \in 1 .. N
    BY <2>2, <2>3
  <2>8. CASE n < j
    <3>1. t[n] = s[n] /\ m < j
      BY <2>4, <2>7, <2>8
    <3> QED BY <2>2, <2>5, <2>6, <2>7, <2>8, <3>1
  <2>9. CASE n = j
    <3>1. t[n] = 0 /\ m < j
      BY <2>4, <2>7, <2>9
    <3> QED BY <2>2, <2>5, <2>6, <2>7, <2>9, <3>1
  <2>10. CASE n > j
    <3>1. t[n] = s[n] /\ ~(m < j)
      BY <2>4, <2>7, <2>10
    <3> QED BY <2>2, <2>5, <2>6, <2>7, <2>10, <3>1
  <2> QED BY <2>7, <2>8, <2>9, <2>10
<1>5. a[N] = s[j] + b[N]
  <2>1. N \notin T
    BY <1>4
  <2> QED BY <2>1
<1> QED BY <1>1, <1>2, <1>5, SumSeqFold

LEMMA SumOfZeros ==
    ASSUME NEW N \in Nat, NEW s, DOMAIN s = 1 .. N, \A i \in 1 .. N : s[i] = 0
    PROVE  SumSeq(s) = 0
<1> DEFINE a == Sums!RunOf(0, 0, s, N)
<1>1. Sums!IsRun(a, 0, 0, s, N) /\ Sums!Fold(0, 0, s) = a[N]
  BY Sums!FoldRun
<1> HIDE DEF a
<1>2. a[0] = 0 /\ \A n \in 0 .. N - 1 : a[n + 1] = a[n] + s[n + 1]
  BY <1>1 DEF Sums!IsRun, AddOp
<1> DEFINE T == {n \in 0 .. N : a[n] # 0}
<1>3. ASSUME T # {} PROVE FALSE
  <2>1. PICK n \in T : \A k \in T : n <= k
    <3>1. T \in SUBSET Nat
      OBVIOUS
    <3> HIDE DEF T
    <3> QED BY <1>3, <3>1, LeastNatural
  <2>2. n # 0
    BY <1>2, <2>1
  <2>3. n - 1 \in 0 .. N - 1 /\ (n - 1) + 1 = n /\ n - 1 \notin T
    BY <2>1, <2>2
  <2>4. a[n - 1] = 0 /\ s[n] = 0
    BY <2>3
  <2>5. a[n] = a[n - 1] + s[n]
    BY <1>2, <2>3
  <2> QED BY <2>1, <2>4, <2>5
<1>4. a[N] = 0
  BY <1>3
<1> QED BY <1>1, <1>4, SumSeqFold

\* The widths of the index dimensions in S, in order.
WidthsIn(dicts, S) ==
    [i \in Prefix |-> IF DimOrder[i] \in S THEN dictBits(Cardinality(dicts[DimOrder[i]])) ELSE 0]

LEMMA IndexOrder ==
    /\ \A i, j \in Prefix : DimOrder[i] = DimOrder[j] => i = j
    /\ \A d \in IndexDims : \E i \in Prefix : DimOrder[i] = d
<1> DEFINE n == Cardinality(IndexDims)
           f == [i \in 1 .. n |-> DimOrder[i]]
<1>1. IsFiniteSet(IndexDims) /\ n \in Nat
  BY SchemaAssumption, OrderAssumption, FS_Subset, FS_CardinalityType
<1>2. {DimOrder[i] : i \in 1 .. n} = IndexDims
  BY OrderAssumption
<1>3. f \in Surjection(1 .. n, IndexDims)
  BY <1>2 DEF Surjection
<1>4. IsFiniteSet(1 .. n) /\ Cardinality(1 .. n) = n
  BY <1>1, FS_Interval
<1> HIDE DEF f, n
<1>5. f \in Injection(1 .. n, IndexDims)
  BY <1>3, <1>4, FS_SurjSameCardinalityImpliesInj DEF n
<1>6. \A i, j \in 1 .. n : f[i] = f[j] => i = j
  BY <1>5 DEF Injection, IsInjective
<1>7. \A i \in 1 .. n : f[i] = DimOrder[i]
  BY DEF f
<1>8. Prefix = 1 .. n
  BY DEF Prefix, n
<1> QED BY <1>2, <1>6, <1>7, <1>8

LEMMA WidthsInStep ==
    ASSUME NEW dicts, \A d \in IndexDims : dictBits(Cardinality(dicts[d])) \in Nat,
           NEW S \in SUBSET IndexDims, NEW x \in S
    PROVE  SumSeq(WidthsIn(dicts, S))
           = dictBits(Cardinality(dicts[x])) + SumSeq(WidthsIn(dicts, S \ {x}))
<1> DEFINE s == WidthsIn(dicts, S)
           t == WidthsIn(dicts, S \ {x})
           N == Cardinality(IndexDims)
<1>1. N \in Nat /\ Prefix = 1 .. N /\ \A i \in Prefix : DimOrder[i] \in IndexDims
  BY PrefixIs
<1>2. PICK j \in Prefix : DimOrder[j] = x
  BY IndexOrder
<1>3. \A i \in Prefix : i # j => DimOrder[i] # x
  BY <1>2, IndexOrder
<1>4. DOMAIN s = 1 .. N /\ DOMAIN t = 1 .. N
  BY <1>1 DEF WidthsIn
<1>5. ASSUME NEW i \in 1 .. N
      PROVE  s[i] \in Nat /\ (i # j => t[i] = s[i])
  BY <1>1, <1>3 DEF WidthsIn
<1>6. t[j] = 0 /\ s[j] = dictBits(Cardinality(dicts[x]))
  BY <1>2 DEF WidthsIn
<1> HIDE DEF s, t, N
<1>7. SumSeq(s) = s[j] + SumSeq(t)
  BY <1>1, <1>2, <1>4, <1>5, <1>6, SumWithout
<1> QED BY <1>6, <1>7 DEF s, t

\* The order in which a sum takes the dimensions does not matter.
LEMMA KeyBitsSum ==
    ASSUME NEW dicts, \A d \in IndexDims : dictBits(Cardinality(dicts[d])) \in Nat
    PROVE  keyBits(dicts) = SumSeq(WidthsIn(dicts, IndexDims))
<1> DEFINE g == TheBits(dicts)
           h == [S \in SUBSET IndexDims |-> SumSeq(WidthsIn(dicts, S))]
           N == Cardinality(IndexDims)
<1>1. N \in Nat /\ Prefix = 1 .. N
  BY PrefixIs
<1>2. h[{}] = 0
  <2>1. DOMAIN WidthsIn(dicts, {}) = 1 .. N /\ \A i \in 1 .. N : WidthsIn(dicts, {})[i] = 0
    BY <1>1 DEF WidthsIn
  <2>2. SumSeq(WidthsIn(dicts, {})) = 0
    <3> DEFINE z == WidthsIn(dicts, {})
    <3> HIDE DEF z, N
    <3>1. DOMAIN z = 1 .. N /\ \A i \in 1 .. N : z[i] = 0
      BY <2>1 DEF z, N
    <3>2. SumSeq(z) = 0
      BY <1>1, <3>1, SumOfZeros
    <3> QED BY <3>2 DEF z
  <2> QED BY <2>2
<1>3. ASSUME NEW S \in SUBSET IndexDims, S # {}
      PROVE  LET x == CHOOSE y \in S : TRUE IN x \in S /\ h[S] = dictBits(Cardinality(dicts[x])) + h[S \ {x}]
  <2> DEFINE x == CHOOSE y \in S : TRUE
  <2>1. x \in S
    BY <1>3
  <2> HIDE DEF x
  <2>2. S \ {x} \in SUBSET IndexDims
    OBVIOUS
  <2>3. h[S] = dictBits(Cardinality(dicts[x])) + h[S \ {x}]
    BY <2>1, <2>2, WidthsInStep
  <2> QED BY <2>1, <2>3 DEF x
<1>4. h = [S \in SUBSET IndexDims |-> h[S]]
  OBVIOUS
<1>5. h[IndexDims] = SumSeq(WidthsIn(dicts, IndexDims))
  OBVIOUS
<1> HIDE DEF h
<1>6. BitsFun(h, dicts)
  <2>1. \A S \in SUBSET IndexDims :
           h[S] = IF S = {} THEN 0
                  ELSE dictBits(Cardinality(dicts[CHOOSE x \in S : TRUE])) + h[S \ {CHOOSE x \in S : TRUE}]
    BY <1>2, <1>3
  <2>2. [S \in SUBSET IndexDims |-> h[S]]
        = [s \in SUBSET IndexDims |->
             IF s = {} THEN 0
             ELSE dictBits(Cardinality(dicts[CHOOSE x \in s : TRUE])) + h[s \ {CHOOSE x \in s : TRUE}]]
    BY <2>1
  <2> QED BY <1>4, <2>2 DEF BitsFun
<1>7. BitsFun(g, dicts)
  BY <1>6 DEF TheBits
<1> HIDE DEF g
<1>8. \A S \in SUBSET IndexDims :
         g[S] = IF S = {} THEN 0
                ELSE dictBits(Cardinality(dicts[CHOOSE x \in S : TRUE])) + g[S \ {CHOOSE x \in S : TRUE}]
  BY <1>7 DEF BitsFun
<1>9. IsFiniteSet(IndexDims)
  BY SchemaAssumption, OrderAssumption, FS_Subset
<1> DEFINE T == {k \in Nat : \E S \in SUBSET IndexDims : Cardinality(S) = k /\ g[S] # h[S]}
<1>10. ASSUME T # {} PROVE FALSE
  <2>1. PICK k \in T : \A m \in T : k <= m
    <3>1. T \in SUBSET Nat
      OBVIOUS
    <3> HIDE DEF T
    <3> QED BY <1>10, <3>1, LeastNatural
  <2>2. PICK S \in SUBSET IndexDims : Cardinality(S) = k /\ g[S] # h[S]
    BY <2>1
  <2>3. S # {}
    BY <1>2, <1>8, <2>2
  <2> DEFINE x == CHOOSE y \in S : TRUE
  <2>4. x \in S /\ h[S] = dictBits(Cardinality(dicts[x])) + h[S \ {x}]
    BY <1>3, <2>3
  <2>5. g[S] = dictBits(Cardinality(dicts[x])) + g[S \ {x}]
    BY <1>8, <2>3
  <2> HIDE DEF x
  <2>6. S \ {x} \in SUBSET IndexDims /\ IsFiniteSet(S) /\ Cardinality(S) \in Nat
    BY <1>9, FS_Subset, FS_CardinalityType
  <2>7. Cardinality(S \ {x}) = k - 1 /\ IsFiniteSet(S \ {x})
    BY <2>2, <2>4, <2>6, FS_RemoveElement
  <2>8. k - 1 \in Nat
    BY <2>7, FS_CardinalityType
  <2>9. k - 1 \notin T
    BY <2>1, <2>8
  <2>10. g[S \ {x}] = h[S \ {x}]
    BY <2>6, <2>7, <2>8, <2>9
  <2> QED BY <2>2, <2>4, <2>5, <2>10
<1>11. g[IndexDims] = h[IndexDims]
  <2>1. Cardinality(IndexDims) \in Nat
    BY <1>9, FS_CardinalityType
  <2> QED BY <1>10, <2>1
<1> QED BY <1>5, <1>11, KeyBitsFun DEF g

LEMMA DictSize ==
    ASSUME NEW dict, DictOK(dict)
    PROVE  Cardinality(Range(dict)) = Len(dict)
<1> DEFINE n == Len(dict)
<1>1. n \in Nat /\ DOMAIN dict = 1 .. n /\ \A i, j \in 1 .. n : dict[i] = dict[j] => i = j
  BY DEF DictOK, IsInjective
<1>2. dict \in [1 .. n -> Range(dict)]
  <2>1. dict \in [1 .. n -> Spellings]
    BY DEF DictOK
  <2> QED BY <1>1, <2>1 DEF Range
<1>3. dict \in Bijection(1 .. n, Range(dict))
  BY <1>1, <1>2 DEF Bijection, Injection, Surjection, IsInjective, Range
<1>4. ExistsBijection(1 .. n, Range(dict))
  BY <1>3 DEF ExistsBijection
<1>5. IsFiniteSet(1 .. n) /\ Cardinality(1 .. n) = n
  BY <1>1, FS_Interval
<1> QED BY <1>4, <1>5, FS_Bijection

\* What a key costs is the same, counted on ids and on values.
LEMMA KeyBitsTotal ==
    ASSUME NEW dicts, \A d \in Dims : DictOK(dicts[d])
    PROVE  keyBits([d \in Dims |-> Range(dicts[d])]) = totalBits(dicts)
<1> DEFINE D == [d \in Dims |-> Range(dicts[d])]
<1>1. ASSUME NEW d \in Dims PROVE Cardinality(D[d]) = Len(dicts[d]) /\ dictBits(Len(dicts[d])) \in Nat
  <2>1. Cardinality(Range(dicts[d])) = Len(dicts[d])
    BY DictSize
  <2>2. Len(dicts[d]) \in Nat
    BY DEF DictOK
  <2> QED BY <2>1, <2>2, DictBits
<1> HIDE DEF D
<1>2. \A d \in IndexDims : d \in Dims
  BY SchemaAssumption
<1>3. keyBits(D) = SumSeq(WidthsIn(D, IndexDims))
  BY <1>1, <1>2, KeyBitsSum
<1>4. WidthsIn(D, IndexDims) = [i \in Prefix |-> dictWidth(dicts, i)]
  <2>1. ASSUME NEW i \in Prefix
        PROVE  (IF DimOrder[i] \in IndexDims THEN dictBits(Cardinality(D[DimOrder[i]])) ELSE 0) = dictWidth(dicts, i)
    <3>1. DimOrder[i] \in IndexDims /\ DimOrder[i] \in Dims
      BY PrefixIs
    <3> QED BY <1>1, <3>1 DEF dictWidth
  <2> QED BY <2>1 DEF WidthsIn
<1> QED BY <1>3, <1>4 DEF totalBits, D

-----------------------------------------------------------------------------
(* Merges.                                                                    *)

\* The delta has one row per tuple and overrides the base rows of its tuples.
DeltaRowsOK(v) ==
    /\ v.delta.rows \in Seq(ColRow)
    /\ \A q \in DOMAIN v.delta.rows, d \in Dims : v.delta.rows[q].ids[d] < idSpace(v, d)
    /\ \A q, r \in DOMAIN v.delta.rows : q # r => v.delta.rows[q].ids # v.delta.rows[r].ids

OverridesOK(v) ==
    v.overridden = {r \in DOMAIN v.base.rows :
                       \E q \in DOMAIN v.delta.rows : v.delta.rows[q].ids = v.base.rows[r].ids}

RepOK(v) ==
    /\ SnapOK(v.base)
    /\ \A d \in Dims : DictPair(v, d)
    /\ DeltaRowsOK(v) /\ OverridesOK(v)

\* The rows of a view a merge keeps.
KeptRow(v, cutoff, now) ==
    {v.base.rows[r] : r \in KeptBase(v, cutoff, now)} \cup {v.delta.rows[r] : r \in KeptDelta(v, cutoff, now)}

LEMMA BaseRowsHave ==
    ASSUME NEW v, RepOK(v)
    PROVE  /\ \A r \in DOMAIN v.base.rows : v.base.rows[r] \in ColRow /\ IdsIn(v.base.dicts, v.base.rows[r].ids)
           /\ \A q \in DOMAIN v.delta.rows : v.delta.rows[q] \in ColRow
           /\ DOMAIN v.base.rows = 1 .. Len(v.base.rows) /\ Len(v.base.rows) \in Nat
           /\ DOMAIN v.delta.rows = 1 .. Len(v.delta.rows) /\ Len(v.delta.rows) \in Nat
BY DEF RepOK, SnapOK, DeltaRowsOK

\* Every id of a row is one of the view's.
LEMMA RowIds ==
    ASSUME NEW v, RepOK(v), NEW d \in Dims
    PROVE  /\ \A r \in DOMAIN v.base.rows : v.base.rows[r].ids[d] \in 0 .. idSpace(v, d) - 1
           /\ \A q \in DOMAIN v.delta.rows : v.delta.rows[q].ids[d] \in 0 .. idSpace(v, d) - 1
<1>1. DictPair(v, d)
  BY DEF RepOK
<1>2. idSpace(v, d) \in Nat /\ Len(v.base.dicts[d]) \in 0 .. idSpace(v, d)
  BY <1>1, DimStrings
<1>3. \A r \in DOMAIN v.base.rows : v.base.rows[r].ids[d] \in Nat /\ v.base.rows[r].ids[d] < Len(v.base.dicts[d])
  BY BaseRowsHave DEF ColRow, IdsIn
<1>4. \A q \in DOMAIN v.delta.rows : v.delta.rows[q].ids[d] \in Nat /\ v.delta.rows[q].ids[d] < idSpace(v, d)
  <2>1. \A q \in DOMAIN v.delta.rows : v.delta.rows[q].ids[d] \in Nat
    BY BaseRowsHave DEF ColRow
  <2>2. \A q \in DOMAIN v.delta.rows : v.delta.rows[q].ids[d] < idSpace(v, d)
    BY DEF RepOK, DeltaRowsOK
  <2> QED BY <2>1, <2>2
<1> QED BY <1>2, <1>3, <1>4

\* Old ids have new ones, of the same value and in the same order.
Renumbers(v, d, ids, map, dict) ==
    /\ DictOK(dict)
    /\ \A id \in 0 .. idSpace(v, d) - 1 : map[id] \in Nat
    /\ \A id \in ids : map[id] < Len(dict) /\ dict[map[id] + 1] = dimString(v, d, id)
    /\ \A x, y \in ids : x < y => map[x] < map[y]

LEMMA RemapIs ==
    ASSUME NEW v, RepOK(v), NEW cutoff, NEW now, NEW renumber \in BOOLEAN, NEW d \in Dims
    PROVE  LET dicts == mergedDicts(v, cutoff, now, renumber)
           IN  Renumbers(v, d, used(v, cutoff, now, d), remap(v, cutoff, now, renumber, dicts)[d], dicts[d])
<1> DEFINE dicts == mergedDicts(v, cutoff, now, renumber)
           D == dicts[d]
           U == used(v, cutoff, now, d)
           m == remap(v, cutoff, now, renumber, dicts)[d]
           N == idSpace(v, d)
<1>0. DictPair(v, d)
  BY DEF RepOK
<1>1. /\ N \in Nat
      /\ \A x, y \in 0 .. N - 1 : dimString(v, d, x) = dimString(v, d, y) => x = y
  BY <1>0, DimStrings
<1>2. U \subseteq 0 .. N - 1
  BY RowIds DEF used, KeptBase, KeptDelta
<1>3. m = [id \in 0 .. N - 1 |-> IF ~renumber THEN id ELSE IF id \notin U THEN 0
                                 ELSE CHOOSE new \in lookup(D, dimString(v, d, id)) : TRUE]
  BY DEF remap
<1>4. D = IF renumber THEN Compacted(v, U, d) ELSE Extended(v, d)
  BY DEF mergedDicts
<1> HIDE DEF m, D, U, N, dicts
<1>5. CASE ~renumber
  <2>1. ExtendState(v, d, N, D)
    BY <1>0, <1>4, <1>5, ExtendedIs DEF N
  <2>2. \A id \in 0 .. N - 1 : m[id] = id
    BY <1>3, <1>5
  <2> QED BY <1>1, <1>2, <2>1, <2>2 DEF Renumbers, ExtendState, N, m, D, U, dicts
<1>6. CASE renumber
  <2>1. CompactState(v, U, d, N, D)
    BY <1>0, <1>4, <1>6, CompactedIs DEF N
  <2>2. DictOK(D) /\ DOMAIN D = 1 .. Len(D) /\ Len(D) \in Nat
    BY <2>1 DEF CompactState, DictOK
  <2>3. ASSUME NEW id \in U PROVE m[id] \in 0 .. Len(D) - 1 /\ D[m[id] + 1] = dimString(v, d, id)
    <3>1. dimString(v, d, id) \in Range(D)
      BY <1>2, <2>1 DEF CompactState
    <3>2. lookup(D, dimString(v, d, id)) # {}
      BY <2>2, <3>1, LookupIs
    <3>3. m[id] \in lookup(D, dimString(v, d, id))
      BY <1>2, <1>3, <1>6, <3>2
    <3> QED BY <2>2, <3>3, LookupIs
  <2>4. ASSUME NEW x \in U, NEW y \in U, x < y PROVE m[x] < m[y]
    <3>1. m[x] + 1 \in DOMAIN D /\ m[y] + 1 \in DOMAIN D /\ m[x] \in Int /\ m[y] \in Int
      BY <2>2, <2>3
    <3>2. D[m[x] + 1] = dimString(v, d, x) /\ D[m[y] + 1] = dimString(v, d, y)
      BY <2>3
    <3>3. x \in 0 .. N - 1 /\ y \in 0 .. N - 1 /\ x # y
      BY <1>2, <2>4
    <3>4. m[x] # m[y]
      BY <1>1, <3>2, <3>3
    <3>5. ~(m[y] + 1 < m[x] + 1)
      <4>1. m[y] + 1 < m[x] + 1 => y < x
        BY <2>1, <3>1, <3>2, <3>3 DEF CompactState, N
      <4> QED BY <4>1, <2>4, <3>3
    <3> QED BY <3>1, <3>4, <3>5
  <2>5. \A id \in 0 .. N - 1 : m[id] \in Nat
    <3>1. ASSUME NEW id \in 0 .. N - 1 PROVE m[id] \in Nat
      <4>1. CASE id \in U
        BY <4>1, <2>2, <2>3
      <4>2. CASE id \notin U
        BY <4>2, <1>3, <1>6
      <4> QED BY <4>1, <4>2
    <3> QED BY <3>1
  <2>6. \A id \in U : m[id] < Len(D) /\ D[m[id] + 1] = dimString(v, d, id)
    BY <2>2, <2>3
  <2> QED BY <2>2, <2>4, <2>5, <2>6 DEF Renumbers, N, m, D, U, dicts
<1> QED BY <1>5, <1>6

\* A row a merge keeps, under its new ids.
Renumbered(v, cutoff, now, renumber, row) ==
    mapped(remap(v, cutoff, now, renumber, mergedDicts(v, cutoff, now, renumber)), row)

\* new is row under its new ids, of the same values.
IsRenumbered(v, cutoff, now, map, dicts, row, new) ==
    /\ row \in ColRow /\ new \in ColRow /\ IdsIn(dicts, new.ids)
    /\ new.upd = row.upd /\ new.exp = row.exp /\ new.met = row.met
    /\ \A d \in Dims : /\ row.ids[d] \in used(v, cutoff, now, d)
                       /\ new.ids[d] = map[d][row.ids[d]]
                       /\ dicts[d][new.ids[d] + 1] = dimString(v, d, row.ids[d])

LEMMA RenumberedRow ==
    ASSUME NEW v, RepOK(v), NEW cutoff, NEW now, NEW renumber \in BOOLEAN,
           NEW row \in KeptRow(v, cutoff, now)
    PROVE  LET dicts == mergedDicts(v, cutoff, now, renumber)
           IN  IsRenumbered(v, cutoff, now, remap(v, cutoff, now, renumber, dicts), dicts, row,
                            Renumbered(v, cutoff, now, renumber, row))
<1> DEFINE dicts == mergedDicts(v, cutoff, now, renumber)
           map == remap(v, cutoff, now, renumber, dicts)
           new == Renumbered(v, cutoff, now, renumber, row)
<1>1. row \in ColRow
  BY BaseRowsHave DEF KeptRow, KeptBase, KeptDelta
<1>2. ASSUME NEW d \in Dims PROVE row.ids[d] \in used(v, cutoff, now, d)
  BY DEF KeptRow, used
<1>3. ASSUME NEW d \in Dims PROVE row.ids[d] \in 0 .. idSpace(v, d) - 1
  BY RowIds DEF KeptRow, KeptBase, KeptDelta
<1>4. new = [row EXCEPT !.ids = [d \in Dims |-> map[d][row.ids[d]]]]
  BY DEF Renumbered, mapped
<1> HIDE DEF new, map, dicts
<1>5. /\ new.ids = [d \in Dims |-> map[d][row.ids[d]]]
      /\ new.upd = row.upd /\ new.exp = row.exp /\ new.met = row.met
  BY <1>1, <1>4 DEF ColRow
<1>6. ASSUME NEW d \in Dims
      PROVE  /\ new.ids[d] = map[d][row.ids[d]] /\ new.ids[d] \in Nat /\ new.ids[d] < Len(dicts[d])
             /\ dicts[d][new.ids[d] + 1] = dimString(v, d, row.ids[d])
  <2>1. Renumbers(v, d, used(v, cutoff, now, d), map[d], dicts[d])
    BY RemapIs DEF map, dicts
  <2>2. new.ids[d] = map[d][row.ids[d]]
    BY <1>5
  <2> QED BY <1>2, <1>3, <2>1, <2>2 DEF Renumbers
<1>7. new \in ColRow
  <2>1. new.ids \in [Dims -> Nat]
    BY <1>5, <1>6
  <2> HIDE DEF new
  <2> QED BY <1>1, <1>4, <1>5, <2>1 DEF ColRow
<1>8. IdsIn(dicts, new.ids)
  BY <1>6 DEF IdsIn
<1> QED BY <1>1, <1>2, <1>5, <1>6, <1>7, <1>8 DEF IsRenumbered, new, map, dicts

LEMMA RenumberedOrder ==
    ASSUME NEW v, RepOK(v), NEW cutoff, NEW now, NEW renumber \in BOOLEAN,
           NEW a \in KeptRow(v, cutoff, now), NEW b \in KeptRow(v, cutoff, now)
    PROVE  LET x == Renumbered(v, cutoff, now, renumber, a)
               y == Renumbered(v, cutoff, now, renumber, b)
           IN  /\ SameOrder(a.ids, b.ids, x.ids, y.ids)
               /\ a.ids # b.ids => x.ids # y.ids
<1> DEFINE dicts == mergedDicts(v, cutoff, now, renumber)
           map == remap(v, cutoff, now, renumber, dicts)
           x == Renumbered(v, cutoff, now, renumber, a)
           y == Renumbered(v, cutoff, now, renumber, b)
<1>1. a \in ColRow /\ \A d \in Dims : a.ids[d] \in used(v, cutoff, now, d) /\ x.ids[d] = map[d][a.ids[d]]
  <2>1. IsRenumbered(v, cutoff, now, map, dicts, a, x)
    BY RenumberedRow
  <2> HIDE DEF x, map, dicts
  <2> QED BY <2>1 DEF IsRenumbered
<1>2. b \in ColRow /\ \A d \in Dims : b.ids[d] \in used(v, cutoff, now, d) /\ y.ids[d] = map[d][b.ids[d]]
  <2>1. IsRenumbered(v, cutoff, now, map, dicts, b, y)
    BY RenumberedRow
  <2> HIDE DEF y, map, dicts
  <2> QED BY <2>1 DEF IsRenumbered
<1>a. x \in ColRow /\ y \in ColRow
  BY RenumberedRow DEF IsRenumbered
<1> HIDE DEF x, y, map, dicts
<1>3. ASSUME NEW d \in Dims
      PROVE  /\ a.ids[d] < b.ids[d] => x.ids[d] < y.ids[d]
             /\ a.ids[d] = b.ids[d] => x.ids[d] = y.ids[d]
             /\ b.ids[d] < a.ids[d] => y.ids[d] < x.ids[d]
             /\ a.ids[d] \in Nat /\ b.ids[d] \in Nat /\ x.ids[d] \in Nat /\ y.ids[d] \in Nat
  <2>1. Renumbers(v, d, used(v, cutoff, now, d), map[d], dicts[d])
    BY RemapIs DEF map, dicts
  <2>2. a.ids[d] \in Nat /\ b.ids[d] \in Nat /\ x.ids[d] \in Nat /\ y.ids[d] \in Nat
    BY <1>1, <1>2, <1>a DEF ColRow
  <2> QED BY <1>1, <1>2, <2>1, <2>2 DEF Renumbers
<1>4. SameOrder(a.ids, b.ids, x.ids, y.ids)
  BY <1>3, PrefixIs DEF SameOrder
<1>5. ASSUME a.ids # b.ids PROVE x.ids # y.ids
  <2>1. a.ids \in [Dims -> Nat] /\ b.ids \in [Dims -> Nat]
    BY <1>1, <1>2 DEF ColRow
  <2>2. PICK d \in Dims : a.ids[d] # b.ids[d]
    BY <1>5, <2>1
  <2>3. a.ids[d] < b.ids[d] \/ b.ids[d] < a.ids[d]
    BY <1>3, <2>2
  <2>4. x.ids[d] # y.ids[d]
    BY <1>3, <2>3
  <2> QED BY <2>4
<1> QED BY <1>4, <1>5 DEF x, y

\* The entries of a snapshot with these dictionaries.
EntryOf(dicts) ==
    {e \in Entry : e.key = packKey(computeShifts(dicts), e.row.ids) /\ IdsIn(dicts, e.row.ids)}

LEMMA EntryIs ==
    ASSUME NEW dicts, \A d \in Dims : DictOK(dicts[d]), NEW row \in ColRow
    PROVE  /\ entry(computeShifts(dicts), row) \in Entry
           /\ entry(computeShifts(dicts), row).row = row
           /\ IdsIn(dicts, row.ids) => entry(computeShifts(dicts), row) \in EntryOf(dicts)
<1>1. WidthsOf(dicts)
  BY DEF WidthsOf, DictOK
<1>2. \A d \in Dims : row.ids[d] \in Nat
  BY DEF ColRow
<1>3. packKey(computeShifts(dicts), row.ids) \in Nat
  BY <1>1, <1>2, KeyNat
<1> QED BY <1>3 DEF entry, Entry, EntryOf

\* What a merge makes of the base row r: its old key is its new one when keys
\* are carried over.
LEMMA BaseEntryIs ==
    ASSUME NEW v, RepOK(v), NEW cutoff, NEW now, NEW renumber \in BOOLEAN,
           NEW r \in KeptBase(v, cutoff, now)
    PROVE  LET dicts == mergedDicts(v, cutoff, now, renumber)
               map == remap(v, cutoff, now, renumber, dicts)
           IN  baseEntry(v, computeShifts(dicts), map, renumber, r)
               = entry(computeShifts(dicts), Renumbered(v, cutoff, now, renumber, v.base.rows[r]))
<1> DEFINE dicts == mergedDicts(v, cutoff, now, renumber)
           map == remap(v, cutoff, now, renumber, dicts)
           row == v.base.rows[r]
           new == Renumbered(v, cutoff, now, renumber, row)
           sh == computeShifts(dicts)
<1>1. row \in KeptRow(v, cutoff, now) /\ r \in DOMAIN v.base.rows
  BY DEF KeptRow, KeptBase
<1>2. new = mapped(map, row)
  BY DEF Renumbered
<1>3. IsRenumbered(v, cutoff, now, map, dicts, row, new)
  BY <1>1, RenumberedRow
<1>4. v.base.keys[r] = packKey(v.base.shifts, row.ids)
  BY <1>1 DEF RepOK, SnapOK
<1>5. CASE keysStable(v.base, sh, renumber)
  <2>1. sh = v.base.shifts /\ ~renumber
    BY <1>5 DEF keysStable
  <2>2. \A d \in Dims : map[d][row.ids[d]] = row.ids[d]
    <3>1. \A d \in Dims : row.ids[d] \in 0 .. idSpace(v, d) - 1
      BY <1>1, RowIds
    <3> HIDE DEF row
    <3> QED BY <3>1, <2>1 DEF remap
  <2> HIDE DEF new, map, dicts, row, sh
  <2>3. new.ids = row.ids
    <3>1. new.ids \in [Dims -> Nat] /\ row.ids \in [Dims -> Nat]
      BY <1>3 DEF IsRenumbered, ColRow
    <3>2. \A d \in Dims : new.ids[d] = row.ids[d]
      BY <1>3, <2>2 DEF IsRenumbered
    <3> QED BY <3>1, <3>2
  <2>4. new = row
    BY <1>3, <2>3 DEF IsRenumbered, ColRow
  <2>5. baseEntry(v, sh, map, renumber, r) = [key |-> v.base.keys[r], row |-> row]
    BY <1>5 DEF baseEntry, row
  <2> QED BY <1>4, <2>1, <2>4, <2>5 DEF entry, new, map, dicts, row, sh
<1>6. CASE ~keysStable(v.base, sh, renumber)
  BY <1>2, <1>6 DEF baseEntry
<1> QED BY <1>5, <1>6

LEMMA RenumberedEntry ==
    ASSUME NEW v, RepOK(v), NEW cutoff, NEW now, NEW renumber \in BOOLEAN,
           NEW row \in KeptRow(v, cutoff, now)
    PROVE  LET dicts == mergedDicts(v, cutoff, now, renumber)
               e == entry(computeShifts(dicts), Renumbered(v, cutoff, now, renumber, row))
           IN  /\ e \in EntryOf(dicts) /\ e.key \in Int
               /\ e.row = Renumbered(v, cutoff, now, renumber, row)
<1> DEFINE dicts == mergedDicts(v, cutoff, now, renumber)
           map == remap(v, cutoff, now, renumber, dicts)
           new == Renumbered(v, cutoff, now, renumber, row)
<1>1. \A d \in Dims : DictOK(dicts[d])
  BY RemapIs DEF Renumbers
<1>2. IsRenumbered(v, cutoff, now, map, dicts, row, new)
  BY RenumberedRow
<1> HIDE DEF dicts, map, new
<1>3. new \in ColRow /\ IdsIn(dicts, new.ids)
  BY <1>2 DEF IsRenumbered
<1>4. /\ entry(computeShifts(dicts), new) \in Entry
      /\ entry(computeShifts(dicts), new).row = new
      /\ entry(computeShifts(dicts), new) \in EntryOf(dicts)
  BY <1>1, <1>3, EntryIs
<1>5. entry(computeShifts(dicts), new).key \in Int
  BY <1>4 DEF Entry
<1> QED BY <1>4, <1>5 DEF dicts, new

\* s has the entries of the rows of R under their new ids, ascending.
SideOf(s, v, cutoff, now, renumber, R) ==
    LET dicts == mergedDicts(v, cutoff, now, renumber)
        new(row) == entry(computeShifts(dicts), Renumbered(v, cutoff, now, renumber, row))
    IN  /\ s \in Seq(EntryOf(dicts)) /\ KeysAscend(s) /\ IdsDiffer(s)
        /\ \A x \in DOMAIN s : \E row \in R : s[x] = new(row)
        /\ \A row \in R : \E x \in DOMAIN s : s[x] = new(row)

BaseKept(v, cutoff, now) == {v.base.rows[r] : r \in KeptBase(v, cutoff, now)}
DeltaKept(v, cutoff, now) == {v.delta.rows[r] : r \in KeptDelta(v, cutoff, now)}

\* The base side of the zip: renumbering keeps the order of the keys.
LEMMA BaseSide ==
    ASSUME NEW v, RepOK(v), NEW cutoff, NEW now, NEW renumber \in BOOLEAN
    PROVE  LET dicts == mergedDicts(v, cutoff, now, renumber)
               map == remap(v, cutoff, now, renumber, dicts)
               b == [r \in DOMAIN v.base.rows |-> baseEntry(v, computeShifts(dicts), map, renumber, r)]
           IN  SideOf(Pick(b, KeptBase(v, cutoff, now)), v, cutoff, now, renumber, BaseKept(v, cutoff, now))
<1> DEFINE dicts == mergedDicts(v, cutoff, now, renumber)
           map == remap(v, cutoff, now, renumber, dicts)
           b == [r \in DOMAIN v.base.rows |-> baseEntry(v, computeShifts(dicts), map, renumber, r)]
           S == KeptBase(v, cutoff, now)
           n == Len(v.base.rows)
           row(r) == v.base.rows[r]
           ren(r) == Renumbered(v, cutoff, now, renumber, v.base.rows[r])
           new(r) == entry(computeShifts(dicts), ren(r))
<1>1. n \in Nat /\ DOMAIN b = 1 .. n /\ S \subseteq 1 .. n /\ S \cap (1 .. n) = S
  BY BaseRowsHave DEF KeptBase
<1>2. ASSUME NEW r \in S
      PROVE  /\ b[r] = new(r) /\ b[r] \in EntryOf(dicts) /\ b[r].key \in Int /\ b[r].row = ren(r)
             /\ row(r) \in KeptRow(v, cutoff, now)
  <2>1. row(r) \in KeptRow(v, cutoff, now)
    BY DEF KeptRow
  <2>2. b[r] = new(r)
    <3>1. r \in DOMAIN v.base.rows
      BY DEF KeptBase
    <3> QED BY <3>1, BaseEntryIs
  <2>3. new(r) \in EntryOf(dicts) /\ new(r).key \in Int /\ new(r).row = ren(r)
    BY <2>1, RenumberedEntry
  <2> HIDE DEF b, new
  <2> QED BY <2>1, <2>2, <2>3
<1>3. ASSUME NEW i \in S, NEW j \in S, i < j
      PROVE  b[i].key <= b[j].key /\ b[i].row.ids # b[j].row.ids
  <2>1. row(i).ids # row(j).ids /\ v.base.keys[i] <= v.base.keys[j]
    <3>1. i \in DOMAIN v.base.rows /\ j \in DOMAIN v.base.rows /\ i # j /\ i <= j
      BY <1>1, <1>3, BaseRowsHave DEF KeptBase
    <3> QED BY <3>1 DEF RepOK, SnapOK
  <2>a. row(i) \in KeptRow(v, cutoff, now) /\ row(j) \in KeptRow(v, cutoff, now)
    BY <1>2
  <2>2. SameOrder(row(i).ids, row(j).ids, ren(i).ids, ren(j).ids) /\ ren(i).ids # ren(j).ids
    BY <2>a, <2>1, RenumberedOrder
  <2>3. b[i].row.ids # b[j].row.ids
    BY <1>2, <2>2
  <2>4. \A d \in Dims : DictOK(dicts[d])
    BY RemapIs DEF Renumbers
  <2>5. WidthsOf(dicts) /\ WidthsOf(v.base.dicts)
    BY <2>4 DEF WidthsOf, DictOK, RepOK, SnapOK
  <2>6. /\ row(i) \in ColRow /\ row(j) \in ColRow
        /\ IdsIn(v.base.dicts, row(i).ids) /\ IdsIn(v.base.dicts, row(j).ids)
    BY BaseRowsHave DEF KeptBase
  <2>7. /\ ren(i) \in ColRow /\ IdsIn(dicts, ren(i).ids)
        /\ ren(j) \in ColRow /\ IdsIn(dicts, ren(j).ids)
    BY <1>2, RenumberedRow DEF IsRenumbered
  <2>8. /\ v.base.keys[i] = packKey(computeShifts(v.base.dicts), row(i).ids)
        /\ v.base.keys[j] = packKey(computeShifts(v.base.dicts), row(j).ids)
    BY DEF RepOK, SnapOK, KeptBase
  <2>9. /\ b[i].key = packKey(computeShifts(dicts), ren(i).ids)
        /\ b[j].key = packKey(computeShifts(dicts), ren(j).ids)
    <3>1. b[i] = new(i) /\ b[j] = new(j)
      BY <1>2
    <3> HIDE DEF b, ren, dicts
    <3> QED BY <3>1 DEF entry
  <2> HIDE DEF ren, b, dicts, row
  <2>10. /\ Fits(v.base.dicts, row(i).ids) /\ Fits(v.base.dicts, row(j).ids)
         /\ Fits(dicts, ren(i).ids) /\ Fits(dicts, ren(j).ids)
    <3>1. /\ row(i).ids \in [Dims -> Nat] /\ row(j).ids \in [Dims -> Nat]
          /\ ren(i).ids \in [Dims -> Nat] /\ ren(j).ids \in [Dims -> Nat]
      BY <2>6, <2>7 DEF ColRow
    <3> QED BY <3>1, <2>5, <2>6, <2>7, IdsFit
  <2>11. packKey(computeShifts(dicts), ren(i).ids) <= packKey(computeShifts(dicts), ren(j).ids)
    BY <2>1, <2>2, <2>5, <2>8, <2>10, KeyOrder
  <2> QED BY <2>3, <2>9, <2>11
<1> DEFINE s == Pick(b, S)
<1>4. /\ s \in Seq(EntryOf(dicts)) /\ KeysAscend(s) /\ IdsDiffer(s)
      /\ \A x \in DOMAIN s : \E i \in S : s[x] = b[i]
      /\ \A i \in S : \E x \in DOMAIN s : s[x] = b[i]
  <2>1. \A r \in S \cap (1 .. n) : b[r] \in EntryOf(dicts) /\ b[r].key \in Int
    BY <1>1, <1>2
  <2>2. \A i, j \in S \cap (1 .. n) : i < j => b[i].key <= b[j].key /\ b[i].row.ids # b[j].row.ids
    BY <1>1, <1>3
  <2> HIDE DEF b, S, n, dicts
  <2>3. Pickable(b, S, n, EntryOf(dicts))
    BY <1>1, <2>1, <2>2 DEF Pickable
  <2>4. EntriesPicked(b, S, n, EntryOf(dicts), s)
    BY <1>1, <2>3, PickEntries
  <2> HIDE DEF s
  <2> QED BY <1>1, <2>4 DEF EntriesPicked
<1> HIDE DEF s, b
<1>5. ASSUME NEW x \in DOMAIN s
      PROVE  \E k \in BaseKept(v, cutoff, now) :
                 s[x] = entry(computeShifts(dicts), Renumbered(v, cutoff, now, renumber, k))
  <2>1. PICK i \in S : s[x] = b[i]
    BY <1>4
  <2>2. s[x] = new(i) /\ row(i) \in BaseKept(v, cutoff, now)
    BY <1>2, <2>1 DEF BaseKept
  <2> QED BY <2>2
<1>6. ASSUME NEW k \in BaseKept(v, cutoff, now)
      PROVE  \E x \in DOMAIN s : s[x] = entry(computeShifts(dicts), Renumbered(v, cutoff, now, renumber, k))
  <2>1. PICK i \in S : k = row(i)
    BY DEF BaseKept
  <2>2. PICK x \in DOMAIN s : s[x] = b[i]
    BY <1>4
  <2> QED BY <1>2, <2>1, <2>2
<1> QED BY <1>4, <1>5, <1>6 DEF SideOf, s, b

\* The delta side of the zip, whatever the sort does with equal keys.
LEMMA DeltaSide ==
    ASSUME NEW v, RepOK(v), NEW cutoff, NEW now, NEW renumber \in BOOLEAN, NEW perm,
           LET dicts == mergedDicts(v, cutoff, now, renumber)
               map == remap(v, cutoff, now, renumber, dicts)
           IN  perm \in Sortings(Len(v.delta.rows), KeysBefore(deltaEntries(v, computeShifts(dicts), map)))
    PROVE  LET dicts == mergedDicts(v, cutoff, now, renumber)
               map == remap(v, cutoff, now, renumber, dicts)
               delta == deltaEntries(v, computeShifts(dicts), map)
               d == [i \in DOMAIN perm |-> delta[perm[i]]]
           IN  SideOf(Pick(d, {i \in DOMAIN perm : perm[i] \in KeptDelta(v, cutoff, now)}),
                      v, cutoff, now, renumber, DeltaKept(v, cutoff, now))
<1> DEFINE dicts == mergedDicts(v, cutoff, now, renumber)
           map == remap(v, cutoff, now, renumber, dicts)
           delta == deltaEntries(v, computeShifts(dicts), map)
           d == [i \in DOMAIN perm |-> delta[perm[i]]]
           K == KeptDelta(v, cutoff, now)
           S == {i \in DOMAIN perm : perm[i] \in K}
           n == Len(v.delta.rows)
           ren(r) == Renumbered(v, cutoff, now, renumber, v.delta.rows[r])
           new(r) == entry(computeShifts(dicts), ren(r))
<1>1. n \in Nat /\ DOMAIN v.delta.rows = 1 .. n /\ K \subseteq 1 .. n
  BY BaseRowsHave DEF KeptDelta
<1>2. Ordered(perm, n, KeysBefore(delta), n) /\ Range(perm) = 1 .. n
  BY <1>1, SortingsOrdered, SortingsCover
<1>3. /\ DOMAIN perm = 1 .. n /\ \A i \in 1 .. n : perm[i] \in 1 .. n
      /\ \A i, j \in 1 .. n : i < j => perm[i] # perm[j] /\ <<perm[j], perm[i]>> \notin KeysBefore(delta)
  <2> DEFINE B == KeysBefore(delta)
  <2>1. Ordered(perm, n, B, n) /\ Range(perm) = 1 .. n
    BY <1>2
  <2> HIDE DEF B, n, S, d
  <2>2. DOMAIN perm = 1 .. n /\ \A i \in 1 .. n : perm[i] \in 1 .. n
    BY <1>1, <2>1 DEF Ordered
  <2>3. \A i, j \in 1 .. n : i < j => perm[i] # perm[j] /\ <<perm[j], perm[i]>> \notin B
    BY <1>1, <2>1 DEF Ordered
  <2> QED BY <2>2, <2>3 DEF B
<1>4. DOMAIN delta = 1 .. n /\ \A r \in 1 .. n : delta[r] = new(r)
  BY <1>1 DEF deltaEntries, Renumbered
<1>5. \A r \in K : /\ new(r) \in EntryOf(dicts) /\ new(r).key \in Int /\ new(r).row = ren(r)
                   /\ v.delta.rows[r] \in KeptRow(v, cutoff, now)
                   /\ v.delta.rows[r] \in DeltaKept(v, cutoff, now)
  <2>1. SUFFICES ASSUME NEW r \in K
                 PROVE  /\ new(r) \in EntryOf(dicts) /\ new(r).key \in Int /\ new(r).row = ren(r)
                        /\ v.delta.rows[r] \in KeptRow(v, cutoff, now)
                        /\ v.delta.rows[r] \in DeltaKept(v, cutoff, now)
    OBVIOUS
  <2>2. v.delta.rows[r] \in KeptRow(v, cutoff, now) /\ v.delta.rows[r] \in DeltaKept(v, cutoff, now)
    BY DEF KeptRow, DeltaKept
  <2>3. new(r) \in EntryOf(dicts) /\ new(r).key \in Int /\ new(r).row = ren(r)
    BY <2>2, RenumberedEntry
  <2> QED BY <2>2, <2>3
<1>6. DOMAIN d = 1 .. n /\ \A i \in 1 .. n : d[i] = delta[perm[i]]
  BY <1>3
<1>7. /\ S \subseteq 1 .. n /\ \A i \in S : perm[i] \in K
      /\ \A r \in K : \E i \in S : perm[i] = r
  <2>1. S \subseteq 1 .. n /\ \A i \in S : perm[i] \in K
    BY <1>3
  <2>2. ASSUME NEW r \in K PROVE \E i \in S : perm[i] = r
    <3>1. r \in Range(perm)
      BY <1>1, <1>2
    <3>2. PICK i \in DOMAIN perm : perm[i] = r
      BY <3>1 DEF Range
    <3> QED BY <3>2
  <2> QED BY <2>1, <2>2
<1>8. ASSUME NEW i \in S, NEW j \in S, i < j
      PROVE  d[i].key <= d[j].key /\ d[i].row.ids # d[j].row.ids
  <2>1. i \in 1 .. n /\ j \in 1 .. n /\ perm[i] \in K /\ perm[j] \in K
    BY <1>7
  <2>2. perm[i] # perm[j] /\ <<perm[j], perm[i]>> \notin KeysBefore(delta)
    BY <1>3, <1>8, <2>1
  <2>3. d[i] = new(perm[i]) /\ d[j] = new(perm[j]) /\ perm[i] \in 1 .. n /\ perm[j] \in 1 .. n
    <3> HIDE DEF d, delta, new, K
    <3> QED BY <1>3, <1>4, <1>6, <2>1
  <2>4. d[i].key \in Int /\ d[j].key \in Int /\ d[i].row = ren(perm[i]) /\ d[j].row = ren(perm[j])
    <3> HIDE DEF d, new, K, ren
    <3> QED BY <1>5, <2>1, <2>3
  <2>5. ~(d[j].key < d[i].key)
    <3>1. d[i] = delta[perm[i]] /\ d[j] = delta[perm[j]]
      BY <1>6, <2>1
    <3> HIDE DEF d, delta
    <3> QED BY <1>4, <2>2, <2>3, <3>1 DEF KeysBefore
  <2>6. v.delta.rows[perm[i]].ids # v.delta.rows[perm[j]].ids
    BY <1>1, <2>1, <2>2 DEF RepOK, DeltaRowsOK
  <2>7. ren(perm[i]).ids # ren(perm[j]).ids
    <3>1. v.delta.rows[perm[i]] \in KeptRow(v, cutoff, now) /\ v.delta.rows[perm[j]] \in KeptRow(v, cutoff, now)
      BY <1>5, <2>1
    <3> HIDE DEF K
    <3> QED BY <3>1, <2>6, RenumberedOrder
  <2> HIDE DEF d, ren
  <2> QED BY <2>4, <2>5, <2>7
<1> DEFINE s == Pick(d, S)
<1> HIDE DEF delta, K
<1>9. \A i \in S : d[i] = new(perm[i])
  BY <1>3, <1>4, <1>6, <1>7
<1>10. EntriesPicked(d, S, n, EntryOf(dicts), s)
  <2> HIDE DEF d, S, n, dicts, new
  <2>1. \A r \in S \cap (1 .. n) : d[r] \in EntryOf(dicts) /\ d[r].key \in Int
    BY <1>5, <1>7, <1>9
  <2>2. \A i, j \in S \cap (1 .. n) : i < j => d[i].key <= d[j].key /\ d[i].row.ids # d[j].row.ids
    BY <1>8
  <2>3. Pickable(d, S, n, EntryOf(dicts))
    BY <1>6, <2>1, <2>2 DEF Pickable
  <2> QED BY <1>1, <2>3, PickEntries
<1> HIDE DEF s, d, S, n
<1>11. /\ s \in Seq(EntryOf(dicts)) /\ KeysAscend(s) /\ IdsDiffer(s)
       /\ \A x \in DOMAIN s : \E i \in S : s[x] = d[i]
       /\ \A i \in S : \E x \in DOMAIN s : s[x] = d[i]
  BY <1>7, <1>10 DEF EntriesPicked
<1>12. ASSUME NEW x \in DOMAIN s
       PROVE  \E k \in DeltaKept(v, cutoff, now) :
                  s[x] = entry(computeShifts(dicts), Renumbered(v, cutoff, now, renumber, k))
  <2>1. PICK i \in S : s[x] = d[i]
    BY <1>11
  <2>2. s[x] = new(perm[i]) /\ v.delta.rows[perm[i]] \in DeltaKept(v, cutoff, now)
    BY <1>5, <1>7, <1>9, <2>1
  <2> QED BY <2>2
<1>13. ASSUME NEW k \in DeltaKept(v, cutoff, now)
       PROVE  \E x \in DOMAIN s : s[x] = entry(computeShifts(dicts), Renumbered(v, cutoff, now, renumber, k))
  <2>1. PICK r \in K : k = v.delta.rows[r]
    BY DEF DeltaKept, K
  <2>2. PICK i \in S : perm[i] = r
    BY <1>7
  <2>3. PICK x \in DOMAIN s : s[x] = d[i]
    BY <1>11
  <2> QED BY <1>9, <2>1, <2>2, <2>3
<1> QED BY <1>11, <1>12, <1>13 DEF SideOf, s, d, S, delta, K

\* s is a snapshot of these rows, made of entries in order.
BuiltOf(s, dicts, rows) ==
    \E keyed : /\ EntriesOK(dicts, keyed) /\ s = NewColumns(dicts, keyed)
               /\ {keyed[i].row : i \in DOMAIN keyed} = rows

\* A merge's snapshot is in order, and has the kept rows under their new ids.
LEMMA MergedIs ==
    ASSUME NEW v, RepOK(v), NEW cutoff, NEW now, NEW renumber \in BOOLEAN,
           NEW snap \in zipMerge(v, cutoff, now, renumber)
    PROVE  BuiltOf(snap, mergedDicts(v, cutoff, now, renumber),
                   {Renumbered(v, cutoff, now, renumber, row) : row \in KeptRow(v, cutoff, now)})
<1> DEFINE dicts == mergedDicts(v, cutoff, now, renumber)
           map == remap(v, cutoff, now, renumber, dicts)
           delta == deltaEntries(v, computeShifts(dicts), map)
           X == EntryOf(dicts)
           B == BaseKept(v, cutoff, now)
           D == DeltaKept(v, cutoff, now)
           ren(row) == Renumbered(v, cutoff, now, renumber, row)
           new(row) == entry(computeShifts(dicts), ren(row))
<1>1. PICK perm \in Sortings(Len(v.delta.rows), KeysBefore(delta)) :
          snap = merged(v, cutoff, now, renumber, dicts, map, delta, perm)
  BY DEF zipMerge
<1> DEFINE ball == [r \in DOMAIN v.base.rows |-> baseEntry(v, computeShifts(dicts), map, renumber, r)]
           dall == [i \in DOMAIN perm |-> delta[perm[i]]]
           b == Pick(ball, KeptBase(v, cutoff, now))
           d == Pick(dall, {i \in DOMAIN perm : perm[i] \in KeptDelta(v, cutoff, now)})
           keyed == Zip2(b, d)
<1>2. snap = NewColumns(dicts, keyed)
  BY <1>1 DEF merged
<1>3. SideOf(b, v, cutoff, now, renumber, B)
  BY BaseSide
<1>4. SideOf(d, v, cutoff, now, renumber, D)
  BY <1>1, DeltaSide
<1>5. KeptRow(v, cutoff, now) = B \cup D
  BY DEF KeptRow, BaseKept, DeltaKept
<1>6. \A row \in B \cup D : new(row).row = ren(row)
  BY <1>5, RenumberedEntry
<1>7. ASSUME NEW x \in B, NEW y \in D PROVE ren(x).ids # ren(y).ids
  <2>1. PICK r \in KeptBase(v, cutoff, now) : x = v.base.rows[r]
    BY DEF BaseKept
  <2>2. PICK q \in KeptDelta(v, cutoff, now) : y = v.delta.rows[q]
    BY DEF DeltaKept
  <2>3. x.ids # y.ids
    BY <2>1, <2>2 DEF KeptBase, KeptDelta, RepOK, OverridesOK
  <2>4. x \in KeptRow(v, cutoff, now) /\ y \in KeptRow(v, cutoff, now)
    BY <1>5
  <2> QED BY <2>3, <2>4, RenumberedOrder
<1> HIDE DEF b, d
<1>8. /\ b \in Seq(X) /\ KeysAscend(b) /\ IdsDiffer(b)
      /\ \A i \in DOMAIN b : \E row \in B : b[i] = new(row)
      /\ \A row \in B : \E i \in DOMAIN b : b[i] = new(row)
  BY <1>3 DEF SideOf
<1>9. /\ d \in Seq(X) /\ KeysAscend(d) /\ IdsDiffer(d)
      /\ \A i \in DOMAIN d : \E row \in D : d[i] = new(row)
      /\ \A row \in D : \E i \in DOMAIN d : d[i] = new(row)
  BY <1>4 DEF SideOf
<1> HIDE DEF new, ren, X, B, D
<1>10. \A i \in DOMAIN b, j \in DOMAIN d : b[i].row.ids # d[j].row.ids
  <2>1. SUFFICES ASSUME NEW i \in DOMAIN b, NEW j \in DOMAIN d PROVE b[i].row.ids # d[j].row.ids
    OBVIOUS
  <2>2. PICK x \in B : b[i] = new(x)
    BY <1>8
  <2>3. PICK y \in D : d[j] = new(y)
    BY <1>9
  <2>4. b[i].row = ren(x) /\ d[j].row = ren(y)
    BY <1>6, <2>2, <2>3
  <2> QED BY <1>7, <2>4
<1>11. \A e \in X : e \in Entry /\ e.key \in Int
  BY DEF X, EntryOf, Entry
<1>12. Zippable(b, d, X)
  BY <1>8, <1>9, <1>10, <1>11 DEF Zippable
<1>13. /\ keyed \in Seq(X) /\ KeysAscend(keyed) /\ IdsDiffer(keyed)
       /\ OutFrom(b, d, Len(b) + 1, Len(d) + 1, keyed)
  BY <1>12, ZipMerges
<1> HIDE DEF keyed
<1>14. EntriesOK(dicts, keyed)
  <2>1. keyed \in Seq(Entry)
    BY <1>11, <1>13
  <2>2. \A i \in DOMAIN keyed : keyed[i] \in X
    BY <1>13
  <2> HIDE DEF dicts
  <2> QED BY <1>13, <2>1, <2>2 DEF EntriesOK, X, EntryOf
<1>15. DOMAIN b = 1 .. Len(b) /\ DOMAIN d = 1 .. Len(d) /\ Len(b) \in Nat /\ Len(d) \in Nat
  BY <1>8, <1>9
<1>o. /\ \A x \in DOMAIN keyed : \/ \E r \in DOMAIN b : keyed[x] = b[r]
                                 \/ \E r \in DOMAIN d : keyed[x] = d[r]
      /\ \A r \in DOMAIN b : \E x \in DOMAIN keyed : keyed[x] = b[r]
      /\ \A r \in DOMAIN d : \E x \in DOMAIN keyed : keyed[x] = d[r]
  <2>1. 1 .. (Len(b) + 1) - 1 = DOMAIN b /\ 1 .. (Len(d) + 1) - 1 = DOMAIN d
    BY <1>15
  <2>2. OutFrom(b, d, Len(b) + 1, Len(d) + 1, keyed)
    BY <1>13
  <2>3. ASSUME NEW x \in DOMAIN keyed
        PROVE  (\E r \in DOMAIN b : keyed[x] = b[r]) \/ (\E r \in DOMAIN d : keyed[x] = d[r])
    <3>1. \/ \E r \in 1 .. (Len(b) + 1) - 1 : keyed[x] = b[r]
          \/ \E r \in 1 .. (Len(d) + 1) - 1 : keyed[x] = d[r]
      BY <2>2, Zenon DEF OutFrom
    <3> QED BY <2>1, <3>1
  <2>4. ASSUME NEW r \in DOMAIN b PROVE \E x \in DOMAIN keyed : keyed[x] = b[r]
    <3>1. r \in 1 .. (Len(b) + 1) - 1
      BY <2>1
    <3> QED BY <2>2, <3>1, Zenon DEF OutFrom
  <2>5. ASSUME NEW r \in DOMAIN d PROVE \E x \in DOMAIN keyed : keyed[x] = d[r]
    <3>1. r \in 1 .. (Len(d) + 1) - 1
      BY <2>1
    <3> QED BY <2>2, <3>1, Zenon DEF OutFrom
  <2> QED BY <2>3, <2>4, <2>5
<1>16. ASSUME NEW i \in DOMAIN keyed PROVE \E row \in B \cup D : keyed[i].row = ren(row)
  <2>1. (\E r \in DOMAIN b : keyed[i] = b[r]) \/ (\E r \in DOMAIN d : keyed[i] = d[r])
    BY <1>o
  <2>2. \E row \in B \cup D : keyed[i] = new(row)
    BY <1>8, <1>9, <2>1
  <2> QED BY <1>6, <2>2
<1>17. ASSUME NEW row \in B \cup D PROVE \E i \in DOMAIN keyed : keyed[i].row = ren(row)
  <2>1. CASE row \in B
    <3>1. PICK r \in DOMAIN b : b[r] = new(row)
      BY <1>8, <2>1
    <3>2. \E i \in DOMAIN keyed : keyed[i] = b[r]
      BY <1>o, <3>1
    <3> QED BY <1>6, <3>1, <3>2
  <2>2. CASE row \in D
    <3>1. PICK r \in DOMAIN d : d[r] = new(row)
      BY <1>9, <2>2
    <3>2. \E i \in DOMAIN keyed : keyed[i] = d[r]
      BY <1>o, <3>1
    <3> QED BY <1>6, <3>1, <3>2
  <2> QED BY <2>1, <2>2
<1>18. {keyed[i].row : i \in DOMAIN keyed} = {ren(row) : row \in KeptRow(v, cutoff, now)}
  <2> HIDE DEF dicts
  <2> QED BY <1>5, <1>16, <1>17
<1> QED BY <1>2, <1>14, <1>18 DEF BuiltOf, ren

-----------------------------------------------------------------------------
(* Dumps.                                                                     *)

\* Tuples of ids are totally ordered.
LEMMA IDsTotal ==
    ASSUME NEW a \in [Dims -> Nat], NEW b \in [Dims -> Nat]
    PROVE  a = b \/ IDsBefore(a, b) \/ IDsBefore(b, a)
<1> DEFINE T == {i \in DOMAIN DimOrder : a[DimOrder[i]] # b[DimOrder[i]]}
<1>1. /\ DOMAIN DimOrder = 1 .. Cardinality(Dims) /\ Cardinality(Dims) \in Nat
      /\ \A i \in DOMAIN DimOrder : DimOrder[i] \in Dims
      /\ \A d \in Dims : \E i \in DOMAIN DimOrder : DimOrder[i] = d
  BY OrderAssumption, PrefixIs DEF Range
<1>2. CASE T = {}
  <2>1. \A d \in Dims : a[d] = b[d]
    BY <1>1, <1>2
  <2> QED BY <2>1
<1>3. CASE T # {}
  <2>1. T \in SUBSET Nat
    BY <1>1
  <2>2. PICK m \in T : \A k \in T : m <= k
    <3> HIDE DEF T
    <3> QED BY <1>3, <2>1, LeastNatural
  <2>3. m \in DOMAIN DimOrder /\ a[DimOrder[m]] # b[DimOrder[m]]
    OBVIOUS
  <2>4. \A j \in 1 .. m - 1 : a[DimOrder[j]] = b[DimOrder[j]]
    BY <1>1, <2>2
  <2>5. a[DimOrder[m]] \in Nat /\ b[DimOrder[m]] \in Nat
    BY <1>1, <2>3
  <2>6. a[DimOrder[m]] < b[DimOrder[m]] \/ b[DimOrder[m]] < a[DimOrder[m]]
    BY <2>3, <2>5
  <2> HIDE DEF T
  <2> QED BY <2>3, <2>4, <2>6 DEF IDsBefore
<1> QED BY <1>2, <1>3

\* The order of the sort of a dump, on entries.
EntryBefore(a, b) ==
    \/ a.key < b.key
    \/ /\ a.key = b.key
       /\ \/ IDsBefore(a.row.ids, b.row.ids)
          \/ a.row.ids = b.row.ids /\ a.row.upd > b.row.upd

\* e has n entries of the dictionaries, sorted.
DumpSorted(e, n, dicts) ==
    /\ n \in Nat /\ DOMAIN e = 1 .. n /\ \A i \in 1 .. n : e[i] \in EntryOf(dicts)
    /\ \A i, j \in 1 .. n : i < j => ~EntryBefore(e[j], e[i])

\* The places of the first entry of each tuple.
Firsts(e) == {i \in DOMAIN e : i = 1 \/ e[i - 1].row.ids # e[i].row.ids}

\* Entries of one tuple are together.
LEMMA Together ==
    ASSUME NEW n, NEW e, NEW dicts, DumpSorted(e, n, dicts),
           NEW i \in 1 .. n, NEW j \in 1 .. n, NEW k \in 1 .. n, i <= k, k <= j,
           e[i].row.ids = e[j].row.ids
    PROVE  e[k].row.ids = e[i].row.ids
<1>1. ASSUME NEW x \in 1 .. n
      PROVE  /\ e[x].key \in Nat /\ e[x].row.ids \in [Dims -> Nat]
             /\ e[x].key = packKey(computeShifts(dicts), e[x].row.ids)
  <2>1. e[x] \in EntryOf(dicts)
    BY DEF DumpSorted
  <2> QED BY <2>1 DEF EntryOf, Entry, ColRow
<1>2. n \in Nat
  BY DEF DumpSorted
<1>3. CASE i = k \/ k = j
  BY <1>3
<1>4. CASE i < k /\ k < j
  <2>1. ~EntryBefore(e[k], e[i]) /\ ~EntryBefore(e[j], e[k])
    BY <1>4 DEF DumpSorted
  <2>2. e[i].key = e[j].key
    BY <1>1
  <2>3. e[k].key = e[i].key /\ ~IDsBefore(e[k].row.ids, e[i].row.ids) /\ ~IDsBefore(e[j].row.ids, e[k].row.ids)
    <3>1. e[i].key \in Nat /\ e[k].key \in Nat /\ e[j].key \in Nat
      BY <1>1
    <3> QED BY <2>1, <2>2, <3>1 DEF EntryBefore
  <2> QED BY <1>1, <2>3, IDsTotal
<1> QED BY <1>2, <1>3, <1>4

\* The first entries of the tuples are the newest, one for each tuple.
LEMMA FirstsAre ==
    ASSUME NEW n, NEW e, NEW dicts, DumpSorted(e, n, dicts)
    PROVE  /\ \A i, j \in Firsts(e) : i # j => e[i].row.ids # e[j].row.ids
           /\ \A i \in Firsts(e), j \in 1 .. n : e[i].row.ids = e[j].row.ids => e[j].row.upd <= e[i].row.upd
           /\ \A j \in 1 .. n : \E i \in Firsts(e) : e[i].row.ids = e[j].row.ids
<1>1. n \in Nat /\ DOMAIN e = 1 .. n
  BY DEF DumpSorted
<1>2. ASSUME NEW i \in 1 .. n, NEW j \in Firsts(e), i < j PROVE e[i].row.ids # e[j].row.ids
  <2>1. SUFFICES ASSUME e[i].row.ids = e[j].row.ids PROVE FALSE
    OBVIOUS
  <2>2. j \in 1 .. n /\ j - 1 \in 1 .. n /\ i <= j - 1 /\ j - 1 <= j /\ j # 1
    BY <1>1, <1>2 DEF Firsts
  <2>3. e[j - 1].row.ids = e[i].row.ids
    BY <2>1, <2>2, Together
  <2> QED BY <2>1, <2>2, <2>3 DEF Firsts
<1>3. \A i, j \in Firsts(e) : i # j => e[i].row.ids # e[j].row.ids
  <2>1. SUFFICES ASSUME NEW i \in Firsts(e), NEW j \in Firsts(e), i # j PROVE e[i].row.ids # e[j].row.ids
    OBVIOUS
  <2>2. i \in 1 .. n /\ j \in 1 .. n
    BY <1>1 DEF Firsts
  <2>3. i < j \/ j < i
    BY <1>1, <2>1, <2>2
  <2> QED BY <1>2, <2>2, <2>3
<1>4. ASSUME NEW i \in Firsts(e), NEW j \in 1 .. n, e[i].row.ids = e[j].row.ids
      PROVE  e[j].row.upd <= e[i].row.upd
  <2>1. i \in 1 .. n
    BY <1>1 DEF Firsts
  <2>2. ~(j < i)
    BY <1>2, <1>4
  <2>3. e[i] \in EntryOf(dicts) /\ e[j] \in EntryOf(dicts)
    BY <2>1 DEF DumpSorted
  <2>4. e[i].row.upd \in Int /\ e[j].row.upd \in Int /\ e[i].key \in Nat /\ e[i].key = e[j].key
    BY <1>4, <2>3, TimeAssumption DEF EntryOf, Entry, ColRow, Time
  <2>5. CASE i = j
    BY <2>4, <2>5
  <2>6. CASE i < j
    <3>1. ~EntryBefore(e[j], e[i])
      BY <2>1, <2>6 DEF DumpSorted
    <3> QED BY <1>4, <2>4, <3>1 DEF EntryBefore
  <2> QED BY <1>1, <2>1, <2>2, <2>5, <2>6
<1>5. ASSUME NEW j \in 1 .. n PROVE \E i \in Firsts(e) : e[i].row.ids = e[j].row.ids
  <2> DEFINE T == {i \in 1 .. n : e[i].row.ids = e[j].row.ids}
  <2>1. T \in SUBSET Nat /\ T # {}
    BY <1>1
  <2>2. PICK m \in T : \A k \in T : m <= k
    <3> HIDE DEF T
    <3> QED BY <2>1, LeastNatural
  <2>3. m = 1 \/ m - 1 \notin T
    BY <1>1, <2>2
  <2>4. m \in Firsts(e)
    BY <1>1, <2>3 DEF Firsts
  <2> QED BY <2>4
<1> QED BY <1>3, <1>4, <1>5

\* The records of a call that fails on none of them.
GoodRecs(recs, N) ==
    /\ N \in Nat /\ DOMAIN recs = 1 .. N
    /\ \A i \in 1 .. N : recs[i] \in Record /\ Resolve(recs[i]) \in Tuple

LEMMA NewRowIs ==
    ASSUME NEW r \in Record, NEW ids \in [Dims -> Nat]
    PROVE  newRow(ids, r) \in ColRow
<1>1. r.upd \in Time /\ expireMilli(r.exp) \in Time /\ r.met \in Payloads
  BY TimeAssumption DEF Record, expireMilli, Time
<1> QED BY <1>1 DEF newRow, ColRow

\* The ids of a record of a dump.
LEMMA IdsOfIs ==
    ASSUME NEW recs, NEW N, GoodRecs(recs, N), NEW i \in 1 .. N
    PROVE  LET ids == idsOf(builtDicts(recs), recs[i])
           IN  /\ ids \in [Dims -> Nat] /\ IdsIn(builtDicts(recs), ids)
               /\ \A d \in Dims : builtDicts(recs)[d][ids[d] + 1] = Resolve(recs[i])[d]
<1> DEFINE dicts == builtDicts(recs)
           ids == idsOf(dicts, recs[i])
<1>1. ASSUME NEW d \in Dims
      PROVE  /\ ids[d] \in Nat /\ ids[d] < Len(dicts[d])
             /\ dicts[d][ids[d] + 1] = Resolve(recs[i])[d]
  <2>1. /\ DictOK(dicts[d])
        /\ Range(dicts[d]) = {Resolve(recs[j])[d] : j \in 1 .. N}
    <3>1. N \in Nat /\ DOMAIN recs = 1 .. N /\ \A j \in 1 .. N : Resolve(recs[j])[d] \in Spellings
      BY DEF GoodRecs, Tuple
    <3>2. /\ DictOK(builtDicts(recs)[d])
          /\ Range(builtDicts(recs)[d]) = {Resolve(recs[j])[d] : j \in 1 .. N}
      <4> HIDE DEF ids, dicts
      <4> QED BY <3>1, BuiltDictsIs
    <3> QED BY <3>2
  <2>2. ids[d] = CHOOSE id \in lookup(dicts[d], Resolve(recs[i])[d]) : TRUE
    BY DEF idsOf
  <2> HIDE DEF dicts, ids
  <2>3. Resolve(recs[i])[d] \in Range(dicts[d])
    BY <2>1
  <2>4. ids[d] \in lookup(dicts[d], Resolve(recs[i])[d])
    BY <2>1, <2>2, <2>3, LookupIs
  <2>5. ids[d] \in 0 .. Len(dicts[d]) - 1 /\ Len(dicts[d]) \in Nat
    BY <2>1, <2>4, LookupIs DEF DictOK
  <2> QED BY <2>1, <2>4, <2>5, LookupIs
<1>2. ids \in [Dims -> Nat]
  <2>1. ids = [d \in Dims |-> CHOOSE id \in lookup(dicts[d], Resolve(recs[i])[d]) : TRUE]
    BY DEF idsOf
  <2> HIDE DEF ids, dicts
  <2> QED BY <1>1, <2>1
<1> HIDE DEF ids, dicts
<1> QED BY <1>1, <1>2 DEF IdsIn, ids, dicts

\* e has the entries of the records, sorted.
IsDump(e, recs, N) ==
    /\ DumpSorted(e, N, builtDicts(recs))
    /\ \A i \in 1 .. N : \E j \in 1 .. N : e[i] = builtEntries(recs)[j]
    /\ \A j \in 1 .. N : \E i \in 1 .. N : e[i] = builtEntries(recs)[j]

DumpRows(e, now) == {e[i].row : i \in {j \in Firsts(e) : ~rowExpired(e[j].row.exp, now)}}

\* A dump's snapshot is in order, and has the newest of each tuple.
LEMMA BuiltIs ==
    ASSUME NEW recs, NEW N, GoodRecs(recs, N), NEW now, NEW snap \in buildColumns(recs, now)
    PROVE  \E e : IsDump(e, recs, N) /\ BuiltOf(snap, builtDicts(recs), DumpRows(e, now))
<1> DEFINE dicts == builtDicts(recs)
           in == builtEntries(recs)
<1>0. N \in Nat /\ DOMAIN recs = 1 .. N /\ Len(recs) = N
  <2>1. N \in Nat /\ DOMAIN recs = 1 .. N /\ \A i \in 1 .. N : recs[i] \in Record
    BY DEF GoodRecs
  <2> QED BY <2>1
<1>1. PICK p \in Sortings(N, BuildBefore(in)) :
          snap = builtColumns(dicts, [i \in DOMAIN p |-> in[p[i]]], now)
  BY <1>0 DEF buildColumns
<1> DEFINE e == [i \in DOMAIN p |-> in[p[i]]]
<1>a. \A d \in Dims : DictOK(dicts[d])
  <2>1. ASSUME NEW d \in Dims PROVE DictOK(dicts[d])
    <3>1. \A j \in 1 .. N : Resolve(recs[j])[d] \in Spellings
      BY DEF GoodRecs, Tuple
    <3> QED BY <1>0, <3>1, BuiltDictsIs
  <2> QED BY <2>1
<1>2. DOMAIN in = 1 .. N /\ \A i \in 1 .. N : in[i] \in EntryOf(dicts)
  <2>1. DOMAIN in = 1 .. N
    BY <1>0 DEF builtEntries
  <2>2. ASSUME NEW i \in 1 .. N PROVE in[i] \in EntryOf(dicts)
    <3> DEFINE ids == idsOf(dicts, recs[i])
    <3>1. ids \in [Dims -> Nat] /\ IdsIn(dicts, ids)
      BY IdsOfIs
    <3>2. recs[i] \in Record
      BY DEF GoodRecs
    <3>3. in[i] = entry(computeShifts(dicts), newRow(ids, recs[i]))
      BY <1>0 DEF builtEntries
    <3> HIDE DEF ids, in, dicts
    <3>4. newRow(ids, recs[i]) \in ColRow /\ newRow(ids, recs[i]).ids = ids
      BY <3>1, <3>2, NewRowIs DEF newRow
    <3> QED BY <1>a, <3>1, <3>3, <3>4, EntryIs
  <2> QED BY <2>1, <2>2
<1> HIDE DEF in
<1>3. Ordered(p, N, BuildBefore(in), N) /\ Range(p) = 1 .. N
  BY <1>0, <1>1, SortingsOrdered, SortingsCover
<1>4. /\ DOMAIN p = 1 .. N /\ \A i \in 1 .. N : p[i] \in 1 .. N
      /\ \A i, j \in 1 .. N : i < j => p[i] # p[j] /\ <<p[j], p[i]>> \notin BuildBefore(in)
  BY <1>0, <1>3 DEF Ordered
<1>5. DOMAIN e = 1 .. N /\ \A i \in 1 .. N : e[i] = in[p[i]]
  BY <1>4
<1>b. snap = NewColumns(dicts, Pick(e, stays(e, now)))
  BY <1>1 DEF builtColumns
<1> HIDE DEF e, dicts
<1>6. DumpSorted(e, N, dicts)
  <2>1. \A i \in 1 .. N : e[i] \in EntryOf(dicts)
    BY <1>2, <1>4, <1>5
  <2>2. ASSUME NEW i \in 1 .. N, NEW j \in 1 .. N, i < j PROVE ~EntryBefore(e[j], e[i])
    <3>1. <<p[j], p[i]>> \notin BuildBefore(in) /\ p[i] \in DOMAIN in /\ p[j] \in DOMAIN in
      BY <1>2, <1>4, <2>2
    <3>2. ~EntryBefore(in[p[j]], in[p[i]])
      BY <3>1 DEF BuildBefore, EntryBefore
    <3> QED BY <1>5, <3>2
  <2> QED BY <1>0, <1>5, <2>1, <2>2 DEF DumpSorted
<1>7. IsDump(e, recs, N)
  <2>1. ASSUME NEW j \in 1 .. N PROVE \E i \in 1 .. N : e[i] = in[j]
    <3>1. j \in Range(p)
      BY <1>3
    <3>2. PICK i \in DOMAIN p : p[i] = j
      BY <3>1 DEF Range
    <3> QED BY <1>4, <1>5, <3>2
  <2>2. \A i \in 1 .. N : \E j \in 1 .. N : e[i] = in[j]
    BY <1>4, <1>5
  <2> QED BY <1>6, <2>1, <2>2 DEF IsDump, in, dicts
<1> DEFINE S == stays(e, now)
           t == Pick(e, S)
<1>8. S = {j \in Firsts(e) : ~rowExpired(e[j].row.exp, now)}
  BY DEF stays, Firsts
<1>9. S \subseteq Firsts(e) /\ S \subseteq 1 .. N /\ S \cap (1 .. N) = S
  BY <1>5, <1>8 DEF Firsts
<1> HIDE DEF S
<1>10. Pickable(e, S, N, EntryOf(dicts))
  <2>1. \A i \in 1 .. N : e[i] \in EntryOf(dicts) /\ e[i].key \in Int
    BY <1>6 DEF DumpSorted, EntryOf, Entry
  <2>2. ASSUME NEW i \in S, NEW j \in S, i < j
        PROVE  e[i].key <= e[j].key /\ e[i].row.ids # e[j].row.ids
    <3>1. i \in 1 .. N /\ j \in 1 .. N /\ i \in Firsts(e) /\ j \in Firsts(e) /\ i # j
      BY <1>0, <1>9, <2>2
    <3>2. ~EntryBefore(e[j], e[i])
      BY <1>6, <2>2, <3>1 DEF DumpSorted
    <3>3. e[i].key <= e[j].key
      BY <2>1, <3>1, <3>2 DEF EntryBefore
    <3>4. e[i].row.ids # e[j].row.ids
      BY <1>6, <3>1, FirstsAre
    <3> QED BY <3>3, <3>4
  <2> QED BY <1>5, <1>9, <2>1, <2>2 DEF Pickable
<1>11. EntriesPicked(e, S, N, EntryOf(dicts), t)
  BY <1>0, <1>10, PickEntries
<1> HIDE DEF t
<1>12. EntriesOK(dicts, t)
  <2>1. t \in Seq(EntryOf(dicts)) /\ KeysAscend(t) /\ IdsDiffer(t)
    BY <1>11 DEF EntriesPicked
  <2>2. EntryOf(dicts) \subseteq Entry
    BY DEF EntryOf
  <2>3. t \in Seq(Entry)
    BY <2>1, <2>2
  <2>4. \A i \in DOMAIN t : t[i] \in EntryOf(dicts)
    BY <2>1
  <2> QED BY <2>1, <2>3, <2>4 DEF EntriesOK, EntryOf
<1>13. {t[x].row : x \in DOMAIN t} = {e[i].row : i \in S}
  <2>1. ASSUME NEW x \in DOMAIN t PROVE \E i \in S : t[x].row = e[i].row
    BY <1>9, <1>11 DEF EntriesPicked
  <2>2. ASSUME NEW i \in S PROVE \E x \in DOMAIN t : t[x].row = e[i].row
    BY <1>9, <1>11 DEF EntriesPicked
  <2> QED BY <2>1, <2>2
<1>14. BuiltOf(snap, dicts, DumpRows(e, now))
  <2>1. snap = NewColumns(dicts, t)
    BY <1>b DEF t, S
  <2>2. DumpRows(e, now) = {e[i].row : i \in S}
    BY <1>8 DEF DumpRows
  <2> QED BY <2>1, <2>2, <1>12, <1>13 DEF BuiltOf
<1> QED BY <1>7, <1>14 DEF dicts

-----------------------------------------------------------------------------
(* Views, with their dictionaries or with the addresses of them.              *)

SnapRec(D) ==
    [dicts: [Dims -> D], shifts: [Prefix -> Nat], rows: Seq(ColRow), keys: Seq(Nat),
     maxUpdated: Time, minUpdated: Time, minExpire: Time]

DeltaRec == [rows: Seq(ColRow), maxUpdated: Time, hasExpiry: BOOLEAN]

ColView(D) == [base: SnapRec(D), extras: [Dims -> D], overridden: SUBSET Nat, delta: DeltaRec]

Dict == Seq(Spellings)
Refs == 1 .. 4
Heaps == [Dims -> [Refs -> Dict]]

LEMMA DerefIs ==
    ASSUME NEW h \in Heaps, NEW v \in ColView(Refs)
    PROVE  /\ Deref(h, v) \in ColView(Dict)
           /\ Deref(h, v).base.dicts = [d \in Dims |-> h[d][v.base.dicts[d]]]
           /\ Deref(h, v).extras = [d \in Dims |-> h[d][v.extras[d]]]
           /\ Deref(h, v).base.rows = v.base.rows /\ Deref(h, v).base.keys = v.base.keys
           /\ Deref(h, v).base.shifts = v.base.shifts
           /\ Deref(h, v).base.maxUpdated = v.base.maxUpdated
           /\ Deref(h, v).base.minUpdated = v.base.minUpdated
           /\ Deref(h, v).base.minExpire = v.base.minExpire
           /\ Deref(h, v).overridden = v.overridden /\ Deref(h, v).delta = v.delta
<1> DEFINE B == [d \in Dims |-> h[d][v.base.dicts[d]]]
           E == [d \in Dims |-> h[d][v.extras[d]]]
<1>1. v.base \in SnapRec(Refs) /\ v.extras \in [Dims -> Refs] /\ v.delta \in DeltaRec /\ v.overridden \in SUBSET Nat
  BY DEF ColView
<1>2. v.base.dicts \in [Dims -> Refs]
  BY <1>1 DEF SnapRec
<1>3. B \in [Dims -> Dict] /\ E \in [Dims -> Dict]
  <2>1. ASSUME NEW d \in Dims PROVE h[d][v.base.dicts[d]] \in Dict /\ h[d][v.extras[d]] \in Dict
    <3>1. h[d] \in [Refs -> Dict] /\ v.base.dicts[d] \in Refs /\ v.extras[d] \in Refs
      BY <1>1, <1>2 DEF Heaps
    <3> QED BY <3>1
  <2> QED BY <2>1
<1>4. Deref(h, v) = [v EXCEPT !.base = [v.base EXCEPT !.dicts = B], !.extras = E]
  BY DEF Deref
<1> HIDE DEF B, E
<1> DEFINE nb == [v.base EXCEPT !.dicts = B]
<1>5. /\ nb \in SnapRec(Dict) /\ nb.dicts = B /\ nb.rows = v.base.rows /\ nb.keys = v.base.keys
      /\ nb.shifts = v.base.shifts /\ nb.maxUpdated = v.base.maxUpdated
      /\ nb.minUpdated = v.base.minUpdated /\ nb.minExpire = v.base.minExpire
  BY <1>1, <1>3 DEF SnapRec
<1> HIDE DEF nb
<1> DEFINE u == [v EXCEPT !.base = nb, !.extras = E]
<1>6. /\ u \in ColView(Dict) /\ u.base = nb /\ u.extras = E
      /\ u.overridden = v.overridden /\ u.delta = v.delta
  BY <1>1, <1>3, <1>5 DEF ColView
<1>7. Deref(h, v) = u
  BY <1>4 DEF nb
<1> HIDE DEF u
<1> QED BY <1>5, <1>6, <1>7 DEF B, E

-----------------------------------------------------------------------------
(* Upserts.                                                                   *)

\* The rows Upsert finds, and whether it stores the new one.
At(v, new) == {r \in DOMAIN v.delta.rows : v.delta.rows[r].ids = new.ids}

Br(v, new) ==
    IF At(v, new) = {} /\ (\A d \in Dims : new.ids[d] < Len(v.base.dicts[d]))
    THEN findRowIn(v.base, new.ids) ELSE {}

Stale(v, new) ==
    \/ \E r \in At(v, new) : v.delta.rows[r].upd > new.upd
    \/ \E r \in Br(v, new) : v.base.rows[r].upd > new.upd

Stores(v, new, blocked) == ~Stale(v, new) /\ ~Dropped(blocked, At(v, new) \cup Br(v, new))

\* The parts of the view u an upsert makes of v.
Upserted(v, new, blocked, u) ==
    /\ u.base = v.base /\ u.extras = v.extras
    /\ u.overridden = IF Stores(v, new, blocked) THEN v.overridden \cup Br(v, new) ELSE v.overridden
    /\ u.delta.rows = IF ~Stores(v, new, blocked) THEN v.delta.rows
                      ELSE IF At(v, new) = {} THEN Append(v.delta.rows, new)
                      ELSE ReplaceAt(v.delta.rows, Min(At(v, new)), new)
    /\ u.delta.maxUpdated = IF (Stores(v, new, blocked) \/ At(v, new) # {}) /\ new.upd > v.delta.maxUpdated
                            THEN new.upd ELSE v.delta.maxUpdated
    /\ u.delta.hasExpiry = (v.delta.hasExpiry \/ (Stores(v, new, blocked) /\ new.exp # 0))
    /\ u = [base |-> v.base, extras |-> v.extras, overridden |-> u.overridden,
            delta |-> [rows |-> u.delta.rows, maxUpdated |-> u.delta.maxUpdated,
                       hasExpiry |-> u.delta.hasExpiry]]

LEMMA UpsertHas ==
    ASSUME NEW v \in ColView(Dict), NEW new, NEW blocked
    PROVE  Upserted(v, new, blocked, Upsert(v, new, blocked))
<1> DEFINE rows == IF ~Stores(v, new, blocked) THEN v.delta.rows
                   ELSE IF At(v, new) = {} THEN Append(v.delta.rows, new)
                   ELSE ReplaceAt(v.delta.rows, Min(At(v, new)), new)
           mx == IF (Stores(v, new, blocked) \/ At(v, new) # {}) /\ new.upd > v.delta.maxUpdated
                 THEN new.upd ELSE v.delta.maxUpdated
           he == v.delta.hasExpiry \/ (Stores(v, new, blocked) /\ new.exp # 0)
           ov == IF Stores(v, new, blocked) THEN v.overridden \cup Br(v, new) ELSE v.overridden
           u == Upsert(v, new, blocked)
<1>1. u = [v EXCEPT !.delta.rows = rows, !.delta.maxUpdated = mx, !.delta.hasExpiry = he, !.overridden = ov]
  BY DEF Upsert, Stores, Stale, Br, At
<1> HIDE DEF rows, mx, he, ov, u
<1>2. v.delta \in DeltaRec
  BY DEF ColView
<1>3. u = [base |-> v.base, extras |-> v.extras, overridden |-> ov,
           delta |-> [rows |-> rows, maxUpdated |-> mx, hasExpiry |-> he]]
  BY <1>1, <1>2 DEF ColView, DeltaRec
<1>4. /\ u.base = v.base /\ u.extras = v.extras /\ u.overridden = ov
      /\ u.delta.rows = rows /\ u.delta.maxUpdated = mx /\ u.delta.hasExpiry = he
  BY <1>3
<1> QED BY <1>3, <1>4 DEF Upserted, rows, mx, he, ov, u

\* A delta row of the tuple is the only one.
LEMMA AtOne ==
    ASSUME NEW v, RepOK(v), NEW new, At(v, new) # {}
    PROVE  Min(At(v, new)) \in At(v, new) /\ At(v, new) = {Min(At(v, new))}
<1>1. PICK q \in At(v, new) : TRUE
  OBVIOUS
<1>2. \A r \in At(v, new) : r = q
  BY DEF At, RepOK, DeltaRowsOK
<1>3. At(v, new) = {q} /\ q \in Int
  BY <1>2, BaseRowsHave DEF At
<1>4. Min({q}) = q
  BY <1>3, MinOne
<1> QED BY <1>3, <1>4

\* When the delta has no row of the tuple, the base row found is the base's.
LEMMA BrIs ==
    ASSUME NEW v, RepOK(v), NEW new \in ColRow
    PROVE  /\ Br(v, new) \subseteq {r \in DOMAIN v.base.rows : v.base.rows[r].ids = new.ids}
           /\ At(v, new) = {} => Br(v, new) = {r \in DOMAIN v.base.rows : v.base.rows[r].ids = new.ids}
           /\ At(v, new) # {} => Br(v, new) = {}
<1>1. new.ids \in [Dims -> Nat]
  BY DEF ColRow
<1>2. SnapOK(v.base)
  BY DEF RepOK
<1>3. findRowIn(v.base, new.ids) = {r \in DOMAIN v.base.rows : v.base.rows[r].ids = new.ids}
  BY <1>1, <1>2, FindRowIs
<1>4. \A r \in DOMAIN v.base.rows :
          v.base.rows[r].ids = new.ids => \A d \in Dims : new.ids[d] < Len(v.base.dicts[d])
  BY BaseRowsHave DEF IdsIn
<1> QED BY <1>3, <1>4 DEF Br

\* rows is old with new in the place of those at at, or at the end.
RowsUpserted(old, at, new, rows) ==
    /\ rows \in Seq(ColRow)
    /\ \A r \in DOMAIN old : r \notin at => r \in DOMAIN rows /\ rows[r] = old[r]
    /\ \A r \in DOMAIN rows : rows[r] = new \/ (r \in DOMAIN old /\ r \notin at /\ rows[r] = old[r])
    /\ \E r \in DOMAIN rows : rows[r] = new
    /\ \A q, r \in DOMAIN rows : rows[q] = new /\ rows[r] = new => q = r

\* The sequence of delta rows an upsert leaves.
LEMMA UpsertRows ==
    ASSUME NEW v \in ColView(Dict), RepOK(v), NEW new \in ColRow, NEW blocked \in BOOLEAN,
           Stores(v, new, blocked)
    PROVE  RowsUpserted(v.delta.rows, At(v, new), new, Upsert(v, new, blocked).delta.rows)
<1> DEFINE rows == Upsert(v, new, blocked).delta.rows
           old == v.delta.rows
           at == At(v, new)
<1>1. rows = IF at = {} THEN Append(old, new) ELSE ReplaceAt(old, Min(at), new)
  BY UpsertHas DEF Upserted
<1>2. old \in Seq(ColRow) /\ Len(old) \in Nat /\ DOMAIN old = 1 .. Len(old)
  BY BaseRowsHave DEF RepOK, DeltaRowsOK
<1>3. \A r \in DOMAIN old : r \notin at => old[r] # new
  BY DEF At
<1> HIDE DEF rows
<1>4. CASE at = {}
  <2>1. rows = Append(old, new)
    BY <1>1, <1>4
  <2>2. /\ rows \in Seq(ColRow) /\ DOMAIN rows = 1 .. Len(old) + 1 /\ rows[Len(old) + 1] = new
        /\ \A r \in 1 .. Len(old) : rows[r] = old[r]
    BY <1>2, <2>1
  <2> HIDE DEF old, at
  <2>3. RowsUpserted(old, at, new, rows)
    BY <1>2, <1>3, <1>4, <2>2 DEF RowsUpserted
  <2> QED BY <2>3 DEF rows, old, at
<1>5. CASE at # {}
  <2> DEFINE q == Min(at)
  <2>1. q \in at /\ at = {q} /\ q \in DOMAIN old
    <3>1. q \in at /\ at = {q}
      BY <1>5, AtOne
    <3> QED BY <3>1 DEF At
  <2>2. rows = [old EXCEPT ![q] = new]
    BY <1>1, <1>5 DEF ReplaceAt
  <2> HIDE DEF q, old, at
  <2>3. /\ rows \in Seq(ColRow) /\ DOMAIN rows = DOMAIN old /\ rows[q] = new
        /\ \A r \in DOMAIN old : r # q => rows[r] = old[r]
    BY <1>2, <2>1, <2>2
  <2>4. RowsUpserted(old, at, new, rows)
    BY <1>2, <1>3, <2>1, <2>3 DEF RowsUpserted
  <2> QED BY <2>4 DEF rows, old, at
<1> QED BY <1>4, <1>5

\* Every row is newer than the epoch, and its expiry is announced.
Stamped(v) ==
    /\ \A r \in DOMAIN v.base.rows : v.base.rows[r].upd > 0
    /\ \A r \in DOMAIN v.delta.rows : v.delta.rows[r].upd > 0
    /\ ExpiryOK(v)

\* new can become a row of v.
RowFor(v, new) == new \in ColRow /\ new.upd > 0 /\ \A d \in Dims : new.ids[d] < idSpace(v, d)

\* An upsert keeps the delta's tuples apart and its overridden rows exact.
LEMMA UpsertOK ==
    ASSUME NEW v \in ColView(Dict), RepOK(v), Stamped(v), NEW new, RowFor(v, new), NEW blocked \in BOOLEAN
    PROVE  LET u == Upsert(v, new, blocked)
           IN  u \in ColView(Dict) /\ RepOK(u) /\ Stamped(u)
<1> DEFINE u == Upsert(v, new, blocked)
           st == Stores(v, new, blocked)
           at == At(v, new)
           br == Br(v, new)
           R == {r \in DOMAIN v.base.rows : v.base.rows[r].ids = new.ids}
<1>0. new \in ColRow /\ new.upd > 0 /\ \A d \in Dims : new.ids[d] < idSpace(v, d)
  BY DEF RowFor
<1>u. Upserted(v, new, blocked, u)
  BY UpsertHas
<1> HIDE DEF u
<1>1. /\ u.base = v.base /\ u.extras = v.extras
      /\ u.overridden = IF st THEN v.overridden \cup br ELSE v.overridden
      /\ ~st => u.delta.rows = v.delta.rows
      /\ u.delta.maxUpdated = IF (st \/ at # {}) /\ new.upd > v.delta.maxUpdated
                              THEN new.upd ELSE v.delta.maxUpdated
      /\ u.delta.hasExpiry = (v.delta.hasExpiry \/ (st /\ new.exp # 0))
  BY <1>u DEF Upserted
<1>2. u = [base |-> v.base, extras |-> v.extras, overridden |-> u.overridden,
           delta |-> [rows |-> u.delta.rows, maxUpdated |-> u.delta.maxUpdated,
                      hasExpiry |-> u.delta.hasExpiry]]
  BY <1>u DEF Upserted
<1>3. st => RowsUpserted(v.delta.rows, at, new, u.delta.rows)
  BY <1>0, UpsertRows DEF u
<1>4. br \subseteq R /\ (at = {} => br = R)
  BY <1>0, BrIs
<1>5. DeltaRowsOK(v) /\ OverridesOK(v) /\ SnapOK(v.base) /\ \A d \in Dims : DictPair(v, d)
  BY DEF RepOK
<1> HIDE DEF st, br
<1>6. \A d \in Dims : DictPair(u, d) /\ idSpace(u, d) = idSpace(v, d)
  BY <1>1, <1>5 DEF DictPair, idSpace
<1>7. CASE ~st
  <2>1. DeltaRowsOK(u)
    BY <1>1, <1>5, <1>6, <1>7 DEF DeltaRowsOK
  <2>2. OverridesOK(u)
    BY <1>1, <1>5, <1>7 DEF OverridesOK
  <2>3. Stamped(u)
    BY <1>1, <1>7 DEF Stamped, ExpiryOK
  <2>4. u.delta.rows \in Seq(ColRow) /\ u.overridden \in SUBSET Nat
    BY <1>1, <1>5, <1>7 DEF ColView, DeltaRowsOK
  <2>5. u \in ColView(Dict)
    <3>1. u.delta.maxUpdated \in Time /\ u.delta.hasExpiry \in BOOLEAN
      BY <1>0, <1>1 DEF ColView, DeltaRec, ColRow
    <3> QED BY <1>2, <2>4, <3>1 DEF ColView, DeltaRec
  <2> QED BY <1>1, <1>5, <1>6, <2>1, <2>2, <2>3, <2>5 DEF RepOK, u
<1>8. CASE st
  <2>0. RowsUpserted(v.delta.rows, at, new, u.delta.rows)
    BY <1>3, <1>8
  <2> DEFINE old == v.delta.rows
             rows == u.delta.rows
  <2>1. /\ rows \in Seq(ColRow)
        /\ \A r \in DOMAIN old : r \notin at => r \in DOMAIN rows /\ rows[r] = old[r]
        /\ \A r \in DOMAIN rows : rows[r] = new \/ (r \in DOMAIN old /\ r \notin at /\ rows[r] = old[r])
        /\ \E r \in DOMAIN rows : rows[r] = new
        /\ \A q, r \in DOMAIN rows : rows[q] = new /\ rows[r] = new => q = r
    BY <2>0 DEF RowsUpserted
  <2>2. \A r \in DOMAIN old : r \in at <=> old[r].ids = new.ids
    BY DEF At
  <2>3. \A q, r \in DOMAIN old : q # r => old[q].ids # old[r].ids
    BY <1>5 DEF DeltaRowsOK
  <2>4. \A q \in DOMAIN old, d \in Dims : old[q].ids[d] < idSpace(v, d)
    BY <1>5 DEF DeltaRowsOK
  <2> HIDE DEF at
  <2>5. DeltaRowsOK(u)
    <3>1. \A q \in DOMAIN rows, d \in Dims : rows[q].ids[d] < idSpace(u, d)
      BY <1>0, <1>6, <2>1, <2>4
    <3>2. \A q, r \in DOMAIN rows : q # r => rows[q].ids # rows[r].ids
      BY <2>1, <2>2, <2>3
    <3> QED BY <2>1, <3>1, <3>2 DEF DeltaRowsOK
  <2>6. OverridesOK(u)
    <3> DEFINE B == v.base.rows
    <3>1. v.overridden = {r \in DOMAIN B : \E q \in DOMAIN old : old[q].ids = B[r].ids}
      BY <1>5 DEF OverridesOK
    <3>2. u.overridden = v.overridden \cup br
      BY <1>1, <1>8
    <3>3. ASSUME NEW r \in u.overridden PROVE r \in DOMAIN B /\ \E q \in DOMAIN rows : rows[q].ids = B[r].ids
      <4>1. CASE r \in v.overridden
        <5>1. PICK q \in DOMAIN old : old[q].ids = B[r].ids
          BY <3>1, <4>1
        <5>2. \E k \in DOMAIN rows : rows[k].ids = old[q].ids
          BY <2>1, <2>2
        <5> QED BY <3>1, <4>1, <5>1, <5>2
      <4>2. CASE r \in br
        BY <1>4, <2>1, <4>2
      <4> QED BY <3>2, <3>3, <4>1, <4>2
    <3>4. ASSUME NEW r \in DOMAIN B, NEW q \in DOMAIN rows, rows[q].ids = B[r].ids PROVE r \in u.overridden
      <4>1. CASE rows[q] = new
        <5>1. r \in R
          BY <3>4, <4>1
        <5>2. CASE at = {}
          BY <1>4, <3>2, <5>1, <5>2
        <5>3. CASE at # {}
          <6>1. PICK k \in at : k \in DOMAIN old /\ old[k].ids = new.ids
            BY <5>3 DEF At, at
          <6> QED BY <3>1, <3>2, <3>4, <4>1, <6>1
        <5> QED BY <5>2, <5>3
      <4>2. CASE q \in DOMAIN old /\ q \notin at /\ rows[q] = old[q]
        BY <3>1, <3>2, <3>4, <4>2
      <4> QED BY <2>1, <4>1, <4>2
    <3>5. u.overridden = {r \in DOMAIN B : \E q \in DOMAIN rows : rows[q].ids = B[r].ids}
      BY <3>3, <3>4
    <3> QED BY <1>1, <3>5 DEF OverridesOK
  <2>7. Stamped(u)
    <3>1. \A r \in DOMAIN old : old[r].upd > 0
      BY DEF Stamped
    <3>2. \A r \in DOMAIN rows : rows[r].upd > 0
      BY <1>0, <2>1, <3>1
    <3>3. \A r \in DOMAIN rows : rows[r].exp # 0 => u.delta.hasExpiry
      BY <1>1, <1>8, <2>1 DEF Stamped, ExpiryOK
    <3> QED BY <1>1, <3>2, <3>3 DEF Stamped, ExpiryOK
  <2>8. u.overridden \in SUBSET Nat
    <3>1. br \subseteq Nat
      BY <1>4, BaseRowsHave
    <3> QED BY <1>1, <3>1 DEF ColView
  <2>9. u \in ColView(Dict)
    <3>1. u.delta.maxUpdated \in Time /\ u.delta.hasExpiry \in BOOLEAN
      BY <1>0, <1>1 DEF ColView, DeltaRec, ColRow
    <3> QED BY <1>2, <2>1, <2>8, <3>1 DEF ColView, DeltaRec
  <2> QED BY <1>1, <1>5, <1>6, <2>5, <2>6, <2>7, <2>9 DEF RepOK, u
<1> QED BY <1>7, <1>8

-----------------------------------------------------------------------------
(* The rows of a view by their values.                                        *)

\* ids of the combined space.
InSpace(v, ids) == ids \in [Dims -> Nat] /\ \A d \in Dims : ids[d] < idSpace(v, d)

\* Equal ids are equal values.
LEMMA AbsDims ==
    ASSUME NEW v, \A d \in Dims : DictPair(v, d), NEW a, NEW b, InSpace(v, a.ids), InSpace(v, b.ids)
    PROVE  AbsRow(v, a).dims = AbsRow(v, b).dims <=> a.ids = b.ids
<1>1. /\ AbsRow(v, a).dims = [d \in Dims |-> dimString(v, d, a.ids[d])]
      /\ AbsRow(v, b).dims = [d \in Dims |-> dimString(v, d, b.ids[d])]
  BY DEF AbsRow
<1>2. ASSUME AbsRow(v, a).dims = AbsRow(v, b).dims PROVE a.ids = b.ids
  <2>1. ASSUME NEW d \in Dims PROVE a.ids[d] = b.ids[d]
    <3>1. dimString(v, d, a.ids[d]) = dimString(v, d, b.ids[d])
      BY <1>1, <1>2
    <3>2. idSpace(v, d) \in Nat /\ \A x, y \in 0 .. idSpace(v, d) - 1 :
                                      dimString(v, d, x) = dimString(v, d, y) => x = y
      BY DimStrings
    <3>3. a.ids[d] \in 0 .. idSpace(v, d) - 1 /\ b.ids[d] \in 0 .. idSpace(v, d) - 1
      BY <3>2 DEF InSpace
    <3> QED BY <3>1, <3>2, <3>3
  <2> QED BY <2>1 DEF InSpace
<1>3. ASSUME a.ids = b.ids PROVE AbsRow(v, a).dims = AbsRow(v, b).dims
  BY <1>1, <1>3
<1> QED BY <1>2, <1>3

-----------------------------------------------------------------------------
(* Sums over a set whose elements a sequence lists.                           *)

\* e lists the elements of D, each once.
Lists(e, N, D) ==
    /\ DOMAIN e = 1 .. N /\ D = {e[i] : i \in 1 .. N}
    /\ \A i, j \in 1 .. N : e[i] = e[j] => i = j

LEMMA ListSize ==
    ASSUME NEW N \in Nat, NEW e, NEW D, Lists(e, N, D)
    PROVE  IsFiniteSet(D) /\ Cardinality(D) = N
<1> DEFINE f == [i \in 1 .. N |-> e[i]]
<1>1. f \in [1 .. N -> D] /\ (\A i, j \in 1 .. N : f[i] = f[j] => i = j) /\ \A x \in D : \E i \in 1 .. N : f[i] = x
  BY DEF Lists
<1> HIDE DEF f
<1>2. f \in Bijection(1 .. N, D)
  BY <1>1 DEF Bijection, Injection, Surjection, IsInjective
<1>3. ExistsBijection(1 .. N, D)
  BY <1>2 DEF ExistsBijection
<1>4. IsFiniteSet(1 .. N) /\ Cardinality(1 .. N) = N
  BY FS_Interval
<1> QED BY <1>3, <1>4, FS_Bijection

\* The elements of S in e, with 0 for those of others.
Within(e, f, N, S) == [i \in 1 .. N |-> IF e[i] \in S THEN f[e[i]] ELSE 0]

LEMMA WithinStep ==
    ASSUME NEW N \in Nat, NEW e, NEW D, Lists(e, N, D), NEW f, \A x \in D : f[x] \in Int,
           NEW S \in SUBSET D, NEW x \in S
    PROVE  SumSeq(Within(e, f, N, S)) = f[x] + SumSeq(Within(e, f, N, S \ {x}))
<1> DEFINE s == Within(e, f, N, S)
           t == Within(e, f, N, S \ {x})
<1>1. PICK j \in 1 .. N : e[j] = x
  BY DEF Lists
<1>2. \A i \in 1 .. N : i # j => e[i] # x
  BY <1>1 DEF Lists
<1>3. DOMAIN s = 1 .. N /\ DOMAIN t = 1 .. N
  BY DEF Within
<1>4. ASSUME NEW i \in 1 .. N
      PROVE  s[i] \in Int /\ (i # j => t[i] = s[i])
  <2>1. e[i] \in D
    BY DEF Lists
  <2> QED BY <1>2, <2>1 DEF Within
<1>5. t[j] = 0 /\ s[j] = f[x]
  BY <1>1 DEF Within
<1> HIDE DEF s, t
<1>6. SumSeq(s) = s[j] + SumSeq(t)
  BY <1>1, <1>3, <1>4, <1>5, SumWithout
<1> QED BY <1>5, <1>6 DEF s, t

\* g sums f over the subsets of D, an element at a time.
SetSums(g, f, D) ==
    g = [S \in SUBSET D |->
           IF S = {} THEN 0 ELSE f[CHOOSE x \in S : TRUE] + g[S \ {CHOOSE x \in S : TRUE}]]

\* The order in which a sum takes the elements does not matter.
LEMMA SetSumIs ==
    ASSUME NEW N \in Nat, NEW e, NEW D, Lists(e, N, D), NEW f, \A x \in D : f[x] \in Int
    PROVE  /\ \E g : SetSums(g, f, D)
           /\ \A g : SetSums(g, f, D) => g[D] = SumSeq([i \in 1 .. N |-> f[e[i]]])
<1> DEFINE h == [S \in SUBSET D |-> SumSeq(Within(e, f, N, S))]
<1>1. h[{}] = 0
  <2> DEFINE z == Within(e, f, N, {})
  <2>1. DOMAIN z = 1 .. N /\ \A i \in 1 .. N : z[i] = 0
    BY DEF Within
  <2>2. h[{}] = SumSeq(z)
    OBVIOUS
  <2> HIDE DEF z, h
  <2> QED BY <2>1, <2>2, SumOfZeros
<1>2. ASSUME NEW S \in SUBSET D, NEW x \in S
      PROVE  h[S] = f[x] + h[S \ {x}]
  <2>1. S \ {x} \in SUBSET D
    OBVIOUS
  <2> QED BY <2>1, WithinStep
<1>3. h[D] = SumSeq([i \in 1 .. N |-> f[e[i]]])
  <2>1. Within(e, f, N, D) = [i \in 1 .. N |-> f[e[i]]]
    BY DEF Within, Lists
  <2>2. h[D] = SumSeq(Within(e, f, N, D))
    OBVIOUS
  <2> QED BY <2>1, <2>2
<1>4. h = [S \in SUBSET D |-> h[S]]
  OBVIOUS
<1> HIDE DEF h
<1>5. SetSums(h, f, D)
  <2>1. \A S \in SUBSET D :
           h[S] = IF S = {} THEN 0 ELSE f[CHOOSE x \in S : TRUE] + h[S \ {CHOOSE x \in S : TRUE}]
    BY <1>1, <1>2
  <2>2. [S \in SUBSET D |-> h[S]]
        = [S \in SUBSET D |->
             IF S = {} THEN 0 ELSE f[CHOOSE x \in S : TRUE] + h[S \ {CHOOSE x \in S : TRUE}]]
    BY <2>1
  <2> QED BY <1>4, <2>2 DEF SetSums
<1>6. ASSUME NEW g, SetSums(g, f, D) PROVE g[D] = h[D]
  <2>1. \A S \in SUBSET D :
           g[S] = IF S = {} THEN 0 ELSE f[CHOOSE x \in S : TRUE] + g[S \ {CHOOSE x \in S : TRUE}]
    BY <1>6 DEF SetSums
  <2>2. IsFiniteSet(D) /\ Cardinality(D) = N
    BY ListSize
  <2> DEFINE T == {k \in Nat : \A S \in SUBSET D : Cardinality(S) = k => g[S] = h[S]}
  <2>3. 0 \in T
    <3>1. ASSUME NEW S \in SUBSET D, Cardinality(S) = 0 PROVE g[S] = h[S]
      <4>1. S = {}
        BY <2>2, <3>1, FS_Subset, FS_EmptySet
      <4> QED BY <1>1, <2>1, <4>1
    <3> QED BY <3>1
  <2>4. ASSUME NEW k \in 0 .. N - 1, k \in T PROVE k + 1 \in T
    <3>1. ASSUME NEW S \in SUBSET D, Cardinality(S) = k + 1 PROVE g[S] = h[S]
      <4> DEFINE x == CHOOSE y \in S : TRUE
      <4>1. IsFiniteSet(S) /\ S # {}
        BY <2>2, <3>1, FS_Subset, FS_EmptySet
      <4>2. x \in S
        BY <4>1
      <4>3. g[S] = f[x] + g[S \ {x}]
        BY <2>1, <4>1
      <4> HIDE DEF x
      <4>4. Cardinality(S \ {x}) = (k + 1) - 1
        BY <3>1, <4>1, <4>2, FS_RemoveElement
      <4>5. S \ {x} \in SUBSET D /\ Cardinality(S \ {x}) = k
        BY <4>4
      <4>6. g[S \ {x}] = h[S \ {x}]
        BY <2>4, <4>5
      <4> QED BY <1>2, <4>2, <4>3, <4>6
    <3> QED BY <2>4, <3>1
  <2> HIDE DEF T
  <2>5. N \in T
    BY <2>3, <2>4, UpTo
  <2> QED BY <2>2, <2>5 DEF T
<1> QED BY <1>3, <1>5, <1>6


-----------------------------------------------------------------------------
(* The rows whose keys begin with a combination of ids.                       *)

\* The least key of a row with these ids on the first k dimensions of the prefix.
KeyFrom(shifts, ids, k) == SumSeq([i \in 1 .. k |-> ids[DimOrder[i]] * 2^shifts[i]])

\* The later fields of a key do not reach the field before them.
LEMMA PrefixKey ==
    ASSUME NEW dicts, WidthsOf(dicts), NEW ids \in [Dims -> Nat], IdsIn(dicts, ids), NEW k \in Prefix
    PROVE  LET sh == computeShifts(dicts)
               key == packKey(sh, ids)
           IN  /\ KeyFrom(sh, ids, k) \in Nat /\ key \in Nat /\ 2^sh[k] \in Nat
               /\ KeyFrom(sh, ids, k) <= key /\ key < KeyFrom(sh, ids, k) + 2^sh[k]
<1> DEFINE n == Cardinality(IndexDims)
           sh == computeShifts(dicts)
           W(i) == ids[DimOrder[i]] * 2^sh[i]
           P(i) == 2^sh[i]
           a == Sums!RunOf(0, 0, Summands(sh, ids), n)
<1>0. n \in Nat \ {0} /\ Prefix = 1 .. n
  BY PrefixIs
<1>1. \A i \in Prefix : sh[i] \in Nat
  BY ShiftsStep
<1>2. \A i \in Prefix : ids[DimOrder[i]] \in Nat
  BY PrefixIs
<1>3. /\ a[0] = 0 /\ packKey(sh, ids) = a[n] /\ packKey(sh, ids) \in Nat
      /\ \A i \in Prefix : a[i] = a[i - 1] + W(i) /\ W(i) \in Nat
  <2> HIDE DEF n, sh, a
  <2>1. LET b == Sums!RunOf(0, 0, Summands(sh, ids), n)
        IN  /\ b[0] = 0 /\ packKey(sh, ids) = b[n]
            /\ \A i \in Prefix : b[i] = b[i - 1] + W(i) /\ W(i) \in Nat
            /\ packKey(sh, ids) \in Nat
    BY <1>1, <1>2, KeyRun DEF n
  <2> QED BY <2>1 DEF a
<1>4. ASSUME NEW i \in Prefix, i + 1 \in Prefix
      PROVE  W(i + 1) + P(i + 1) <= P(i) /\ P(i) \in Nat /\ P(i + 1) \in Nat
  <2>1. Fits(dicts, ids)
    BY IdsFit
  <2>2. /\ ids[DimOrder[i + 1]] \in Nat /\ dictWidth(dicts, i + 1) \in Nat
        /\ 2^dictWidth(dicts, i + 1) \in Nat /\ 2^sh[i + 1] \in Nat /\ 2^sh[i] \in Nat
    BY <1>1, <1>2, <1>4, WidthNat, PowNat
  <2>3. ids[DimOrder[i + 1]] < 2^dictWidth(dicts, i + 1)
    BY <1>4, <2>1, <2>2 DEF Fits
  <2>4. 2^sh[i] = 2^dictWidth(dicts, i + 1) * 2^sh[i + 1]
    BY <1>1, <1>4, <2>2, ShiftsStep, PowAdd
  <2>5. ids[DimOrder[i + 1]] * 2^sh[i + 1] + 2^sh[i + 1] <= 2^dictWidth(dicts, i + 1) * 2^sh[i + 1]
    BY <2>2, <2>3, MulMono
  <2> QED BY <2>2, <2>4, <2>5
<1>5. P(n) = 1
  BY <1>0, ShiftsStep, PowZero
<1>6. \A i \in Prefix : P(i) \in Nat
  BY <1>1, PowNat
<1> DEFINE S(m) == [i \in 1 .. m |-> W(i)]
<1>7. (\A m \in 0 .. n : SumSeq(S(m)) = a[m]) /\ (\A m \in 0 .. n : a[m] \in Nat)
  <2> DEFINE T == {m \in 0 .. n : SumSeq(S(m)) = a[m] /\ a[m] \in Nat}
  <2>1. 0 \in T
    <3> DEFINE z == S(0)
    <3>1. DOMAIN z = 1 .. 0 /\ \A i \in 1 .. 0 : z[i] = 0
      OBVIOUS
    <3> HIDE DEF z
    <3>2. SumSeq(z) = 0
      BY <3>1, SumOfZeros
    <3> QED BY <1>0, <1>3, <3>2 DEF z
  <2>2. ASSUME NEW m \in 0 .. n - 1, m \in T PROVE m + 1 \in T
    <3> DEFINE s == S(m)
               t == S(m + 1)
    <3>1. m \in Nat /\ m + 1 \in Prefix /\ m + 1 \in 0 .. n
      BY <1>0
    <3>2. DOMAIN s = 1 .. m /\ DOMAIN t = 1 .. m + 1 /\ \A i \in 1 .. m : t[i] = s[i]
      BY <3>1
    <3>3. t[m + 1] = W(m + 1)
      BY <3>1
    <3> HIDE DEF s, t
    <3>4. SumSeq(t) = SumSeq(s) + t[m + 1]
      BY <3>1, <3>2, SumLast
    <3>5. a[m + 1] = a[m + 1 - 1] + W(m + 1) /\ W(m + 1) \in Nat /\ m + 1 - 1 = m
      BY <1>3, <3>1
    <3>6. SumSeq(s) = a[m] /\ a[m] \in Nat
      BY <2>2 DEF s
    <3> HIDE DEF W
    <3>7. SumSeq(t) = a[m + 1] /\ a[m + 1] \in Nat
      BY <3>3, <3>4, <3>5, <3>6
    <3> QED BY <3>1, <3>7 DEF t
  <2> HIDE DEF T
  <2>3. \A m \in 0 .. n : m \in T
    BY <1>0, <2>1, <2>2, UpTo
  <2> QED BY <2>3 DEF T
<1> HIDE DEF W, P, a, n, sh, S
<1>8. \A j \in 0 .. n - k : a[k] <= a[k + j] /\ a[k + j] + P(k + j) <= a[k] + P(k)
  <2> DEFINE T == {j \in 0 .. n - k : a[k] <= a[k + j] /\ a[k + j] + P(k + j) <= a[k] + P(k)}
  <2>0. n - k \in Nat /\ k \in 1 .. n
    BY <1>0
  <2>1. 0 \in T
    <3>1. k + 0 = k /\ a[k] \in Nat /\ P(k) \in Nat
      BY <1>0, <1>6, <1>7, <2>0
    <3> QED BY <2>0, <3>1
  <2>2. ASSUME NEW j \in 0 .. n - k - 1, j \in T PROVE j + 1 \in T
    <3>1. /\ k + j \in Prefix /\ k + j + 1 \in Prefix /\ j + 1 \in 0 .. n - k /\ k + (j + 1) = k + j + 1
          /\ k + j + 1 - 1 = k + j /\ k + j \in 0 .. n /\ k + j + 1 \in 0 .. n
      BY <1>0, <2>0
    <3>2. a[k + j + 1] = a[k + j] + W(k + j + 1) /\ W(k + j + 1) \in Nat
      BY <1>3, <3>1
    <3>3. W(k + j + 1) + P(k + j + 1) <= P(k + j) /\ P(k + j) \in Nat /\ P(k + j + 1) \in Nat
      BY <1>4, <3>1
    <3>4. a[k] \in Nat /\ a[k + j] \in Nat /\ P(k) \in Nat
      BY <1>0, <1>6, <1>7, <2>0, <3>1
    <3>5. a[k] <= a[k + j] /\ a[k + j] + P(k + j) <= a[k] + P(k)
      BY <2>2
    <3>6. a[k] <= a[k + j + 1] /\ a[k + j + 1] + P(k + j + 1) <= a[k] + P(k)
      BY <3>2, <3>3, <3>4, <3>5
    <3> QED BY <3>1, <3>6
  <2> HIDE DEF T
  <2>3. \A j \in 0 .. n - k : j \in T
    BY <2>0, <2>1, <2>2, UpTo
  <2> QED BY <2>3 DEF T
<1>9. a[k] <= a[n] /\ a[n] + P(n) <= a[k] + P(k) /\ a[k] \in Nat /\ a[n] \in Nat /\ P(k) \in Nat
  <2>1. n - k \in 0 .. n - k /\ k + (n - k) = n /\ k \in 0 .. n /\ n \in 0 .. n
    BY <1>0
  <2> QED BY <1>6, <1>7, <1>8, <2>1
<1>10. KeyFrom(sh, ids, k) = a[k]
  <2>1. k \in 0 .. n /\ KeyFrom(sh, ids, k) = SumSeq(S(k))
    BY <1>0 DEF KeyFrom, S, W
  <2> QED BY <1>7, <2>1
<1>11. /\ KeyFrom(sh, ids, k) \in Nat /\ packKey(sh, ids) \in Nat /\ 2^sh[k] \in Nat
       /\ KeyFrom(sh, ids, k) <= packKey(sh, ids) /\ packKey(sh, ids) < KeyFrom(sh, ids, k) + 2^sh[k]
  BY <1>3, <1>5, <1>9, <1>10 DEF P
<1> QED BY <1>11 DEF sh

-----------------------------------------------------------------------------
(* Inserting in order.                                                        *)

Ascends(f, s) == \A i, j \in DOMAIN s : i <= j => f[s[i]] <= f[s[j]]

LEMMA InsertedAt ==
    ASSUME NEW X, NEW s \in Seq(X), NEW x \in X, NEW m \in 1 .. Len(s) + 1
    PROVE  LET t == InsertAt(s, m, x)
           IN  /\ t \in Seq(X) /\ Len(t) = Len(s) + 1
               /\ \A i \in 1 .. m - 1 : t[i] = s[i]
               /\ t[m] = x
               /\ \A i \in m + 1 .. Len(s) + 1 : t[i] = s[i - 1]
<1> DEFINE a == SubSeq(s, 1, m - 1)
           b == SubSeq(s, m, Len(s))
           e == a \o <<x>>
           n == Len(s)
<1>0. n \in Nat /\ m \in 1 .. n + 1
  OBVIOUS
<1>1. a \in Seq(X) /\ Len(a) = m - 1 /\ \A i \in 1 .. m - 1 : a[i] = s[i]
  OBVIOUS
<1>2. b \in Seq(X) /\ Len(b) = n - m + 1 /\ \A i \in 1 .. n - m + 1 : b[i] = s[m + i - 1]
  OBVIOUS
<1>3. InsertAt(s, m, x) = e \o b
  BY DEF InsertAt
<1> HIDE DEF a, b, n
<1>4. e \in Seq(X) /\ Len(e) = m /\ (\A i \in 1 .. m - 1 : e[i] = s[i]) /\ e[m] = x
  <2>1. e \in Seq(X) /\ Len(e) = m /\ (\A i \in 1 .. m - 1 : e[i] = a[i]) /\ e[m] = x
    BY <1>0, <1>1
  <2> QED BY <1>1, <2>1
<1> HIDE DEF e
<1> DEFINE t == e \o b
<1>5. /\ t \in Seq(X) /\ Len(t) = n + 1 /\ (\A i \in 1 .. m : t[i] = e[i])
      /\ \A i \in m + 1 .. n + 1 : t[i] = b[i - m]
  BY <1>0, <1>2, <1>4
<1> HIDE DEF t
<1>6. \A i \in m + 1 .. n + 1 : t[i] = s[i - 1]
  <2>1. ASSUME NEW i \in m + 1 .. n + 1 PROVE t[i] = s[i - 1]
    <3>1. i - m \in 1 .. n - m + 1 /\ m + (i - m) - 1 = i - 1
      BY <1>0
    <3> QED BY <1>2, <1>5, <3>1
  <2> QED BY <2>1
<1>7. (\A i \in 1 .. m - 1 : t[i] = s[i]) /\ t[m] = x
  BY <1>0, <1>4, <1>5
<1> QED BY <1>3, <1>5, <1>6, <1>7 DEF t, n

\* T are the places of s, ascending by f, whose elements do not come after x.
NotAfter(X, f, s, x, T) ==
    /\ f \in [X -> Int] /\ s \in Seq(X) /\ x \in X /\ Ascends(f, s)
    /\ T \in SUBSET DOMAIN s /\ \A i \in DOMAIN s : i \in T <=> f[s[i]] <= f[x]

\* The place after all elements that do not come later.
LEMMA InsertOrder ==
    ASSUME NEW X, NEW f, NEW s, NEW x, NEW T, NotAfter(X, f, s, x, T)
    PROVE  LET t == InsertAt(s, Cardinality(T) + 1, x)
           IN  t \in Seq(X) /\ Len(t) = Len(s) + 1 /\ Ascends(f, t) /\ Range(t) = Range(s) \cup {x}
<1> DEFINE n == Len(s)
           U == {i \in DOMAIN s : f[s[i]] > f[x]}
           m == Search(n, U)
<1>a. /\ f \in [X -> Int] /\ s \in Seq(X) /\ x \in X /\ Ascends(f, s)
      /\ T \in SUBSET DOMAIN s /\ \A i \in DOMAIN s : i \in T <=> f[s[i]] <= f[x]
  BY DEF NotAfter
<1>0. n \in Nat /\ DOMAIN s = 1 .. n /\ \A i \in 1 .. n : s[i] \in X /\ f[s[i]] \in Int
  BY <1>a
<1>1. f[x] \in Int
  BY <1>a
<1>2. \A i, j \in 1 .. n : i <= j => f[s[i]] <= f[s[j]]
  BY <1>0, <1>a DEF Ascends
<1>3. \A i, j \in 1 .. n : i <= j /\ i \in U => j \in U
  BY <1>0, <1>1, <1>2
<1> HIDE DEF U
<1>4. m \in 1 .. n + 1 /\ \A i \in 1 .. n : i \in U <=> i >= m
  BY <1>0, <1>3, SearchFirst
<1> HIDE DEF m
<1>5. \A i \in 1 .. n : f[s[i]] <= f[x] <=> i < m
  <2>1. ASSUME NEW i \in 1 .. n PROVE f[s[i]] <= f[x] <=> i < m
    <3>1. i \in U <=> f[s[i]] > f[x]
      BY <1>0 DEF U
    <3> QED BY <1>0, <1>1, <1>4, <3>1
  <2> QED BY <2>1
<1>6. T = 1 .. m - 1
  <2>1. \A i \in 1 .. n : i \in T <=> i < m
    BY <1>0, <1>5, <1>a
  <2>2. T \subseteq 1 .. n
    BY <1>0, <1>a
  <2>3. m \in Nat /\ 1 .. m - 1 \subseteq 1 .. n
    BY <1>0, <1>4
  <2>4. \A i \in 1 .. n : i \in 1 .. m - 1 <=> i < m
    BY <1>0, <1>4
  <2> QED BY <2>1, <2>2, <2>3, <2>4
<1>7. Cardinality(T) = m - 1
  <2>1. 1 <= m - 1 + 1 /\ m - 1 \in Nat
    BY <1>0, <1>4
  <2>2. Cardinality(1 .. m - 1) = m - 1
    BY <2>1, FS_Interval
  <2> QED BY <1>6, <2>2
<1> DEFINE t == InsertAt(s, m, x)
<1>8. /\ t \in Seq(X) /\ Len(t) = n + 1
      /\ \A i \in 1 .. m - 1 : t[i] = s[i]
      /\ t[m] = x
      /\ \A i \in m + 1 .. n + 1 : t[i] = s[i - 1]
  <2>1. m \in 1 .. Len(s) + 1 /\ s \in Seq(X) /\ x \in X
    BY <1>4, <1>a
  <2> QED BY <2>1, InsertedAt
<1> HIDE DEF t, n
<1>9. DOMAIN t = 1 .. n + 1
  BY <1>8
<1>10. ASSUME NEW i \in 1 .. n + 1, NEW j \in 1 .. n + 1, i <= j PROVE f[t[i]] <= f[t[j]]
  <2>1. i < m => t[i] = s[i] /\ i \in 1 .. n
    BY <1>0, <1>4, <1>8
  <2>2. j < m => t[j] = s[j] /\ j \in 1 .. n
    BY <1>0, <1>4, <1>8
  <2>3. i > m => t[i] = s[i - 1] /\ i - 1 \in 1 .. n /\ i - 1 >= m
    BY <1>0, <1>4, <1>8
  <2>4. j > m => t[j] = s[j - 1] /\ j - 1 \in 1 .. n /\ j - 1 >= m
    BY <1>0, <1>4, <1>8
  <2>5. \A k \in 1 .. n : (k < m => f[s[k]] <= f[x]) /\ (k >= m => f[x] <= f[s[k]])
    BY <1>0, <1>1, <1>4, <1>5
  <2>6. CASE j < m
    BY <1>0, <1>2, <1>4, <1>10, <2>1, <2>2, <2>6
  <2>7. CASE j = m
    <3>1. i < m \/ i = m
      BY <1>0, <1>4, <1>10, <2>7
    <3> QED BY <1>1, <1>8, <2>1, <2>5, <2>7, <3>1
  <2>8. CASE j > m
    <3>1. CASE i < m
      <4>1. i <= j - 1
        BY <1>0, <1>4, <2>8, <3>1
      <4> QED BY <1>2, <2>1, <2>4, <2>8, <3>1, <4>1
    <3>2. CASE i = m
      BY <1>8, <2>4, <2>5, <2>8, <3>2
    <3>3. CASE i > m
      <4>1. i - 1 <= j - 1
        BY <1>0, <1>10
      <4> QED BY <1>2, <2>3, <2>4, <2>8, <3>3, <4>1
    <3> QED BY <1>0, <1>4, <3>1, <3>2, <3>3
  <2> QED BY <1>0, <1>4, <2>6, <2>7, <2>8
<1>11. Range(t) = Range(s) \cup {x}
  <2>1. ASSUME NEW i \in 1 .. n + 1 PROVE t[i] \in Range(s) \cup {x}
    <3>1. CASE i < m
      <4>1. t[i] = s[i] /\ i \in DOMAIN s
        BY <1>0, <1>4, <1>8, <3>1
      <4> QED BY <4>1 DEF Range
    <3>2. CASE i = m
      BY <1>8, <3>2
    <3>3. CASE i > m
      <4>1. t[i] = s[i - 1] /\ i - 1 \in DOMAIN s
        BY <1>0, <1>4, <1>8, <3>3
      <4> QED BY <4>1 DEF Range
    <3> QED BY <1>0, <1>4, <3>1, <3>2, <3>3
  <2>2. ASSUME NEW i \in 1 .. n PROVE \E j \in 1 .. n + 1 : t[j] = s[i]
    <3>1. CASE i < m
      BY <1>0, <1>4, <1>8, <3>1
    <3>2. CASE i >= m
      <4>1. i + 1 \in m + 1 .. n + 1 /\ i + 1 - 1 = i /\ i + 1 \in 1 .. n + 1
        BY <1>0, <1>4, <3>2
      <4> QED BY <1>8, <4>1
    <3> QED BY <1>0, <1>4, <3>1, <3>2
  <2>3. m \in 1 .. n + 1 /\ t[m] = x
    BY <1>4, <1>8
  <2> QED BY <1>0, <1>9, <2>1, <2>2, <2>3 DEF Range
<1>12. Ascends(f, t)
  BY <1>9, <1>10 DEF Ascends
<1>13. Cardinality(T) + 1 = m
  BY <1>0, <1>4, <1>7
<1> QED BY <1>8, <1>11, <1>12, <1>13 DEF t, n


-----------------------------------------------------------------------------
(* The least and the greatest of some numbers.                                *)

LEMMA MinOf ==
    ASSUME NEW T \in SUBSET Nat, T # {}
    PROVE  Min(T) \in T /\ \A y \in T : Min(T) <= y
<1>1. \E m \in T : \A k \in T : m <= k
  BY LeastNatural
<1> QED BY <1>1 DEF Min

LEMMA MaxOf ==
    ASSUME NEW T \in SUBSET Nat, T # {}, NEW b \in Nat, \A x \in T : x <= b
    PROVE  Max(T) \in T /\ \A y \in T : Max(T) >= y
<1> DEFINE U == {b - x : x \in T}
<1>1. U \in SUBSET Nat /\ U # {}
  <2>1. \A x \in T : b - x \in Nat
    OBVIOUS
  <2> QED BY <2>1
<1>2. PICK m \in U : \A k \in U : m <= k
  BY <1>1, LeastNatural
<1>3. PICK x \in T : m = b - x
  BY <1>2
<1>4. \A y \in T : x >= y
  <2>1. ASSUME NEW y \in T PROVE x >= y
    <3>1. b - y \in U
      OBVIOUS
    <3>2. b - x <= b - y
      BY <1>2, <1>3, <3>1
    <3> QED BY <3>2
  <2> QED BY <2>1
<1>5. \E z \in T : \A y \in T : z >= y
  BY <1>3, <1>4
<1> QED BY <1>5 DEF Max

-----------------------------------------------------------------------------
(* A sweep adds runs of rows, ascending.                                      *)

Run(lo, hi) == [j \in 1 .. hi - lo |-> lo + j - 1]

Rising(s) == \A i, j \in DOMAIN s : i < j => s[i] < s[j]

LEMMA RunAppended ==
    ASSUME NEW n \in Nat, NEW rows \in Seq(1 .. n), Rising(rows), NEW lo \in 1 .. n + 1, NEW hi \in 1 .. n + 1,
           lo < hi, \A i \in DOMAIN rows : rows[i] < lo
    PROVE  LET t == rows \o Run(lo, hi)
           IN  /\ t \in Seq(1 .. n) /\ Rising(t) /\ \A i \in DOMAIN t : t[i] < hi
               /\ \A r \in 1 .. n : r \in Range(t) <=> r \in Range(rows) \/ (lo <= r /\ r < hi)
<1> DEFINE S == 1 .. n
           k == hi - lo
           e == [j \in 1 .. k |-> lo + j - 1]
           t == rows \o e
           N == Len(rows)
<1>0. e = Run(lo, hi)
  BY DEF Run
<1>1. k \in Nat /\ \A j \in 1 .. k : lo + j - 1 \in 1 .. n
  OBVIOUS
<1>2. e \in Seq(S) /\ Len(e) = k /\ \A j \in 1 .. k : e[j] = lo + j - 1
  <2>1. e \in [1 .. k -> S]
    BY <1>1
  <2> HIDE DEF S, e, k
  <2>2. e \in Seq(S) /\ Len(e) = k
    BY <1>1, <2>1
  <2> QED BY <2>2 DEF e
<1>3. rows \in Seq(S) /\ S \subseteq Nat
  OBVIOUS
<1> HIDE DEF S, e
<1>4. /\ t \in Seq(S) /\ N \in Nat /\ DOMAIN rows = 1 .. N /\ DOMAIN t = 1 .. N + k
      /\ \A i \in 1 .. N : t[i] = rows[i] /\ rows[i] \in S
      /\ \A j \in 1 .. k : t[N + j] = lo + j - 1
  <2>1. rows \in Seq(S) /\ e \in Seq(S)
    BY <1>2, <1>3
  <2>2. /\ rows \o e \in Seq(S) /\ Len(rows) \in Nat
        /\ DOMAIN rows = 1 .. Len(rows) /\ DOMAIN (rows \o e) = 1 .. Len(rows) + Len(e)
        /\ \A i \in 1 .. Len(rows) : (rows \o e)[i] = rows[i] /\ rows[i] \in S
        /\ \A i \in 1 .. Len(e) : (rows \o e)[Len(rows) + i] = e[i]
    BY ONLY <2>1, ConcatIs
  <2> HIDE DEF k
  <2> QED BY <1>2, <2>2
<1> HIDE DEF t, N, k
<1>5. ASSUME NEW i \in 1 .. N + k, i > N
      PROVE  i - N \in 1 .. k /\ t[i] = lo + (i - N) - 1
  <2> DEFINE j == i - N
  <2>1. j \in 1 .. k /\ i = N + j
    BY <1>1, <1>4, <1>5
  <2> HIDE DEF j
  <2>2. t[i] = lo + j - 1
    BY <1>4, <2>1
  <2> QED BY <2>1, <2>2 DEF j
<1>6. \A i \in 1 .. N : t[i] < lo /\ t[i] \in Nat
  BY <1>3, <1>4
<1>7. \A i \in 1 .. N + k : i > N => t[i] >= lo /\ t[i] < hi
  BY <1>1, <1>5 DEF k
<1>8. Rising(t)
  <2> SUFFICES ASSUME NEW i \in 1 .. N + k, NEW j \in 1 .. N + k, i < j PROVE t[i] < t[j]
    BY <1>4 DEF Rising
  <2>1. CASE j <= N
    <3>1. i \in 1 .. N /\ j \in 1 .. N
      BY <1>1, <1>4, <2>1
    <3> QED BY <1>4, <3>1 DEF Rising
  <2>2. CASE i <= N /\ j > N
    <3>1. i \in 1 .. N
      BY <1>1, <1>4, <2>2
    <3>2. t[i] < lo /\ t[i] \in Nat
      BY <1>6, <3>1
    <3>3. t[j] = lo + (j - N) - 1 /\ j - N \in 1 .. k
      BY <1>5, <2>2
    <3> QED BY <3>2, <3>3
  <2>3. CASE i > N
    <3>1. t[i] = lo + (i - N) - 1
      BY <1>5, <2>3
    <3>2. t[j] = lo + (j - N) - 1
      BY <1>4, <1>5, <2>3
    <3> QED BY <1>4, <3>1, <3>2
  <2> QED BY <1>4, <2>1, <2>2, <2>3
<1>9. \A i \in 1 .. N + k : t[i] < hi
  <2> SUFFICES ASSUME NEW i \in 1 .. N + k PROVE t[i] < hi
    OBVIOUS
  <2>1. CASE i <= N
    <3>1. i \in 1 .. N
      BY <1>1, <1>4, <2>1
    <3> QED BY <1>6, <3>1
  <2>2. CASE i > N
    BY <1>7, <2>2
  <2> QED BY <1>4, <2>1, <2>2
<1>10. ASSUME NEW r \in 1 .. n
       PROVE  r \in Range(t) <=> r \in Range(rows) \/ (lo <= r /\ r < hi)
  <2>1. ASSUME r \in Range(rows) PROVE r \in Range(t)
    <3>1. PICK i \in 1 .. N : rows[i] = r
      BY <1>4, <2>1 DEF Range
    <3>2. i \in 1 .. N + k /\ t[i] = r
      BY <1>1, <1>4, <3>1
    <3> QED BY <1>4, <3>2 DEF Range
  <2>2. ASSUME lo <= r, r < hi PROVE r \in Range(t)
    <3> DEFINE j == r - lo + 1
    <3>1. j \in 1 .. k /\ lo + j - 1 = r
      BY <2>2 DEF k
    <3>2. N + j \in 1 .. N + k
      BY <1>1, <1>4, <3>1
    <3> HIDE DEF j
    <3>3. t[N + j] = r
      BY <1>4, <3>1
    <3> QED BY <1>4, <3>2, <3>3 DEF Range
  <2>3. ASSUME r \in Range(t) PROVE r \in Range(rows) \/ (lo <= r /\ r < hi)
    <3>1. PICK i \in 1 .. N + k : t[i] = r
      BY <1>4, <2>3 DEF Range
    <3>2. CASE i <= N
      <4>1. i \in 1 .. N
        BY <1>1, <1>4, <3>2
      <4> QED BY <1>4, <3>1, <4>1 DEF Range
    <3>3. CASE i > N
      BY <1>7, <3>1, <3>3
    <3> QED BY <1>4, <3>2, <3>3
  <2> QED BY <2>1, <2>2, <2>3
<1> QED BY <1>0, <1>4, <1>8, <1>9, <1>10 DEF t, S


-----------------------------------------------------------------------------
(* What the rows of a sequence stand for.                                     *)

Stands(v, s) == [i \in DOMAIN s |-> AbsRow(v, s[i])]

LEMMA PickStands ==
    ASSUME NEW v, NEW n \in Nat, NEW s, DOMAIN s = 1 .. n, NEW S,
           \A i, j \in S \cap (1 .. n) : AbsRow(v, s[i]) = AbsRow(v, s[j]) => i = j
    PROVE  Lists(Stands(v, Pick(s, S)), Len(Pick(s, S)), {AbsRow(v, s[i]) : i \in S \cap (1 .. n)})
<1> DEFINE t == Pick(s, S)
           D == {AbsRow(v, s[i]) : i \in S \cap (1 .. n)}
           N == Len(t)
<1>1. t \in Seq(Range(s))
  BY PickOrder
<1>2. PICK at : Picked(at, s, S, n, t)
  BY PickOrder
<1> HIDE DEF t
<1>3. N \in Nat /\ DOMAIN t = 1 .. N
  BY <1>1
<1> HIDE DEF N
<1>4. /\ \A i \in 1 .. N : at[i] \in S \cap (1 .. n) /\ t[i] = s[at[i]]
      /\ \A i, j \in 1 .. N : i < j => at[i] < at[j]
      /\ \A k \in S \cap (1 .. n) : \E i \in 1 .. N : at[i] = k
  BY <1>2, <1>3 DEF Picked
<1>5. DOMAIN Stands(v, t) = 1 .. N /\ \A i \in 1 .. N : Stands(v, t)[i] = AbsRow(v, s[at[i]])
  BY <1>3, <1>4 DEF Stands
<1>6. ASSUME NEW i \in 1 .. N, NEW j \in 1 .. N, Stands(v, t)[i] = Stands(v, t)[j] PROVE i = j
  <2>1. at[i] = at[j]
    BY <1>4, <1>5, <1>6
  <2>2. at[i] \in Int /\ ~(i < j) /\ ~(j < i)
    BY <1>4, <2>1
  <2> QED BY <1>3, <2>2
<1>7. \A x : x \in D <=> \E i \in 1 .. N : x = Stands(v, t)[i]
  <2>1. \A x : x \in D <=> \E k \in S \cap (1 .. n) : x = AbsRow(v, s[k])
    OBVIOUS
  <2> HIDE DEF D
  <2> QED BY <1>4, <1>5, <2>1
<1> HIDE DEF D
<1>8. D = {Stands(v, t)[i] : i \in 1 .. N}
  BY <1>7
<1> QED BY <1>5, <1>6, <1>8 DEF Lists, D, t, N

LEMMA ConcatStands ==
    ASSUME NEW v, NEW X, NEW s \in Seq(X), NEW t \in Seq(X), NEW A, NEW B, A \cap B = {},
           Lists(Stands(v, s), Len(s), A), Lists(Stands(v, t), Len(t), B)
    PROVE  Lists(Stands(v, s \o t), Len(s \o t), A \cup B)
<1> DEFINE u == s \o t
           M == Len(s)
           N == Len(t)
<1>1. /\ u \in Seq(X) /\ Len(u) = M + N /\ M \in Nat /\ N \in Nat
      /\ DOMAIN s = 1 .. M /\ DOMAIN t = 1 .. N /\ DOMAIN u = 1 .. M + N
      /\ \A i \in 1 .. M : u[i] = s[i]
      /\ \A i \in 1 .. N : u[M + i] = t[i]
  BY ConcatIs
<1> HIDE DEF u, M, N
<1>2. /\ \A i \in 1 .. M : Stands(v, u)[i] = Stands(v, s)[i] /\ i \in 1 .. M + N
      /\ \A i \in 1 .. N : Stands(v, u)[M + i] = Stands(v, t)[i] /\ M + i \in 1 .. M + N
      /\ DOMAIN Stands(v, u) = 1 .. M + N
  <2>1. \A i \in 1 .. M : i \in 1 .. M + N
    BY <1>1
  <2>2. \A i \in 1 .. N : M + i \in 1 .. M + N
    BY <1>1
  <2> QED BY <1>1, <2>1, <2>2 DEF Stands
<1>3. \A i \in 1 .. M + N : i \in 1 .. M \/ (i - M \in 1 .. N /\ i = M + (i - M))
  BY <1>1
<1>4. /\ A = {Stands(v, s)[i] : i \in 1 .. M} /\ B = {Stands(v, t)[i] : i \in 1 .. N}
      /\ \A i, j \in 1 .. M : Stands(v, s)[i] = Stands(v, s)[j] => i = j
      /\ \A i, j \in 1 .. N : Stands(v, t)[i] = Stands(v, t)[j] => i = j
  BY DEF Lists, M, N
<1>5. /\ \A i \in 1 .. M + N : i \in 1 .. M => Stands(v, u)[i] = Stands(v, s)[i] /\ Stands(v, u)[i] \in A
      /\ \A i \in 1 .. M + N : i - M \in 1 .. N =>
            Stands(v, u)[i] = Stands(v, t)[i - M] /\ Stands(v, u)[i] \in B
  <2>1. ASSUME NEW i \in 1 .. M PROVE Stands(v, u)[i] \in A
    BY <1>2, <1>4
  <2>2. ASSUME NEW i \in 1 .. M + N, i - M \in 1 .. N
        PROVE  Stands(v, u)[i] = Stands(v, t)[i - M] /\ Stands(v, u)[i] \in B
    <3> DEFINE j == i - M
    <3>1. i = M + j /\ j \in 1 .. N
      BY <1>1, <2>2
    <3> HIDE DEF j
    <3>2. Stands(v, u)[i] = Stands(v, t)[j] /\ Stands(v, t)[j] \in B
      BY <1>2, <1>4, <3>1
    <3> QED BY <3>2 DEF j
  <2> QED BY <1>2, <2>1, <2>2
<1>6. ASSUME NEW i \in 1 .. M + N, NEW j \in 1 .. M + N, Stands(v, u)[i] = Stands(v, u)[j]
      PROVE  i = j
  <2>1. CASE i \in 1 .. M /\ j \in 1 .. M
    BY <1>4, <1>5, <1>6, <2>1
  <2>2. CASE i - M \in 1 .. N /\ j - M \in 1 .. N
    <3>1. i - M = j - M
      BY <1>4, <1>5, <1>6, <2>2
    <3> QED BY <1>1, <3>1
  <2>3. ~(i \in 1 .. M /\ j - M \in 1 .. N) /\ ~(j \in 1 .. M /\ i - M \in 1 .. N)
    BY <1>5, <1>6
  <2> QED BY <1>3, <2>1, <2>2, <2>3
<1>7. \A x : x \in A \cup B <=> \E i \in 1 .. M + N : x = Stands(v, u)[i]
  <2>1. ASSUME NEW x \in A PROVE \E i \in 1 .. M + N : x = Stands(v, u)[i]
    BY <1>2, <1>4
  <2>2. ASSUME NEW x \in B PROVE \E i \in 1 .. M + N : x = Stands(v, u)[i]
    <3>1. PICK j \in 1 .. N : x = Stands(v, t)[j]
      BY <1>4
    <3> QED BY <1>2, <3>1
  <2>3. \A i \in 1 .. M + N : Stands(v, u)[i] \in A \cup B
    BY <1>3, <1>5
  <2> QED BY <2>1, <2>2, <2>3
<1>8. A \cup B = {Stands(v, u)[i] : i \in 1 .. M + N}
  BY <1>7
<1>9. Lists(Stands(v, u), M + N, A \cup B)
  BY <1>2, <1>6, <1>8 DEF Lists
<1> QED BY <1>1, <1>9 DEF u
=============================================================================
