----------------------------- MODULE QueryLemmas -----------------------------
(* The operators of the query path: what a scratch is grown to, what resolving *)
(* a group takes of it, how many intervals a plan has, that the scan budget    *)
(* counts what the sweep visits, and that a shape covers its plans; then that  *)
(* resolving is exact and a plan covers every base row its group asks for.     *)
EXTENDS QueryCalls, ColumnLemmas

-----------------------------------------------------------------------------
(* Scratches.                                                                 *)

IsScratch(s) == \E cap, acc, bms : s = [cap |-> cap, acc |-> acc, bms |-> bms]

\* A scratch of the pool: its capacities, room for its columns, and no bitmap of
\* an earlier query.
Clean(s) ==
    /\ IsScratch(s) /\ s.cap \in [Parts -> Nat]
    /\ DOMAIN s.acc = 1 .. s.cap["aggs"] /\ DOMAIN s.bms = 1 .. s.cap["aggs"]
    /\ \A j \in DOMAIN s.bms : s.bms[j] = <<>>

LEMMA NewScratchClean ==
    ASSUME NEW cap \in [Parts -> Nat]
    PROVE  Clean(newScratch(cap)) /\ newScratch(cap).cap = cap
BY DEF Clean, IsScratch, newScratch

Shapes == [plans : Nat, ivs : Nat, conds : Nat, inWins : Nat, inPool : Nat, rWins : Nat, aggs : Nat]

\* The capacities a scratch is grown to for a shape.
Needs(sh) == [sh EXCEPT !.ivs = sh.plans + IF sh.inWins > 0 THEN ExpansionIvs ELSE 0]

LEMMA ShapeAt ==
    ASSUME NEW sh \in Shapes
    PROVE  /\ \A p \in Parts : sh[p] \in Nat
           /\ \A p \in Parts : Needs(sh)[p] \in Nat
           /\ \A p \in Parts \ {"ivs"} : Needs(sh)[p] = sh[p]
           /\ Needs(sh)["ivs"] >= sh.plans
BY ScratchAssumption DEF Shapes, Parts, Needs

LEMMA GrowClean ==
    ASSUME NEW s, Clean(s), NEW sh \in Shapes
    PROVE  /\ Clean(grow(s, sh))
           /\ \A p \in Parts : grow(s, sh).cap[p] >= Needs(sh)[p]
<1> DEFINE need == Needs(sh)
           cap == [p \in Parts |-> IF s.cap[p] < need[p] THEN need[p] ELSE s.cap[p]]
<1>1. \A p \in Parts : need[p] \in Nat
  BY ShapeAt
<1>2. grow(s, sh) = IF cap["aggs"] = s.cap["aggs"] THEN [s EXCEPT !.cap = cap] ELSE newScratch(cap)
  BY DEF grow, Needs
<1> HIDE DEF need
<1>3. cap \in [Parts -> Nat] /\ \A p \in Parts : cap[p] >= need[p]
  BY <1>1 DEF Clean
<1> HIDE DEF cap
<1>4. CASE cap["aggs"] = s.cap["aggs"]
  <2>1. PICK c0, a0, b0 : s = [cap |-> c0, acc |-> a0, bms |-> b0]
    BY DEF Clean, IsScratch
  <2>2. grow(s, sh) = [cap |-> cap, acc |-> a0, bms |-> b0]
    BY <1>2, <1>4, <2>1
  <2>3. IsScratch(grow(s, sh))
    BY <2>2 DEF IsScratch
  <2>4. /\ DOMAIN a0 = 1 .. cap["aggs"] /\ DOMAIN b0 = 1 .. cap["aggs"]
        /\ \A j \in DOMAIN b0 : b0[j] = <<>>
    BY <1>4, <2>1 DEF Clean
  <2>5. grow(s, sh).cap = cap /\ grow(s, sh).acc = a0 /\ grow(s, sh).bms = b0
    BY <2>2
  <2> QED BY <1>3, <2>3, <2>4, <2>5 DEF Clean, need
<1>5. CASE cap["aggs"] # s.cap["aggs"]
  BY <1>2, <1>3, <1>5, NewScratchClean DEF need
<1> QED BY <1>4, <1>5

-----------------------------------------------------------------------------
(* Sums, and the sequences the planner works with.                            *)

\* A sum of no more summands, each no greater.
LEMMA SumMono ==
    ASSUME NEW N \in Nat, NEW M \in Nat, N <= M, NEW s, NEW t,
           DOMAIN s = 1 .. N, DOMAIN t = 1 .. M,
           \A i \in 1 .. N : s[i] \in Nat /\ s[i] <= t[i], \A i \in 1 .. M : t[i] \in Nat
    PROVE  SumSeq(s) \in Nat /\ SumSeq(t) \in Nat /\ SumSeq(s) <= SumSeq(t)
<1>0. SumSeq(s) \in Nat /\ SumSeq(t) \in Nat
  BY SumNat
<1> DEFINE a == Sums!RunOf(0, 0, s, N)
           b == Sums!RunOf(0, 0, t, M)
<1>1. Sums!IsRun(a, 0, 0, s, N) /\ Sums!Fold(0, 0, s) = a[N]
  BY Sums!FoldRun
<1>2. Sums!IsRun(b, 0, 0, t, M) /\ Sums!Fold(0, 0, t) = b[M]
  BY Sums!FoldRun
<1> HIDE DEF a, b
<1>3. /\ a[0] = 0 /\ b[0] = 0
      /\ \A n \in 0 .. N - 1 : a[n + 1] = a[n] + s[n + 1]
      /\ \A n \in 0 .. M - 1 : b[n + 1] = b[n] + t[n + 1]
  BY <1>1, <1>2 DEF Sums!IsRun, AddOp
<1> DEFINE T == {n \in 0 .. M : ~(b[n] \in Nat /\ (n <= N => a[n] \in Nat /\ a[n] <= b[n]) /\ (n >= N => a[N] <= b[n]))}
<1>4. ASSUME T # {} PROVE FALSE
  <2>1. PICK n \in T : \A k \in T : n <= k
    <3>1. T \in SUBSET Nat
      OBVIOUS
    <3> HIDE DEF T
    <3> QED BY <1>4, <3>1, LeastNatural
  <2>2. n \in 0 .. M /\ ~(b[n] \in Nat /\ (n <= N => a[n] \in Nat /\ a[n] <= b[n]) /\ (n >= N => a[N] <= b[n]))
    OBVIOUS
  <2>3. n # 0
    BY <1>3, <2>2
  <2> DEFINE m == n - 1
  <2>4. m \in 0 .. M - 1 /\ m + 1 = n /\ m \notin T /\ m \in 0 .. M
    BY <2>1, <2>2, <2>3
  <2>5. b[m] \in Nat /\ (m <= N => a[m] \in Nat /\ a[m] <= b[m]) /\ (m >= N => a[N] <= b[m])
    BY <2>4
  <2> HIDE DEF m, T
  <2>6. b[n] = b[m] + t[n] /\ t[n] \in Nat /\ b[n] \in Nat /\ b[n] >= b[m]
    <3>1. b[n] = b[m] + t[n] /\ t[n] \in Nat
      BY <1>3, <2>4
    <3> QED BY <2>5, <3>1
  <2>7. CASE n <= N
    <3>1. a[n] = a[m] + s[n] /\ s[n] \in Nat /\ s[n] <= t[n] /\ m <= N
      BY <1>3, <2>4, <2>7
    <3>2. a[n] \in Nat /\ a[n] <= b[n]
      BY <2>5, <2>6, <3>1
    <3> QED BY <2>2, <2>6, <2>7, <3>2
  <2>8. CASE ~(n <= N)
    <3>1. m >= N /\ a[N] \in Int
      <4>1. a[N] = SumSeq(s)
        BY <1>1, SumSeqFold
      <4> QED BY <1>0, <2>4, <2>8, <4>1
    <3> QED BY <2>2, <2>5, <2>6, <2>8, <3>1
  <2> QED BY <2>7, <2>8
<1>5. a[N] <= b[M]
  <2>1. M \notin T
    BY <1>4
  <2> QED BY <2>1
<1> QED BY <1>0, <1>1, <1>2, <1>5, SumSeqFold

\* Picking keeps a sequence a sequence, no longer, of elements at the places asked.
PickShort(c, s, n, t) ==
    /\ t \in Seq(Range(c.s)) /\ Len(t) <= n
    /\ \A i \in DOMAIN t : \E k \in c.S \cap DOMAIN c.s : t[i] = c.s[k]

Shorts == INSTANCE Loops WITH Op <- PickOp, Inv <- PickShort

LEMMA PickLen ==
    ASSUME NEW X, NEW s \in Seq(X), NEW S
    PROVE  /\ Pick(s, S) \in Seq(X) /\ Len(Pick(s, S)) <= Len(s)
           /\ \A i \in DOMAIN Pick(s, S) : \E k \in S \cap DOMAIN s : Pick(s, S)[i] = s[k]
<1> DEFINE c == [s |-> s, S |-> S]
           q == [i \in DOMAIN s |-> i]
           N == Len(s)
<1>1. Pick(s, S) = Shorts!Fold(c, <<>>, q)
  BY DEF Pick, FoldLeft, MapThenFoldSet, Max, Shorts!Fold, Shorts!MapThenFoldSet, Shorts!Top, PickOp
<1>2. PickShort(c, q, 0, <<>>)
  BY DEF PickShort
<1>3. ASSUME NEW k \in 0 .. N - 1, NEW t, PickShort(c, q, k, t)
      PROVE  PickShort(c, q, k + 1, PickOp(c, t, q[k + 1]))
  <2>1. q[k + 1] = k + 1 /\ k + 1 \in DOMAIN s /\ s[k + 1] \in Range(s)
    BY DEF Range
  <2>2. /\ t \in Seq(Range(s)) /\ Len(t) <= k
        /\ \A i \in DOMAIN t : \E j \in S \cap DOMAIN s : t[i] = s[j]
    BY <1>3 DEF PickShort
  <2>3. CASE k + 1 \in S
    <3> DEFINE u == Append(t, s[k + 1])
    <3>1. u \in Seq(Range(s)) /\ Len(u) = Len(t) + 1
          /\ \A i \in DOMAIN u : u[i] = IF i \in DOMAIN t THEN t[i] ELSE s[k + 1]
      BY <2>1, <2>2
    <3>2. PickOp(c, t, q[k + 1]) = u
      BY <2>1, <2>3 DEF PickOp
    <3> HIDE DEF u
    <3>3. Len(u) <= k + 1
      BY <2>2, <3>1
    <3>4. \A i \in DOMAIN u : \E j \in S \cap DOMAIN s : u[i] = s[j]
      BY <2>1, <2>2, <2>3, <3>1
    <3>5. PickShort(c, q, k + 1, u)
      BY <3>1, <3>3, <3>4 DEF PickShort
    <3> QED BY <3>2, <3>5
  <2>4. CASE k + 1 \notin S
    <3>1. PickOp(c, t, q[k + 1]) = t
      BY <2>1, <2>4 DEF PickOp
    <3>2. Len(t) <= k + 1
      BY <2>2
    <3> QED BY <2>2, <3>1, <3>2 DEF PickShort
  <2> QED BY <2>3, <2>4
<1>4. N \in Nat /\ DOMAIN q = 1 .. N
  OBVIOUS
<1>5. PickShort(c, q, N, Shorts!Fold(c, <<>>, q))
  <2> HIDE DEF N, c, q
  <2> QED BY <1>2, <1>3, <1>4, Shorts!FoldInvariant
<1> DEFINE t == Pick(s, S)
<1>6. /\ t \in Seq(Range(s)) /\ Len(t) <= Len(s)
      /\ \A i \in DOMAIN t : \E k \in S \cap DOMAIN s : t[i] = s[k]
  BY <1>1, <1>5 DEF PickShort
<1> HIDE DEF t
<1>7. Range(s) \subseteq X
  BY DEF Range
<1>8. t \in Seq(X)
  BY <1>6, <1>7
<1> QED BY <1>6, <1>8 DEF t

\* Sorting by insertion keeps the elements and how many there are.
LEMMA InsertIs ==
    ASSUME NEW X, NEW s \in Seq(X), NEW x \in X, NEW T \in SUBSET DOMAIN s
    PROVE  InsertAt(s, Cardinality(T) + 1, x) \in Seq(X)
           /\ Len(InsertAt(s, Cardinality(T) + 1, x)) = Len(s) + 1
<1> DEFINE k == Cardinality(T)
<1>1. IsFiniteSet(DOMAIN s) /\ Cardinality(DOMAIN s) = Len(s)
  <2> DEFINE n == Len(s)
  <2>1. DOMAIN s = 1 .. n /\ n \in Nat
    OBVIOUS
  <2> HIDE DEF n
  <2>2. IsFiniteSet(1 .. n) /\ Cardinality(1 .. n) = n
    BY <2>1, FS_Interval
  <2> QED BY <2>1, <2>2 DEF n
<1>2. k \in Nat /\ k <= Len(s)
  BY <1>1, FS_Subset, FS_CardinalityType
<1> HIDE DEF k
<1> DEFINE a == SubSeq(s, 1, (k + 1) - 1)
           b == SubSeq(s, k + 1, Len(s))
<1>3. a \in Seq(X) /\ Len(a) = k
  BY <1>2
<1>4. b \in Seq(X) /\ Len(b) = Len(s) - k
  BY <1>2
<1>5. InsertAt(s, k + 1, x) = a \o <<x>> \o b
  BY DEF InsertAt
<1> HIDE DEF a, b
<1>6. a \o <<x>> \in Seq(X) /\ Len(a \o <<x>>) = k + 1
  BY <1>3
<1> DEFINE e == a \o <<x>>
<1>7. e \in Seq(X) /\ Len(e) = k + 1
  BY <1>6
<1>8. InsertAt(s, k + 1, x) = e \o b
  BY <1>5
<1> HIDE DEF e
<1>9. e \o b \in Seq(X) /\ Len(e \o b) = Len(e) + Len(b)
  BY <1>4, <1>7
<1>10. Len(e) + Len(b) = Len(s) + 1
  <2>1. Len(s) \in Nat
    OBVIOUS
  <2> QED BY <1>2, <1>4, <1>7, <2>1
<1> QED BY <1>8, <1>9, <1>10 DEF k

Sort(c, s, n, t) == t \in Seq(c) /\ Len(t) = n

InsertId(c, t, x) == Insert(t, x, <)
IdSorts == INSTANCE Loops WITH Op <- InsertId, Inv <- Sort

InsertIv(c, t, x) == Insert(t, x, LAMBDA a, b : a.lo < b.lo)
IvSorts == INSTANCE Loops WITH Op <- InsertIv, Inv <- Sort

LEMMA SortedIds ==
    ASSUME NEW X, NEW s \in Seq(X)
    PROVE  Sorted(s, <) \in Seq(X) /\ Len(Sorted(s, <)) = Len(s)
<1>1. Sorted(s, <) = IdSorts!Fold(X, <<>>, s)
  BY DEF Sorted, FoldLeft, MapThenFoldSet, Max, IdSorts!Fold, IdSorts!MapThenFoldSet, IdSorts!Top, InsertId
<1>2. Sort(X, s, 0, <<>>)
  BY DEF Sort
<1>3. ASSUME NEW n \in 0 .. Len(s) - 1, NEW t, Sort(X, s, n, t)
      PROVE  Sort(X, s, n + 1, InsertId(X, t, s[n + 1]))
  <2>1. t \in Seq(X) /\ Len(t) = n /\ s[n + 1] \in X
    BY <1>3 DEF Sort
  <2> DEFINE T == {i \in DOMAIN t : ~(s[n + 1] < t[i])}
  <2>2. T \in SUBSET DOMAIN t
    OBVIOUS
  <2>3. InsertId(X, t, s[n + 1]) = InsertAt(t, Cardinality(T) + 1, s[n + 1])
    BY DEF InsertId, Insert
  <2> HIDE DEF T
  <2> QED BY <2>1, <2>2, <2>3, InsertIs DEF Sort
<1>4. Len(s) \in Nat /\ DOMAIN s = 1 .. Len(s)
  OBVIOUS
<1>5. Sort(X, s, Len(s), IdSorts!Fold(X, <<>>, s))
  BY <1>2, <1>3, <1>4, IdSorts!FoldInvariant
<1> QED BY <1>1, <1>5 DEF Sort

LEMMA SortedByLo ==
    ASSUME NEW X, NEW plans, intervals(plans) \in Seq(X)
    PROVE  sortedIvs(plans) \in Seq(X) /\ Len(sortedIvs(plans)) = Len(intervals(plans))
<1> DEFINE s == intervals(plans)
<1>1. sortedIvs(plans) = IvSorts!Fold(X, <<>>, s)
  BY DEF sortedIvs, Sorted, FoldLeft, MapThenFoldSet, Max, IvSorts!Fold, IvSorts!MapThenFoldSet, IvSorts!Top, InsertIv
<1> HIDE DEF s
<1>2. Sort(X, s, 0, <<>>)
  BY DEF Sort
<1>0. s \in Seq(X)
  BY DEF s
<1>3. ASSUME NEW n \in 0 .. Len(s) - 1, NEW t, Sort(X, s, n, t)
      PROVE  Sort(X, s, n + 1, InsertIv(X, t, s[n + 1]))
  <2>1. t \in Seq(X) /\ Len(t) = n /\ s[n + 1] \in X
    BY <1>0, <1>3 DEF Sort
  <2> DEFINE T == {i \in DOMAIN t : ~(s[n + 1].lo < t[i].lo)}
  <2>2. T \in SUBSET DOMAIN t
    OBVIOUS
  <2>3. InsertIv(X, t, s[n + 1]) = InsertAt(t, Cardinality(T) + 1, s[n + 1])
    BY DEF InsertIv, Insert
  <2> HIDE DEF T
  <2> QED BY <2>1, <2>2, <2>3, InsertIs DEF Sort
<1>4. Len(s) \in Nat /\ DOMAIN s = 1 .. Len(s)
  BY <1>0
<1>5. Sort(X, s, Len(s), IvSorts!Fold(X, <<>>, s))
  BY <1>2, <1>3, <1>4, IvSorts!FoldInvariant
<1> QED BY <1>1, <1>5 DEF Sort, s

-----------------------------------------------------------------------------
(* Joined sequences.                                                          *)

JoinOp(c, t, s) == t \o s

\* The length of what is joined, if every sequence has length c.L.
JoinInv(c, ss, n, t) == t \in Seq(c.X) /\ ((\A i \in DOMAIN ss : Len(ss[i]) = c.L) => Len(t) = n * c.L)

Joins == INSTANCE Loops WITH Op <- JoinOp, Inv <- JoinInv

LEMMA JoinedFold ==
    ASSUME NEW c, NEW ss
    PROVE  Joined(ss) = Joins!Fold(c, <<>>, ss)
BY DEF Joined, FoldLeft, MapThenFoldSet, Max, Joins!Fold, Joins!MapThenFoldSet, Joins!Top, JoinOp

LEMMA JoinedIs ==
    ASSUME NEW X, NEW L \in Nat, NEW ss \in Seq(Seq(X))
    PROVE  /\ Joined(ss) \in Seq(X)
           /\ (\A i \in DOMAIN ss : Len(ss[i]) = L) => Len(Joined(ss)) = Len(ss) * L
<1> DEFINE c == [X |-> X, L |-> L]
           N == Len(ss)
<1>1. Joined(ss) = Joins!Fold(c, <<>>, ss)
  BY JoinedFold
<1>2. JoinInv(c, ss, 0, <<>>)
  BY DEF JoinInv
<1>3. ASSUME NEW n \in 0 .. N - 1, NEW t, JoinInv(c, ss, n, t)
      PROVE  JoinInv(c, ss, n + 1, JoinOp(c, t, ss[n + 1]))
  <2>1. t \in Seq(X) /\ ss[n + 1] \in Seq(X) /\ n + 1 \in DOMAIN ss
    BY <1>3 DEF JoinInv
  <2>2. t \o ss[n + 1] \in Seq(X) /\ Len(t \o ss[n + 1]) = Len(t) + Len(ss[n + 1])
    BY <2>1
  <2>3. ASSUME \A i \in DOMAIN ss : Len(ss[i]) = L
        PROVE  Len(t \o ss[n + 1]) = (n + 1) * L
    <3>1. Len(t) = n * L /\ Len(ss[n + 1]) = L
      BY <1>3, <2>1, <2>3 DEF JoinInv
    <3>2. (n + 1) * L = n * L + L
      BY SMT
    <3> QED BY <2>2, <3>1, <3>2
  <2> QED BY <2>2, <2>3 DEF JoinInv, JoinOp
<1>4. N \in Nat /\ DOMAIN ss = 1 .. N
  OBVIOUS
<1>5. JoinInv(c, ss, N, Joins!Fold(c, <<>>, ss))
  <2> HIDE DEF N, c
  <2> QED BY <1>2, <1>3, <1>4, Joins!FoldInvariant
<1> QED BY <1>1, <1>5 DEF JoinInv

LEMMA JoinedMore ==
    ASSUME NEW N \in Nat, NEW ss, NEW tt, DOMAIN ss = 1 .. N, DOMAIN tt = 1 .. N + 1,
           \A i \in 1 .. N : tt[i] = ss[i]
    PROVE  Joined(tt) = Joined(ss) \o tt[N + 1]
<1>1. Joins!Fold(0, <<>>, tt) = JoinOp(0, Joins!Fold(0, <<>>, ss), tt[N + 1])
  BY Joins!FoldExtended
<1> QED BY <1>1, JoinedFold DEF JoinOp

-----------------------------------------------------------------------------
(* Resolving a group takes no more of a scratch than its conditions need.     *)

Groups == [err : BOOLEAN, dead : BOOLEAN, conds : Seq([dim : Dims, id : Nat]),
           ins : Seq([dim : Dims, ids : Seq(Nat)]), rngs : Seq(Conds)]

LEMMA IdOfNat ==
    ASSUME NEW v \in Views, NEW d \in Dims, NEW s
    PROVE  /\ idOf(v, d, s) \in SUBSET Nat
           /\ idOf(v, d, s) # {} => TheId(idOf(v, d, s)) \in Nat
<1>1. v.base.dicts[d] \in Seq(Spellings) /\ v.extras[d] \in Seq(Spellings)
  BY ViewsAssumption DEF ReadsRight, IsColumns
<1>2. ASSUME NEW dict \in Seq(Spellings), NEW x PROVE lookup(dict, x) \in SUBSET Nat
  BY DEF lookup
<1>3. idOf(v, d, s) \in SUBSET Nat
  <2> DEFINE x == Canon(d, s)
             base == v.base.dicts[d]
  <2>1. lookup(base, x) \in SUBSET Nat /\ lookup(v.extras[d], x) \in SUBSET Nat /\ Len(base) \in Nat
    BY <1>1, <1>2
  <2>2. idOf(v, d, s) = IF lookup(base, x) # {} THEN lookup(base, x)
                        ELSE {Len(base) + id : id \in lookup(v.extras[d], x)}
    BY DEF idOf, lookupID
  <2> HIDE DEF x, base
  <2> QED BY <2>1, <2>2
<1> HIDE DEF idOf
<1> QED BY <1>3 DEF TheId

LEMMA InIdsIs ==
    ASSUME NEW v \in Views, NEW c \in Conds, c.dim \in Dims
    PROVE  inIDs(v, c) \in Seq(Nat) /\ Len(inIDs(v, c)) <= Len(c.in)
<1> DEFINE ids == [i \in DOMAIN c.in |-> idOf(v, c.dim, c.in[i])]
           S == {i \in DOMAIN ids : ids[i] # {}}
           known == Pick(ids, S)
           the == [i \in DOMAIN known |-> TheId(known[i])]
<1>1. c.in \in Seq(Spellings)
  BY DEF Conds
<1>2. ids \in Seq(SUBSET Nat) /\ Len(ids) = Len(c.in) /\ Len(c.in) \in Nat
  <2>1. \A i \in DOMAIN c.in : idOf(v, c.dim, c.in[i]) \in SUBSET Nat
    BY IdOfNat
  <2>2. DOMAIN c.in = 1 .. Len(c.in) /\ Len(c.in) \in Nat
    BY <1>1
  <2> QED BY <2>1, <2>2
<1>3. \A i \in DOMAIN c.in : ids[i] # {} => TheId(ids[i]) \in Nat
  BY IdOfNat
<1>4. inIDs(v, c) = Sorted(the, <)
  BY DEF inIDs
<1>5. known \in Seq(SUBSET Nat) /\ Len(known) <= Len(ids)
      /\ \A i \in DOMAIN known : \E k \in S \cap DOMAIN ids : known[i] = ids[k]
  <2> HIDE DEF ids, S
  <2> QED BY <1>2, PickLen
<1>6. ASSUME NEW i \in DOMAIN known PROVE TheId(known[i]) \in Nat
  <2>1. PICK k \in S \cap DOMAIN ids : known[i] = ids[k]
    BY <1>5
  <2> HIDE DEF known
  <2> QED BY <1>3, <2>1
<1>7. Len(known) \in Nat /\ DOMAIN known = 1 .. Len(known)
  <2> HIDE DEF known
  <2> QED BY <1>5
<1>8. the \in Seq(Nat) /\ Len(the) = Len(known)
  <2> HIDE DEF known
  <2> QED BY <1>6, <1>7
<1> HIDE DEF the
<1>9. Sorted(the, <) \in Seq(Nat) /\ Len(Sorted(the, <)) = Len(the)
  BY <1>8, SortedIds
<1>10. Len(known) <= Len(c.in)
  BY <1>2, <1>5
<1> HIDE DEF known, ids
<1> QED BY <1>4, <1>8, <1>9, <1>10

\* The slices a group's conditions fill.
CondParts == {"conds", "inWins", "inPool", "rWins"}

\* What the first n conditions of a group need.
NeedsTo(g, p, n) == SumSeq([j \in 1 .. n |-> condNeeds(g[j], p)])

LEMMA CondNeedsNat ==
    ASSUME NEW c \in Conds, NEW p \in CondParts
    PROVE  condNeeds(c, p) \in Nat
BY DEF CondParts, condNeeds, Conds, isIn

LEMMA NeedsToStep ==
    ASSUME NEW g \in Seq(Conds), NEW p \in CondParts, NEW n \in 0 .. Len(g) - 1
    PROVE  /\ NeedsTo(g, p, n) \in Nat
           /\ NeedsTo(g, p, n + 1) = NeedsTo(g, p, n) + condNeeds(g[n + 1], p)
           /\ condNeeds(g[n + 1], p) \in Nat
<1> DEFINE s == [j \in 1 .. n |-> condNeeds(g[j], p)]
           t == [j \in 1 .. n + 1 |-> condNeeds(g[j], p)]
<1>1. \A j \in 1 .. n + 1 : condNeeds(g[j], p) \in Nat
  <2>1. \A j \in 1 .. n + 1 : g[j] \in Conds
    OBVIOUS
  <2> QED BY <2>1, CondNeedsNat
<1>2. /\ DOMAIN s = 1 .. n /\ DOMAIN t = 1 .. n + 1
      /\ \A j \in 1 .. n : t[j] = s[j] /\ s[j] \in Nat
      /\ t[n + 1] = condNeeds(g[n + 1], p)
  BY <1>1
<1>3. NeedsTo(g, p, n) = SumSeq(s) /\ NeedsTo(g, p, n + 1) = SumSeq(t)
  BY DEF NeedsTo
<1> HIDE DEF s, t
<1>4. SumSeq(t) = SumSeq(s) + t[n + 1]
  BY <1>2, SumLast
<1>5. SumSeq(s) \in Nat
  BY <1>2, SumNat
<1> QED BY <1>1, <1>2, <1>3, <1>4, <1>5

LEMMA TakesNat ==
    ASSUME NEW g \in Groups, NEW p \in CondParts
    PROVE  groupTakes(g, p) \in Nat
<1>1. CASE p = "inPool"
  <2> DEFINE s == [i \in DOMAIN g.ins |-> Len(g.ins[i].ids)]
  <2>1. DOMAIN s = 1 .. Len(g.ins) /\ Len(g.ins) \in Nat /\ \A i \in 1 .. Len(g.ins) : s[i] \in Nat
    BY DEF Groups
  <2>2. groupTakes(g, p) = SumSeq(s)
    BY <1>1 DEF groupTakes
  <2> HIDE DEF s
  <2> QED BY <2>1, <2>2, SumNat
<1>2. CASE p # "inPool"
  BY <1>2 DEF groupTakes, CondParts, Groups
<1> QED BY <1>1, <1>2

\* A group after a condition takes at most what the condition needs more.
TakesWithin(x, y, c) == \A p \in CondParts : groupTakes(y, p) <= groupTakes(x, p) + condNeeds(c, p)

LEMMA SameTakes ==
    ASSUME NEW x \in Groups, NEW y \in Groups, NEW c \in Conds,
           y.conds = x.conds, y.ins = x.ins, y.rngs = x.rngs
    PROVE  TakesWithin(x, y, c)
<1> SUFFICES ASSUME NEW p \in CondParts
             PROVE  groupTakes(y, p) <= groupTakes(x, p) + condNeeds(c, p)
  BY DEF TakesWithin
<1>1. groupTakes(y, p) = groupTakes(x, p)
  BY DEF groupTakes
<1> QED BY <1>1, TakesNat, CondNeedsNat

LEMMA RangeTakes ==
    ASSUME NEW x \in Groups, NEW c \in Conds, c.range # {}
    PROVE  LET y == [x EXCEPT !.rngs = Append(@, c)] IN y \in Groups /\ TakesWithin(x, y, c)
<1> DEFINE y == [x EXCEPT !.rngs = Append(@, c)]
<1>1. y \in Groups /\ y.conds = x.conds /\ y.ins = x.ins /\ Len(y.rngs) = Len(x.rngs) + 1
  <2> DEFINE z == Append(x.rngs, c)
  <2>1. z \in Seq(Conds) /\ Len(z) = Len(x.rngs) + 1
    BY DEF Groups
  <2>2. y = [x EXCEPT !.rngs = z]
    BY DEF Groups
  <2> HIDE DEF z, y
  <2> QED BY <2>1, <2>2 DEF Groups
<1> HIDE DEF y
<1>2. ASSUME NEW p \in CondParts PROVE groupTakes(y, p) <= groupTakes(x, p) + condNeeds(c, p)
  <2>1. CASE p = "rWins"
    BY <1>1, <2>1 DEF groupTakes, condNeeds, Groups
  <2>2. CASE p # "rWins"
    <3>1. groupTakes(y, p) = groupTakes(x, p)
      BY <1>1, <2>2 DEF groupTakes, CondParts
    <3> QED BY <3>1, TakesNat, CondNeedsNat
  <2> QED BY <2>1, <2>2
<1> QED BY <1>1, <1>2 DEF TakesWithin, y

LEMMA EqTakes ==
    ASSUME NEW x \in Groups, NEW c \in Conds, c.range = {}, c.in = <<>>,
           NEW e \in [dim : Dims, id : Nat]
    PROVE  LET y == [x EXCEPT !.conds = Append(@, e)] IN y \in Groups /\ TakesWithin(x, y, c)
<1> DEFINE y == [x EXCEPT !.conds = Append(@, e)]
<1>1. y \in Groups /\ y.rngs = x.rngs /\ y.ins = x.ins /\ Len(y.conds) = Len(x.conds) + 1
  <2> DEFINE z == Append(x.conds, e)
  <2>1. z \in Seq([dim : Dims, id : Nat]) /\ Len(z) = Len(x.conds) + 1
    BY DEF Groups
  <2>2. y = [x EXCEPT !.conds = z]
    BY DEF Groups
  <2> HIDE DEF z, y
  <2> QED BY <2>1, <2>2 DEF Groups
<1> HIDE DEF y
<1>2. ASSUME NEW p \in CondParts PROVE groupTakes(y, p) <= groupTakes(x, p) + condNeeds(c, p)
  <2>1. CASE p = "conds"
    BY <1>1, <2>1 DEF groupTakes, condNeeds, Groups
  <2>2. CASE p # "conds"
    <3>1. groupTakes(y, p) = groupTakes(x, p)
      BY <1>1, <2>2 DEF groupTakes, CondParts
    <3> QED BY <3>1, TakesNat, CondNeedsNat
  <2> QED BY <2>1, <2>2
<1> QED BY <1>1, <1>2 DEF TakesWithin, y

LEMMA InTakes ==
    ASSUME NEW x \in Groups, NEW c \in Conds, isIn(c),
           NEW e \in [dim : Dims, ids : Seq(Nat)], Len(e.ids) <= Len(c.in)
    PROVE  LET y == [x EXCEPT !.ins = Append(@, e)] IN y \in Groups /\ TakesWithin(x, y, c)
<1> DEFINE y == [x EXCEPT !.ins = Append(@, e)]
<1>0. x.ins \in Seq([dim : Dims, ids : Seq(Nat)])
  BY DEF Groups
<1>1. y \in Groups /\ y.rngs = x.rngs /\ y.conds = x.conds /\ y.ins = Append(x.ins, e)
  <2> DEFINE z == Append(x.ins, e)
  <2>1. z \in Seq([dim : Dims, ids : Seq(Nat)])
    BY <1>0
  <2>2. y = [x EXCEPT !.ins = z]
    BY DEF Groups
  <2> HIDE DEF z, y
  <2>3. y \in Groups /\ y.rngs = x.rngs /\ y.conds = x.conds /\ y.ins = z
    BY <2>1, <2>2 DEF Groups
  <2> QED BY <2>3 DEF z
<1> HIDE DEF y
<1>2. Len(y.ins) = Len(x.ins) + 1 /\ Len(x.ins) \in Nat /\ y.ins[Len(x.ins) + 1] = e
      /\ \A i \in 1 .. Len(x.ins) : y.ins[i] = x.ins[i]
  BY <1>0, <1>1
<1>3. ASSUME NEW p \in CondParts PROVE groupTakes(y, p) <= groupTakes(x, p) + condNeeds(c, p)
  <2>1. CASE p = "inWins"
    BY <1>2, <2>1 DEF groupTakes, condNeeds, Groups
  <2>2. CASE p = "inPool"
    <3> DEFINE s == [i \in DOMAIN x.ins |-> Len(x.ins[i].ids)]
               t == [i \in DOMAIN y.ins |-> Len(y.ins[i].ids)]
               n == Len(x.ins)
    <3>1. groupTakes(x, p) = SumSeq(s) /\ groupTakes(y, p) = SumSeq(t)
      BY <2>2 DEF groupTakes
    <3>2. DOMAIN s = 1 .. n /\ n \in Nat
      BY <1>0
    <3>3. DOMAIN t = 1 .. n + 1
      BY <1>1, <1>2 DEF Groups
    <3>4. t[n + 1] = Len(e.ids) /\ \A i \in 1 .. n : t[i] = s[i]
      BY <1>2, <3>2, <3>3
    <3> HIDE DEF s, t, n
    <3>5. SumSeq(t) = SumSeq(s) + t[n + 1]
      BY <3>2, <3>3, <3>4, SumLast
    <3>6. condNeeds(c, p) = Len(c.in) /\ Len(c.in) \in Nat
      BY <2>2 DEF condNeeds, Conds
    <3>7. groupTakes(x, p) \in Nat /\ Len(e.ids) \in Nat
      BY TakesNat
    <3> QED BY <3>1, <3>4, <3>5, <3>6, <3>7
  <2>3. CASE p \notin {"inWins", "inPool"}
    <3>1. groupTakes(y, p) = groupTakes(x, p)
      BY <1>1, <2>3 DEF groupTakes, CondParts
    <3> QED BY <3>1, TakesNat, CondNeedsNat
  <2> QED BY <2>1, <2>2, <2>3
<1> QED BY <1>1, <1>3 DEF TakesWithin, y

\* What a condition makes of a group: nothing, an end, a range, an IN or an equality.
Resolved(v, x, c, y) ==
    \/ y = x \/ y = [x EXCEPT !.err = TRUE] \/ y = [x EXCEPT !.dead = TRUE]
    \/ c.range # {} /\ y = [x EXCEPT !.rngs = Append(@, c)]
    \/ isIn(c) /\ c.dim \in Dims /\ y = [x EXCEPT !.ins = Append(@, [dim |-> c.dim, ids |-> inIDs(v, c)])]
    \/ /\ c.range = {} /\ c.in = <<>> /\ c.dim \in Dims /\ idOf(v, c.dim, c.value) # {}
       /\ y = [x EXCEPT !.conds = Append(@, [dim |-> c.dim, id |-> TheId(idOf(v, c.dim, c.value))])]

LEMMA ResolveIs ==
    ASSUME NEW v, NEW x, NEW c
    PROVE  Resolved(v, x, c, resolve(v, x, c))
<1> DEFINE y == resolve(v, x, c)
           e == [dim |-> c.dim, ids |-> inIDs(v, c)]
           f == [dim |-> c.dim, id |-> TheId(idOf(v, c.dim, c.value))]
<1>1. CASE x.err \/ x.dead
  <2>1. y = x
    BY <1>1 DEF resolve
  <2> QED BY <2>1 DEF Resolved
<1>2. CASE ~(x.err \/ x.dead) /\ c.dim \notin Dims
  <2>1. y = [x EXCEPT !.err = TRUE]
    BY <1>2 DEF resolve
  <2> QED BY <2>1 DEF Resolved
<1>3. CASE ~(x.err \/ x.dead) /\ c.dim \in Dims /\ c.range # {}
  <2>1. \/ y = [x EXCEPT !.err = TRUE]
        \/ y = [x EXCEPT !.rngs = Append(@, c)]
    BY <1>3 DEF resolve
  <2> HIDE DEF y
  <2>2. Resolved(v, x, c, y)
    BY <1>3, <2>1 DEF Resolved
  <2> QED BY <2>2 DEF y
<1>4. CASE ~(x.err \/ x.dead) /\ c.dim \in Dims /\ c.range = {} /\ c.in # <<>>
  <2>1. \/ y = [x EXCEPT !.err = TRUE] \/ y = [x EXCEPT !.dead = TRUE]
        \/ y = [x EXCEPT !.ins = Append(@, e)]
    BY <1>4 DEF resolve
  <2>2. isIn(c)
    BY <1>4 DEF isIn
  <2> HIDE DEF y
  <2>3. Resolved(v, x, c, y)
    BY <1>4, <2>1, <2>2 DEF Resolved
  <2> QED BY <2>3 DEF y
<1>5. CASE ~(x.err \/ x.dead) /\ c.dim \in Dims /\ c.range = {} /\ c.in = <<>>
  <2>1. \/ y = [x EXCEPT !.err = TRUE] \/ y = [x EXCEPT !.dead = TRUE]
        \/ idOf(v, c.dim, c.value) # {} /\ y = [x EXCEPT !.conds = Append(@, f)]
    BY <1>5 DEF resolve
  <2> HIDE DEF y
  <2>2. Resolved(v, x, c, y)
    BY <1>5, <2>1 DEF Resolved
  <2> QED BY <2>2 DEF y
<1> QED BY <1>1, <1>2, <1>3, <1>4, <1>5

LEMMA ResolveTakes ==
    ASSUME NEW v \in Views, NEW x \in Groups, NEW c \in Conds
    PROVE  resolve(v, x, c) \in Groups /\ TakesWithin(x, resolve(v, x, c), c)
<1> DEFINE y == resolve(v, x, c)
<1>1. CASE \/ y = x \/ y = [x EXCEPT !.err = TRUE] \/ y = [x EXCEPT !.dead = TRUE]
  <2>1. y \in Groups /\ y.conds = x.conds /\ y.ins = x.ins /\ y.rngs = x.rngs
    <3> HIDE DEF y
    <3> QED BY <1>1 DEF Groups
  <2> HIDE DEF y
  <2>2. TakesWithin(x, y, c)
    BY <2>1, SameTakes
  <2> QED BY <2>1, <2>2 DEF y
<1>2. CASE c.range # {} /\ y = [x EXCEPT !.rngs = Append(@, c)]
  BY <1>2, RangeTakes
<1> DEFINE e == [dim |-> c.dim, ids |-> inIDs(v, c)]
           f == [dim |-> c.dim, id |-> TheId(idOf(v, c.dim, c.value))]
<1>3. CASE isIn(c) /\ c.dim \in Dims /\ y = [x EXCEPT !.ins = Append(@, e)]
  <2>1. e \in [dim : Dims, ids : Seq(Nat)] /\ Len(e.ids) <= Len(c.in)
    BY <1>3, InIdsIs
  <2> HIDE DEF e
  <2> QED BY <1>3, <2>1, InTakes
<1>4. CASE /\ c.range = {} /\ c.in = <<>> /\ c.dim \in Dims /\ idOf(v, c.dim, c.value) # {}
           /\ y = [x EXCEPT !.conds = Append(@, f)]
  <2>1. f \in [dim : Dims, id : Nat]
    BY <1>4, IdOfNat
  <2> HIDE DEF f
  <2> QED BY <1>4, <2>1, EqTakes
<1>5. \/ y = x \/ y = [x EXCEPT !.err = TRUE] \/ y = [x EXCEPT !.dead = TRUE]
      \/ c.range # {} /\ y = [x EXCEPT !.rngs = Append(@, c)]
      \/ isIn(c) /\ c.dim \in Dims /\ y = [x EXCEPT !.ins = Append(@, e)]
      \/ /\ c.range = {} /\ c.in = <<>> /\ c.dim \in Dims /\ idOf(v, c.dim, c.value) # {}
         /\ y = [x EXCEPT !.conds = Append(@, f)]
  BY ResolveIs DEF Resolved
<1> HIDE DEF y, e, f
<1> QED BY <1>1, <1>2, <1>3, <1>4, <1>5 DEF y

ResolveOp(v, x, c) == resolve(v, x, c)

ResolveInv(v, g, n, x) ==
    x \in Groups /\ \A p \in CondParts : groupTakes(x, p) <= NeedsTo(g, p, n)

Resolves == INSTANCE Loops WITH Op <- ResolveOp, Inv <- ResolveInv

\* The group of a plan.
GroupOf(v, conds) == FoldLeft(LAMBDA x, c : resolve(v, x, c), unresolved, conds)

LEMMA GroupTakes ==
    ASSUME NEW v \in Views, NEW g \in Seq(Conds)
    PROVE  /\ GroupOf(v, g) \in Groups
           /\ \A p \in CondParts : groupTakes(GroupOf(v, g), p) <= groupNeeds(g, p) /\ groupNeeds(g, p) \in Nat
<1> DEFINE N == Len(g)
<1>0. N \in Nat /\ DOMAIN g = 1 .. N
  OBVIOUS
<1>1. GroupOf(v, g) = Resolves!Fold(v, unresolved, g)
  BY DEF GroupOf, FoldLeft, MapThenFoldSet, Max, Resolves!Fold, Resolves!MapThenFoldSet, Resolves!Top, ResolveOp
<1>2. ResolveInv(v, g, 0, unresolved)
  <2>1. unresolved \in Groups
    BY DEF unresolved, Groups
  <2>2. ASSUME NEW p \in CondParts PROVE groupTakes(unresolved, p) <= NeedsTo(g, p, 0)
    <3>1. ASSUME NEW s, DOMAIN s = 1 .. 0 PROVE SumSeq(s) = 0
      BY <3>1, SumOfZeros
    <3>2. NeedsTo(g, p, 0) = 0
      <4> DEFINE s == [j \in 1 .. 0 |-> condNeeds(g[j], p)]
      <4>1. DOMAIN s = 1 .. 0
        OBVIOUS
      <4> HIDE DEF s
      <4>2. SumSeq(s) = 0
        BY <3>1, <4>1
      <4> QED BY <4>2 DEF NeedsTo, s
    <3>3. CASE p = "inPool"
      <4> DEFINE s == [i \in DOMAIN unresolved.ins |-> Len(unresolved.ins[i].ids)]
      <4>1. DOMAIN s = 1 .. 0
        BY DEF unresolved
      <4>2. groupTakes(unresolved, p) = SumSeq(s)
        BY <3>3 DEF groupTakes
      <4> HIDE DEF s
      <4> QED BY <3>1, <3>2, <4>1, <4>2
    <3>4. CASE p # "inPool"
      BY <3>2, <3>4 DEF groupTakes, CondParts, unresolved
    <3> QED BY <3>3, <3>4
  <2> QED BY <2>1, <2>2 DEF ResolveInv
<1>3. ASSUME NEW n \in 0 .. N - 1, NEW x, ResolveInv(v, g, n, x)
      PROVE  ResolveInv(v, g, n + 1, ResolveOp(v, x, g[n + 1]))
  <2> DEFINE y == resolve(v, x, g[n + 1])
  <2>1. x \in Groups /\ g[n + 1] \in Conds /\ \A p \in CondParts : groupTakes(x, p) <= NeedsTo(g, p, n)
    BY <1>3 DEF ResolveInv
  <2>2. y \in Groups /\ TakesWithin(x, y, g[n + 1])
    BY <2>1, ResolveTakes
  <2>3. ResolveOp(v, x, g[n + 1]) = y
    BY DEF ResolveOp
  <2> HIDE DEF y
  <2>4. ASSUME NEW p \in CondParts PROVE groupTakes(y, p) <= NeedsTo(g, p, n + 1)
    <3>1. groupTakes(y, p) <= groupTakes(x, p) + condNeeds(g[n + 1], p) /\ groupTakes(x, p) <= NeedsTo(g, p, n)
      BY <2>1, <2>2 DEF TakesWithin
    <3>2. groupTakes(x, p) \in Nat /\ groupTakes(y, p) \in Nat
      BY <2>1, <2>2, TakesNat
    <3>3. /\ NeedsTo(g, p, n) \in Nat /\ condNeeds(g[n + 1], p) \in Nat
          /\ NeedsTo(g, p, n + 1) = NeedsTo(g, p, n) + condNeeds(g[n + 1], p)
      BY NeedsToStep
    <3> QED BY <3>1, <3>2, <3>3
  <2> QED BY <2>2, <2>3, <2>4 DEF ResolveInv
<1> HIDE DEF N
<1>4. ResolveInv(v, g, N, Resolves!Fold(v, unresolved, g))
  BY <1>0, <1>2, <1>3, Resolves!FoldInvariant
<1>5. ASSUME NEW p \in CondParts PROVE groupNeeds(g, p) = NeedsTo(g, p, N) /\ groupNeeds(g, p) \in Nat
  <2> DEFINE s == [j \in DOMAIN g |-> condNeeds(g[j], p)]
  <2>1. DOMAIN s = 1 .. N /\ \A j \in 1 .. N : s[j] \in Nat
    <3>1. \A j \in 1 .. N : g[j] \in Conds
      BY <1>0
    <3> QED BY <1>0, <3>1, CondNeedsNat
  <2>2. groupNeeds(g, p) = SumSeq(s) /\ NeedsTo(g, p, N) = SumSeq(s)
    BY <1>0 DEF groupNeeds, NeedsTo
  <2> HIDE DEF s
  <2> QED BY <1>0, <2>1, <2>2, SumNat
<1> QED BY <1>1, <1>4, <1>5 DEF ResolveInv

-----------------------------------------------------------------------------
(* A plan has no more intervals than there is room for, and at least one.     *)

Iv == [lo : Nat, hi : Nat]

LEMMA FirstAndLast ==
    ASSUME NEW S, NEW e \in Seq(S), e # <<>>
    PROVE  Head(e) \in S /\ Last(e) \in S
<1>1. Len(e) \in Nat /\ Len(e) # 0
  OBVIOUS
<1>2. Head(e) = e[1] /\ Last(e) = e[Len(e)]
  BY <1>1 DEF Last
<1> QED BY <1>1, <1>2

LEMMA CandidatesIs ==
    ASSUME NEW v \in Views, NEW g \in Groups, NEW d \in Dims
    PROVE  /\ candidates(v, g, d) \in Seq(Nat)
           /\ eqsOn(g, d) # <<>> => Len(candidates(v, g, d)) = 1
<1>1. CASE eqsOn(g, d) # <<>>
  <2> DEFINE e == eqsOn(g, d)
  <2>1. g.conds \in Seq([dim : Dims, id : Nat])
    BY DEF Groups
  <2>2. e \in Seq([dim : Dims, id : Nat])
    BY <2>1, PickLen DEF eqsOn
  <2>3. candidates(v, g, d) = <<Last(e).id>>
    BY <1>1 DEF candidates
  <2> HIDE DEF e
  <2>4. Last(e) \in [dim : Dims, id : Nat]
    BY <1>1, <2>2, FirstAndLast DEF e
  <2>5. Last(e).id \in Nat
    BY <2>4
  <2> QED BY <2>3, <2>5
<1>2. CASE eqsOn(g, d) = <<>> /\ insOn(g, d) = <<>>
  BY <1>2 DEF candidates
<1>3. CASE eqsOn(g, d) = <<>> /\ insOn(g, d) # <<>>
  <2> DEFINE w == insOn(g, d)
             ids == Head(w).ids
             at == Search(Len(ids), {i \in DOMAIN ids : ids[i] >= Len(v.base.dicts[d])})
  <2>1. g.ins \in Seq([dim : Dims, ids : Seq(Nat)])
    BY DEF Groups
  <2>2. w \in Seq([dim : Dims, ids : Seq(Nat)])
    BY <2>1, PickLen DEF insOn
  <2>3. candidates(v, g, d) = SubSeq(ids, 1, at - 1)
    BY <1>3 DEF candidates
  <2>4. ids \in Seq(Nat)
    <3>1. w # <<>>
      BY <1>3
    <3> HIDE DEF w
    <3>2. Head(w) \in [dim : Dims, ids : Seq(Nat)]
      BY <2>2, <3>1, FirstAndLast
    <3> QED BY <3>2
  <2> HIDE DEF ids
  <2>5. at \in 1 .. Len(ids) + 1
    <3>1. Len(ids) \in Nat
      BY <2>4
    <3> QED BY <3>1, SearchEdge
  <2> HIDE DEF at
  <2> QED BY <1>3, <2>3, <2>4, <2>5
<1> QED BY <1>1, <1>2, <1>3

LEMMA WidenIs ==
    ASSUME NEW v \in Views, NEW g \in Groups, NEW d \in Dims, NEW combos \in Seq(Seq(Nat))
    PROVE  /\ widen(v, g, combos, d) \in Seq(Seq(Nat))
           /\ Len(widen(v, g, combos, d)) = Len(combos) * Len(candidates(v, g, d))
<1> DEFINE ids == candidates(v, g, d)
           with(c) == [j \in DOMAIN ids |-> Append(combos[c], ids[j])]
           ss == [c \in DOMAIN combos |-> with(c)]
<1>1. ids \in Seq(Nat)
  BY CandidatesIs
<1>2. widen(v, g, combos, d) = Joined(ss)
  BY DEF widen
<1> HIDE DEF ids
<1>3. ASSUME NEW c \in DOMAIN combos PROVE with(c) \in Seq(Seq(Nat)) /\ Len(with(c)) = Len(ids)
  <2>1. \A j \in DOMAIN ids : Append(combos[c], ids[j]) \in Seq(Nat)
    BY <1>1
  <2>2. DOMAIN ids = 1 .. Len(ids) /\ Len(ids) \in Nat
    BY <1>1
  <2> QED BY <2>1, <2>2
<1>4. ss \in Seq(Seq(Seq(Nat))) /\ Len(ss) = Len(combos) /\ DOMAIN ss = DOMAIN combos
  <2>1. DOMAIN combos = 1 .. Len(combos) /\ Len(combos) \in Nat
    OBVIOUS
  <2> HIDE DEF with
  <2> QED BY <1>3, <2>1
<1>5. \A c \in DOMAIN ss : Len(ss[c]) = Len(ids)
  <2> HIDE DEF with
  <2> QED BY <1>3, <1>4
<1>6. Len(ids) \in Nat
  BY <1>1
<1> HIDE DEF ss
<1>7. Joined(ss) \in Seq(Seq(Nat)) /\ Len(Joined(ss)) = Len(ss) * Len(ids)
  BY <1>4, <1>5, <1>6, JoinedIs
<1> QED BY <1>2, <1>4, <1>7 DEF ids

CoverOp(c, x, i) == cover(c.v, c.g, c.slots, x, i)

\* Some of the first n dimensions are covered, with combinations that fit.
Covering(slots, n, x) ==
    \E k \in 0 .. n, combos \in Seq(Seq(Nat)), stop \in BOOLEAN :
        /\ x = [k |-> k, combos |-> combos, stop |-> stop]
        /\ Len(combos) <= 1 \/ Len(combos) <= slots

CoverInv(c, s, n, x) == Covering(c.slots, n, x)

Covers == INSTANCE Loops WITH Op <- CoverOp, Inv <- CoverInv

Uncovered == [k |-> 0, combos |-> <<<<>>>>, stop |-> FALSE]

LEMMA PrefixOrder ==
    /\ Cardinality(IndexDims) \in Nat /\ Prefix = 1 .. Cardinality(IndexDims)
    /\ \A i \in Prefix : DimOrder[i] \in Dims
<1>1. IndexDims \subseteq Dims
  BY SchemaAssumption
<1>2. Cardinality(IndexDims) \in Nat
  BY <1>1, SchemaAssumption, FS_Subset, FS_CardinalityType
<1> QED BY <1>1, <1>2, OrderAssumption DEF Prefix

LEMMA CoverStep ==
    ASSUME NEW v \in Views, NEW g \in Groups, NEW slots \in Int, NEW i \in Prefix,
           NEW k \in 0 .. i - 1, NEW combos \in Seq(Seq(Nat)), NEW stop \in BOOLEAN,
           Len(combos) <= 1 \/ Len(combos) <= slots
    PROVE  Covering(slots, i, cover(v, g, slots, [k |-> k, combos |-> combos, stop |-> stop], i))
<1> DEFINE x == [k |-> k, combos |-> combos, stop |-> stop]
           d == DimOrder[i]
           nRows == Len(v.base.rows)
           L == Len(candidates(v, g, d))
           n == Len(combos) * L
           stops == eqsOn(g, d) = <<>> /\ (n = 0 \/ n * bitLen(nRows) > nRows \/ n > slots)
           w == widen(v, g, combos, d)
<1>0. i \in Nat /\ k \in 0 .. i
  BY PrefixOrder
<1>1. d \in Dims
  BY PrefixOrder
<1>2. w \in Seq(Seq(Nat)) /\ Len(w) = n
  BY <1>1, WidenIs
<1>3. cover(v, g, slots, x, i) = IF stop \/ stops THEN [x EXCEPT !.stop = TRUE]
                                ELSE [x EXCEPT !.k = i, !.combos = w]
  BY DEF cover
<1>4. L \in Nat /\ Len(combos) \in Nat /\ (eqsOn(g, d) # <<>> => L = 1)
  BY <1>1, CandidatesIs
<1>5. n \in Nat /\ (eqsOn(g, d) # <<>> => n = Len(combos))
  <2> HIDE DEF L
  <2> QED BY <1>4
<1>6. ~stops => n <= slots \/ n = Len(combos)
  <2> HIDE DEF n, nRows
  <2> QED BY <1>5
<1> HIDE DEF w, stops, n, d
<1>7. CASE stop \/ stops
  <2>1. cover(v, g, slots, x, i) = [k |-> k, combos |-> combos, stop |-> TRUE]
    BY <1>3, <1>7
  <2> QED BY <1>0, <2>1 DEF Covering
<1>8. CASE ~(stop \/ stops)
  <2>1. cover(v, g, slots, x, i) = [k |-> i, combos |-> w, stop |-> stop]
    BY <1>3, <1>8
  <2>2. Len(w) <= 1 \/ Len(w) <= slots
    BY <1>2, <1>6, <1>8
  <2>3. i \in 0 .. i
    BY <1>0
  <2> QED BY <1>2, <2>1, <2>2, <2>3 DEF Covering
<1> QED BY <1>7, <1>8

LEMMA CoveredIs ==
    ASSUME NEW v \in Views, NEW g \in Groups, NEW slots \in Int
    PROVE  Covering(slots, Cardinality(IndexDims), covered(v, g, slots))
<1> DEFINE c == [v |-> v, g |-> g, slots |-> slots]
           s == [i \in Prefix |-> i]
           N == Cardinality(IndexDims)
<1>0. N \in Nat /\ DOMAIN s = 1 .. N
  BY PrefixOrder
<1>1. covered(v, g, slots) = Covers!Fold(c, Uncovered, s)
  BY DEF covered, FoldLeft, MapThenFoldSet, Max, Covers!Fold, Covers!MapThenFoldSet, Covers!Top, CoverOp, Uncovered
<1>2. CoverInv(c, s, 0, Uncovered)
  <2>1. <<<<>>>> \in Seq(Seq(Nat)) /\ Len(<<<<>>>>) = 1 /\ 0 \in 0 .. 0
    OBVIOUS
  <2> DEFINE w == <<<<>>>>
  <2>2. w \in Seq(Seq(Nat)) /\ Len(w) <= 1
    BY <2>1
  <2>3. Uncovered = [k |-> 0, combos |-> w, stop |-> FALSE]
    BY DEF Uncovered
  <2> HIDE DEF w
  <2> QED BY <2>1, <2>2, <2>3 DEF CoverInv, Covering
<1>3. ASSUME NEW n \in 0 .. N - 1, NEW x, CoverInv(c, s, n, x)
      PROVE  CoverInv(c, s, n + 1, CoverOp(c, x, s[n + 1]))
  <2>1. PICK k \in 0 .. n, combos \in Seq(Seq(Nat)), stop \in BOOLEAN :
           /\ x = [k |-> k, combos |-> combos, stop |-> stop]
           /\ Len(combos) <= 1 \/ Len(combos) <= slots
    BY <1>3 DEF CoverInv, Covering
  <2> DEFINE i == n + 1
  <2>2. s[n + 1] = i /\ i \in Prefix /\ k \in 0 .. i - 1
    BY <1>0
  <2>3. CoverOp(c, x, s[n + 1]) = cover(v, g, slots, x, i)
    BY <2>2 DEF CoverOp
  <2> HIDE DEF i, s
  <2>4. Covering(slots, i, cover(v, g, slots, [k |-> k, combos |-> combos, stop |-> stop], i))
    BY <2>1, <2>2, CoverStep
  <2>5. CoverInv(c, s, i, CoverOp(c, x, s[n + 1]))
    BY <2>1, <2>3, <2>4 DEF CoverInv
  <2> QED BY <2>5 DEF i
<1>4. CoverInv(c, s, N, Covers!Fold(c, Uncovered, s))
  <2> HIDE DEF N, c, s
  <2> QED BY <1>0, <1>2, <1>3, Covers!FoldInvariant
<1> QED BY <1>1, <1>4 DEF CoverInv

LEMMA IntervalIs ==
    ASSUME NEW v \in Views, NEW combo
    PROVE  interval(v, combo) \in Iv
<1> DEFINE keys == v.base.keys
           lo == SumSeq([i \in DOMAIN combo |-> combo[i] * 2^v.base.shifts[i]])
           hi == lo + 2^v.base.shifts[Len(combo)] - 1
           a == {r \in DOMAIN keys : keys[r] >= lo}
           b == {r \in DOMAIN keys : keys[r] > hi}
<1>1. interval(v, combo) = [lo |-> Search(Len(keys), a), hi |-> Search(Len(keys), b)]
  BY DEF interval
<1>2. Len(keys) \in Nat
  BY ViewsAssumption DEF ReadsRight, IsColumns
<1> HIDE DEF keys, a, b
<1>3. Search(Len(keys), a) \in 1 .. Len(keys) + 1
  BY <1>2, SearchEdge
<1>4. Search(Len(keys), b) \in 1 .. Len(keys) + 1
  BY <1>2, SearchEdge
<1> QED BY <1>1, <1>2, <1>3, <1>4 DEF Iv

\* The intervals of a plan: rows each, and no more than there is room for.
IvsWithin(ivs, slots) ==
    /\ ivs \in Seq(Iv) /\ (Len(ivs) <= 1 \/ Len(ivs) <= slots)
    /\ \A i \in DOMAIN ivs : ivs[i].lo < ivs[i].hi

LEMMA PlanIs ==
    ASSUME NEW v \in Views, NEW g \in Groups, NEW slots \in Int
    PROVE  planOf(v, g, slots).group = g /\ IvsWithin(planOf(v, g, slots).ivs, slots)
<1> DEFINE cov == covered(v, g, slots)
           nRows == Len(v.base.rows)
           all == IF cov.k = 0 THEN <<[lo |-> 1, hi |-> nRows + 1]>>
                  ELSE [i \in DOMAIN cov.combos |-> interval(v, cov.combos[i])]
           S == {i \in DOMAIN all : all[i].lo < all[i].hi}
           possible == ~g.err /\ ~g.dead /\ basePossible(v, g)
<1>1. planOf(v, g, slots).group = g /\ planOf(v, g, slots).ivs = IF ~possible THEN <<>> ELSE Pick(all, S)
  BY DEF planOf, planFrom
<1>2. PICK k \in 0 .. Cardinality(IndexDims), combos \in Seq(Seq(Nat)), stop \in BOOLEAN :
         /\ cov = [k |-> k, combos |-> combos, stop |-> stop]
         /\ Len(combos) <= 1 \/ Len(combos) <= slots
  BY CoveredIs DEF Covering
<1>3. cov.combos = combos
  BY <1>2
<1> HIDE DEF cov
<1>4. nRows \in Nat
  BY ViewsAssumption DEF ReadsRight, IsColumns
<1> HIDE DEF nRows
<1>5. all \in Seq(Iv) /\ (Len(all) <= 1 \/ Len(all) <= slots)
  <2>1. CASE cov.k = 0
    <3>1. [lo |-> 1, hi |-> nRows + 1] \in Iv
      BY <1>4 DEF Iv
    <3> QED BY <2>1, <3>1
  <2>2. CASE cov.k # 0
    <3>1. \A i \in DOMAIN combos : interval(v, combos[i]) \in Iv
      BY IntervalIs
    <3>2. DOMAIN combos = 1 .. Len(combos) /\ Len(combos) \in Nat
      OBVIOUS
    <3>3. all = [i \in 1 .. Len(combos) |-> interval(v, combos[i])]
      BY <1>3, <2>2, <3>2
    <3>4. all \in Seq(Iv) /\ Len(all) = Len(combos)
      <4> DEFINE N == Len(combos)
      <4>1. N \in Nat /\ \A i \in 1 .. N : interval(v, combos[i]) \in Iv
        BY <3>1, <3>2
      <4>2. all = [i \in 1 .. N |-> interval(v, combos[i])]
        BY <3>3
      <4> HIDE DEF all, N
      <4>3. all \in [1 .. N -> Iv]
        BY <4>1, <4>2
      <4>4. all \in Seq(Iv) /\ Len(all) = N
        BY <4>1, <4>3
      <4> QED BY <4>4 DEF N
    <3> QED BY <1>2, <3>4
  <2> QED BY <2>1, <2>2
<1> DEFINE t == Pick(all, S)
<1>6. t \in Seq(Iv) /\ Len(t) <= Len(all) /\ \A i \in DOMAIN t : \E j \in S \cap DOMAIN all : t[i] = all[j]
  <2> HIDE DEF all, S
  <2> QED BY <1>5, PickLen
<1>7. \A j \in S : all[j].lo < all[j].hi
  OBVIOUS
<1> HIDE DEF all, S, possible
<1>8. \A i \in DOMAIN t : t[i].lo < t[i].hi
  BY <1>6, <1>7
<1>9. Len(t) \in Nat /\ Len(all) \in Nat
  BY <1>5, <1>6
<1> HIDE DEF t
<1>10. IvsWithin(t, slots)
  BY <1>5, <1>6, <1>8, <1>9 DEF IvsWithin
<1>11. IvsWithin(<<>>, slots)
  BY DEF IvsWithin
<1> QED BY <1>1, <1>10, <1>11 DEF t

\* Plans, one for each of the first groups.
PlanSet(v) == {planOf(v, g, r) : g \in Groups, r \in Int}

PlanOp(c, plans, g) == planNext(c.v, c.groups, c.cap, plans, g)

Failed(plans) == \E i \in DOMAIN plans : plans[i].group.err

PlansWithin(v, groups, cap, plans, n) ==
    /\ plans \in Seq(PlanSet(v)) /\ Len(plans) <= n
    /\ ~Failed(plans) => Len(plans) = n
    /\ \A i \in DOMAIN plans : plans[i].group = GroupOf(v, groups[i])
    /\ Len(intervals(plans)) <= cap - (Len(groups) - Len(plans))

PlanInv(c, s, n, plans) == PlansWithin(c.v, c.groups, c.cap, plans, n)

Planning == INSTANCE Loops WITH Op <- PlanOp, Inv <- PlanInv

LEMMA PlanSetIs ==
    ASSUME NEW v \in Views, NEW p \in PlanSet(v)
    PROVE  p.group \in Groups /\ p.ivs \in Seq(Iv) /\ \A i \in DOMAIN p.ivs : p.ivs[i].lo < p.ivs[i].hi
<1>1. PICK g \in Groups, r \in Int : p = planOf(v, g, r)
  BY DEF PlanSet
<1>2. planOf(v, g, r).group = g /\ IvsWithin(planOf(v, g, r).ivs, r)
  BY PlanIs
<1> QED BY <1>1, <1>2 DEF IvsWithin

Wide == {w \in Iv : w.lo < w.hi}

LEMMA IntervalsOf ==
    ASSUME NEW v \in Views, NEW plans \in Seq(PlanSet(v))
    PROVE  intervals(plans) \in Seq(Wide)
<1> DEFINE ss == [i \in DOMAIN plans |-> plans[i].ivs]
<1>1. ASSUME NEW i \in DOMAIN plans PROVE plans[i].ivs \in Seq(Wide)
  <2>1. plans[i] \in PlanSet(v)
    OBVIOUS
  <2>2. plans[i].ivs \in Seq(Iv) /\ \A j \in DOMAIN plans[i].ivs : plans[i].ivs[j].lo < plans[i].ivs[j].hi
    BY <2>1, PlanSetIs
  <2> DEFINE t == plans[i].ivs
  <2>3. t \in Seq(Iv) /\ \A j \in DOMAIN t : t[j] \in Wide
    BY <2>2 DEF Wide
  <2> HIDE DEF t
  <2>4. t \in Seq(Wide)
    BY <2>3
  <2> QED BY <2>4 DEF t
<1>2. ss \in Seq(Seq(Wide))
  <2>1. DOMAIN plans = 1 .. Len(plans) /\ Len(plans) \in Nat
    OBVIOUS
  <2> QED BY <1>1, <2>1
<1>3. intervals(plans) = Joined(ss)
  BY DEF intervals
<1> HIDE DEF ss
<1> QED BY <1>2, <1>3, JoinedIs

LEMMA IntervalsMore ==
    ASSUME NEW v \in Views, NEW plans \in Seq(PlanSet(v)), NEW p \in PlanSet(v)
    PROVE  Len(intervals(Append(plans, p))) = Len(intervals(plans)) + Len(p.ivs)
<1> DEFINE n == Len(plans)
           more == Append(plans, p)
           ss == [i \in DOMAIN plans |-> plans[i].ivs]
           tt == [i \in DOMAIN more |-> more[i].ivs]
<1>1. /\ n \in Nat /\ DOMAIN plans = 1 .. n /\ DOMAIN more = 1 .. n + 1
      /\ more[n + 1] = p /\ \A i \in 1 .. n : more[i] = plans[i]
  OBVIOUS
<1> HIDE DEF more, n
<1>2. /\ DOMAIN ss = 1 .. n /\ DOMAIN tt = 1 .. n + 1 /\ tt[n + 1] = p.ivs
      /\ \A i \in 1 .. n : tt[i] = ss[i]
  BY <1>1
<1>3. intervals(plans) = Joined(ss) /\ intervals(more) = Joined(tt)
  BY DEF intervals
<1> HIDE DEF ss, tt
<1>4. intervals(more) = intervals(plans) \o p.ivs
  BY <1>1, <1>2, <1>3, JoinedMore
<1>5. intervals(plans) \in Seq(Wide)
  BY IntervalsOf
<1>6. intervals(plans) \in Seq(Iv)
  BY <1>5 DEF Wide
<1>7. p.ivs \in Seq(Iv)
  BY PlanSetIs
<1> DEFINE a == intervals(plans)
           b == p.ivs
<1> HIDE DEF a, b
<1>8. Len(a \o b) = Len(a) + Len(b)
  BY <1>6, <1>7 DEF a, b
<1> QED BY <1>4, <1>8 DEF more, a, b

LEMMA PlanNextIs ==
    ASSUME NEW v \in Views, NEW groups \in Seq(Seq(Conds)), NEW cap \in Int,
           NEW n \in 0 .. Len(groups) - 1, NEW plans, PlansWithin(v, groups, cap, plans, n)
    PROVE  PlansWithin(v, groups, cap, planNext(v, groups, cap, plans, groups[n + 1]), n + 1)
<1> DEFINE G == Len(groups)
           m == Len(plans)
           L == Len(intervals(plans))
<1>0. /\ plans \in Seq(PlanSet(v)) /\ m <= n /\ (~Failed(plans) => m = n)
      /\ \A i \in DOMAIN plans : plans[i].group = GroupOf(v, groups[i])
      /\ L <= cap - (G - m)
  BY DEF PlansWithin
<1>1. G \in Nat /\ m \in Nat /\ n \in Nat /\ n < G /\ n + 1 \in DOMAIN groups
  BY <1>0
<1>2. L \in Nat
  BY <1>0, IntervalsOf
<1>3. CASE Failed(plans)
  <2>1. planNext(v, groups, cap, plans, groups[n + 1]) = plans
    BY <1>3 DEF planNext, Failed
  <2>2. m <= n + 1
    BY <1>0, <1>1
  <2> QED BY <1>0, <1>3, <2>1, <2>2 DEF PlansWithin
<1>4. CASE ~Failed(plans)
  <2> DEFINE g == GroupOf(v, groups[n + 1])
             rm == room(cap, plans, groups)
             p == planOf(v, g, rm)
             more == Append(plans, p)
  <2>1. m = n
    BY <1>0, <1>4
  <2>2. rm \in Int /\ rm >= 1 /\ L + rm = cap - (G - (m + 1))
    <3>1. rm = cap - L - (G - m - 1)
      BY DEF room
    <3> HIDE DEF G, m, L, rm
    <3> QED BY <1>0, <1>1, <1>2, <3>1
  <2>3. groups[n + 1] \in Seq(Conds)
    BY <1>1
  <2>4. g \in Groups
    BY <2>3, GroupTakes
  <2>5. planNext(v, groups, cap, plans, groups[n + 1]) = more
    BY <1>4 DEF planNext, Failed, plan, GroupOf
  <2> HIDE DEF g, rm
  <2>6. p.group = g /\ IvsWithin(p.ivs, rm)
    BY <2>2, <2>4, PlanIs
  <2>7. p \in PlanSet(v)
    BY <2>2, <2>4 DEF PlanSet
  <2> HIDE DEF p
  <2>8. more \in Seq(PlanSet(v)) /\ Len(more) = m + 1 /\ DOMAIN more = 1 .. m + 1
        /\ more[m + 1] = p /\ \A i \in 1 .. m : more[i] = plans[i]
    BY <1>0, <2>7
  <2>9. Len(intervals(more)) = L + Len(p.ivs)
    BY <1>0, <2>7, IntervalsMore
  <2> HIDE DEF more
  <2>10. Len(p.ivs) <= rm /\ Len(p.ivs) \in Nat
    BY <2>2, <2>6 DEF IvsWithin
  <2>11. Len(intervals(more)) <= cap - (G - Len(more))
    <3> HIDE DEF G, m, L
    <3> QED BY <1>1, <1>2, <2>2, <2>8, <2>9, <2>10
  <2>12. ASSUME NEW i \in DOMAIN more PROVE more[i].group = GroupOf(v, groups[i])
    <3>1. CASE i = m + 1
      BY <2>1, <2>6, <2>8, <3>1 DEF g
    <3>2. CASE i # m + 1
      <4>1. i \in 1 .. m /\ i \in DOMAIN plans
        BY <1>0, <1>1, <2>8, <2>12, <3>2
      <4> QED BY <1>0, <2>8, <4>1
    <3> QED BY <3>1, <3>2
  <2>13. Len(more) <= n + 1 /\ Len(more) = n + 1
    BY <1>1, <2>1, <2>8
  <2> QED BY <2>5, <2>8, <2>11, <2>12, <2>13 DEF PlansWithin
<1> QED BY <1>3, <1>4

LEMMA NoIntervals ==
    Len(intervals(<<>>)) = 0
<1> DEFINE none == <<>>
           ss == [i \in DOMAIN none |-> none[i].ivs]
<1>1. ss = <<>> /\ ss \in Seq(Seq(Nat)) /\ Len(ss) = 0
  OBVIOUS
<1>2. intervals(<<>>) = Joined(ss)
  BY DEF intervals
<1>3. \A i \in DOMAIN ss : Len(ss[i]) = 0
  BY <1>1
<1> HIDE DEF ss
<1>4. Len(Joined(ss)) = Len(ss) * 0
  BY <1>1, <1>3, JoinedIs
<1> QED BY <1>1, <1>2, <1>4

LEMMA NoPlans ==
    ASSUME NEW v \in Views, NEW groups \in Seq(Seq(Conds)), NEW cap \in Int, Len(groups) <= cap
    PROVE  PlansWithin(v, groups, cap, <<>>, 0)
<1>1. Len(intervals(<<>>)) = 0
  BY NoIntervals
<1> DEFINE ps == <<>>
<1>2. ps \in Seq(PlanSet(v)) /\ Len(ps) = 0 /\ DOMAIN ps = {} /\ Len(intervals(ps)) = 0 /\ Len(groups) \in Nat
  BY <1>1
<1> HIDE DEF ps
<1>3. PlansWithin(v, groups, cap, ps, 0)
  BY <1>2 DEF PlansWithin
<1> QED BY <1>3 DEF ps

LEMMA PlanAllIs ==
    ASSUME NEW v \in Views, NEW groups \in Seq(Seq(Conds)), NEW cap \in Int, Len(groups) <= cap
    PROVE  PlansWithin(v, groups, cap, planAll(v, groups, cap), Len(groups))
<1> DEFINE c == [v |-> v, groups |-> groups, cap |-> cap]
           N == Len(groups)
<1>0. N \in Nat /\ DOMAIN groups = 1 .. N
  OBVIOUS
<1>1. planAll(v, groups, cap) = Planning!Fold(c, <<>>, groups)
  BY DEF planAll, FoldLeft, MapThenFoldSet, Max, Planning!Fold, Planning!MapThenFoldSet, Planning!Top, PlanOp
<1>2. PlanInv(c, groups, 0, <<>>)
  BY NoPlans DEF PlanInv
<1>3. ASSUME NEW n \in 0 .. N - 1, NEW plans, PlanInv(c, groups, n, plans)
      PROVE  PlanInv(c, groups, n + 1, PlanOp(c, plans, groups[n + 1]))
  <2>1. PlansWithin(v, groups, cap, plans, n)
    BY <1>3 DEF PlanInv
  <2>2. PlansWithin(v, groups, cap, planNext(v, groups, cap, plans, groups[n + 1]), n + 1)
    BY <2>1, PlanNextIs
  <2> QED BY <2>2 DEF PlanInv, PlanOp
<1>4. PlanInv(c, groups, N, Planning!Fold(c, <<>>, groups))
  <2> HIDE DEF N, c
  <2> QED BY <1>0, <1>2, <1>3, Planning!FoldInvariant
<1> QED BY <1>1, <1>4 DEF PlanInv

-----------------------------------------------------------------------------
(* The count of rows ahead of the sweep and the sweep go hand in hand.        *)

CountOp(c, s, w) == counted(s, w)
SweepOp(c, s, w) == swept(s, w)
NoInv(c, s, n, x) == TRUE

Counts == INSTANCE Loops WITH Op <- CountOp, Inv <- NoInv
Sweeps == INSTANCE Loops WITH Op <- SweepOp, Inv <- NoInv

\* The count x and the sweep y agree after the same intervals, n rows ahead.
Agree(n, x, y) ==
    \E done \in Nat, rows \in Seq(Int) :
        x = [hw |-> done, rows |-> n + Len(rows)] /\ y = [done |-> done, rows |-> rows]

LEMMA AgreeStep ==
    ASSUME NEW n \in Nat, NEW x, NEW y, Agree(n, x, y), NEW w \in Wide
    PROVE  Agree(n, counted(x, w), swept(y, w))
<1>1. PICK done \in Nat, rows \in Seq(Int) :
         x = [hw |-> done, rows |-> n + Len(rows)] /\ y = [done |-> done, rows |-> rows]
  BY DEF Agree
<1>2. w.lo \in Nat /\ w.hi \in Nat /\ w.lo < w.hi /\ Len(rows) \in Nat
  BY DEF Wide, Iv
<1>3. CASE w.hi <= done
  <2>1. counted(x, w) = x /\ swept(y, w) = y
    BY <1>1, <1>3 DEF counted, swept
  <2> QED BY <2>1
<1>4. CASE ~(w.hi <= done)
  <2> DEFINE lo == IF w.lo < done THEN done ELSE w.lo
             t == [j \in 1 .. w.hi - lo |-> lo + j - 1]
             k == w.hi - lo
  <2>1. lo \in Nat /\ k \in Nat /\ clipped(w, done) = k
    BY <1>2, <1>4 DEF clipped
  <2>2. t \in Seq(Int) /\ Len(t) = k
    <3>1. t = [j \in 1 .. k |-> lo + j - 1]
      OBVIOUS
    <3> HIDE DEF lo, t, k
    <3>2. \A j \in 1 .. k : lo + j - 1 \in Int
      BY <2>1
    <3> QED BY <2>1, <3>1, <3>2
  <2>3. counted(x, w) = [hw |-> w.hi, rows |-> (n + Len(rows)) + k]
    <3> HIDE DEF k
    <3> QED BY <1>1, <1>4, <2>1 DEF counted
  <2>4. swept(y, w) = [done |-> w.hi, rows |-> rows \o t]
    BY <1>1, <1>4 DEF swept
  <2> HIDE DEF lo, t, k
  <2>5. rows \o t \in Seq(Int) /\ Len(rows \o t) = Len(rows) + k
    BY <2>2
  <2>6. (n + Len(rows)) + k = n + Len(rows \o t)
    BY <1>2, <2>1, <2>5
  <2> QED BY <1>2, <2>3, <2>4, <2>5, <2>6 DEF Agree
<1> QED BY <1>3, <1>4

LEMMA BudgetIs ==
    ASSUME NEW v \in Views, NEW plans \in Seq(PlanSet(v))
    PROVE  scanRows(v, plans) = Len(v.delta.rows) + Len(sweep(sortedIvs(plans)))
<1> DEFINE s == sortedIvs(plans)
           n == Len(v.delta.rows)
           N == Len(s)
           base == [hw |-> 1, rows |-> n]
           start == [done |-> 1, rows |-> <<>>]
<1>1. intervals(plans) \in Seq(Wide)
  BY IntervalsOf
<1>2. s \in Seq(Wide)
  BY <1>1, SortedByLo
<1>3. n \in Nat
  BY ViewsAssumption DEF ReadsRight, IsColumns
<1>4. scanRows(v, plans) = Counts!Fold(0, base, s).rows
  BY DEF scanRows, FoldLeft, MapThenFoldSet, Max, Counts!Fold, Counts!MapThenFoldSet, Counts!Top, CountOp
<1>5. sweep(s) = Sweeps!Fold(0, start, s).rows
  BY DEF sweep, FoldLeft, MapThenFoldSet, Max, Sweeps!Fold, Sweeps!MapThenFoldSet, Sweeps!Top, SweepOp
<1> HIDE DEF s, n
<1>6. N \in Nat /\ DOMAIN s = 1 .. N /\ \A i \in 1 .. N : s[i] \in Wide
  BY <1>2
<1> HIDE DEF N
<1> DEFINE a == Counts!RunOf(0, base, s, N)
           b == Sweeps!RunOf(0, start, s, N)
<1>7. Counts!IsRun(a, 0, base, s, N) /\ Counts!Fold(0, base, s) = a[N]
  BY <1>6, Counts!FoldRun
<1>8. Sweeps!IsRun(b, 0, start, s, N) /\ Sweeps!Fold(0, start, s) = b[N]
  BY <1>6, Sweeps!FoldRun
<1> HIDE DEF a, b
<1>9. /\ a[0] = base /\ b[0] = start
      /\ \A i \in 0 .. N - 1 : a[i + 1] = counted(a[i], s[i + 1]) /\ b[i + 1] = swept(b[i], s[i + 1])
  BY <1>7, <1>8 DEF Counts!IsRun, Sweeps!IsRun, CountOp, SweepOp
<1> DEFINE T == {i \in 0 .. N : ~Agree(n, a[i], b[i])}
<1>10. ASSUME T # {} PROVE FALSE
  <2>1. PICK i \in T : \A k \in T : i <= k
    <3>1. T \in SUBSET Nat
      BY <1>6
    <3> HIDE DEF T
    <3> QED BY <1>10, <3>1, LeastNatural
  <2>2. i \in 0 .. N /\ ~Agree(n, a[i], b[i])
    OBVIOUS
  <2>3. i # 0
    <3>1. Agree(n, base, start)
      <4> DEFINE rows == <<>>
      <4>1. rows \in Seq(Int) /\ Len(rows) = 0 /\ n + Len(rows) = n
        BY <1>3
      <4>2. base = [hw |-> 1, rows |-> n + Len(rows)] /\ start = [done |-> 1, rows |-> rows]
        BY <4>1
      <4> HIDE DEF rows, base, start
      <4> QED BY <4>1, <4>2 DEF Agree
    <3> QED BY <1>9, <2>2, <3>1
  <2> DEFINE k == i - 1
  <2>4. k \in 0 .. N - 1 /\ k + 1 = i /\ k \notin T /\ k \in 0 .. N /\ i \in 1 .. N
    BY <1>6, <2>1, <2>2, <2>3
  <2>5. Agree(n, a[k], b[k])
    BY <2>4
  <2> HIDE DEF k, T
  <2>6. a[i] = counted(a[k], s[i]) /\ b[i] = swept(b[k], s[i]) /\ s[i] \in Wide
    BY <1>6, <1>9, <2>4
  <2>7. Agree(n, a[i], b[i])
    BY <1>3, <2>5, <2>6, AgreeStep
  <2> QED BY <2>2, <2>7
<1>11. Agree(n, a[N], b[N])
  <2>1. N \notin T
    BY <1>10
  <2> QED BY <1>6, <2>1
<1>12. a[N].rows = n + Len(b[N].rows)
  BY <1>11 DEF Agree
<1> QED BY <1>4, <1>5, <1>7, <1>8, <1>12 DEF s, n

-----------------------------------------------------------------------------
(* The shape of a call covers what its plans take.                            *)

Demand(demand, c) ==
    IF c.in = <<>> THEN demand
    ELSE IF demand > IvDemandCap \div Len(c.in) THEN IvDemandCap
    ELSE demand * Len(c.in)

DemandOp(x, demand, c) == Demand(demand, c)
DemandInv(x, g, n, demand) == demand \in Nat /\ demand >= 1

Demands == INSTANCE Loops WITH Op <- DemandOp, Inv <- DemandInv

LEMMA DemandIs ==
    ASSUME NEW g \in Seq(Conds)
    PROVE  groupIvDemand(g) \in Nat /\ groupIvDemand(g) >= 1
<1> DEFINE N == Len(g)
<1>0. N \in Nat /\ DOMAIN g = 1 .. N
  OBVIOUS
<1>1. groupIvDemand(g) = Demands!Fold(0, 1, g)
  BY DEF groupIvDemand, FoldLeft, MapThenFoldSet, Max, Demands!Fold, Demands!MapThenFoldSet, Demands!Top, DemandOp, Demand
<1>2. DemandInv(0, g, 0, 1)
  BY DEF DemandInv
<1>3. ASSUME NEW n \in 0 .. N - 1, NEW x, DemandInv(0, g, n, x)
      PROVE  DemandInv(0, g, n + 1, DemandOp(0, x, g[n + 1]))
  <2> DEFINE c == g[n + 1]
             L == Len(c.in)
  <2>1. c \in Conds /\ x \in Nat /\ x >= 1
    BY <1>3 DEF DemandInv
  <2>2. c.in \in Seq(Spellings)
    BY <2>1 DEF Conds
  <2>3. L \in Nat /\ (c.in # <<>> => L >= 1)
    <3> DEFINE s == c.in
    <3>1. s \in Seq(Spellings)
      BY <2>2
    <3> HIDE DEF s
    <3>2. Len(s) \in Nat /\ (s # <<>> => Len(s) >= 1)
      BY <3>1
    <3> QED BY <3>2 DEF s
  <2>4. IvDemandCap \in Nat /\ IvDemandCap >= 1
    BY ScratchAssumption DEF Parts
  <2>5. DemandOp(0, x, g[n + 1]) = IF c.in = <<>> THEN x
                                   ELSE IF x > IvDemandCap \div L THEN IvDemandCap ELSE x * L
    BY DEF DemandOp, Demand
  <2> HIDE DEF c, L
  <2>6. c.in # <<>> => x * L \in Nat /\ x * L >= 1
    BY <2>1, <2>3
  <2> QED BY <2>1, <2>4, <2>5, <2>6 DEF DemandInv
<1> HIDE DEF N
<1>4. DemandInv(0, g, N, Demands!Fold(0, 1, g))
  BY <1>0, <1>2, <1>3, Demands!FoldInvariant
<1> QED BY <1>1, <1>4 DEF DemandInv

\* What the groups need of a slice, and what the plans take of it.
TotalNeeds(groups, p) == SumSeq([i \in DOMAIN groups |-> groupNeeds(groups[i], p)])
TotalTakes(plans, p) == SumSeq([i \in DOMAIN plans |-> groupTakes(plans[i].group, p)])

LEMMA NeedsNat ==
    ASSUME NEW g \in Seq(Conds), NEW p \in CondParts
    PROVE  groupNeeds(g, p) \in Nat
<1> DEFINE s == [j \in DOMAIN g |-> condNeeds(g[j], p)]
           N == Len(g)
<1>1. DOMAIN s = 1 .. N /\ N \in Nat /\ \A j \in 1 .. N : s[j] \in Nat
  <2>1. \A j \in DOMAIN g : g[j] \in Conds
    OBVIOUS
  <2> QED BY <2>1, CondNeedsNat
<1>2. groupNeeds(g, p) = SumSeq(s)
  BY DEF groupNeeds
<1> HIDE DEF s, N
<1> QED BY <1>1, <1>2, SumNat

LEMMA TotalsIn ==
    ASSUME NEW v \in Views, NEW groups \in Seq(Seq(Conds)), NEW cap \in Int,
           NEW n \in 0 .. Len(groups), NEW plans, PlansWithin(v, groups, cap, plans, n),
           NEW p \in CondParts
    PROVE  TotalTakes(plans, p) \in Nat /\ TotalNeeds(groups, p) \in Nat
           /\ TotalTakes(plans, p) <= TotalNeeds(groups, p)
<1> DEFINE s == [i \in DOMAIN plans |-> groupTakes(plans[i].group, p)]
           t == [i \in DOMAIN groups |-> groupNeeds(groups[i], p)]
           m == Len(plans)
           G == Len(groups)
<1>0. /\ plans \in Seq(PlanSet(v)) /\ m <= n
      /\ \A i \in DOMAIN plans : plans[i].group = GroupOf(v, groups[i])
  BY DEF PlansWithin
<1>1. m \in Nat /\ G \in Nat /\ m <= G /\ DOMAIN plans = 1 .. m /\ DOMAIN groups = 1 .. G
  BY <1>0
<1> HIDE DEF m, G
<1>2. ASSUME NEW i \in 1 .. G PROVE groups[i] \in Seq(Conds) /\ groupNeeds(groups[i], p) \in Nat
  <2>1. groups[i] \in Seq(Conds)
    BY <1>1
  <2> QED BY <2>1, NeedsNat
<1>3. ASSUME NEW i \in 1 .. m
      PROVE  groupTakes(plans[i].group, p) \in Nat /\ groupTakes(plans[i].group, p) <= groupNeeds(groups[i], p)
  <2>1. i \in 1 .. G
    BY <1>1
  <2>2. GroupOf(v, groups[i]) \in Groups /\ groupTakes(GroupOf(v, groups[i]), p) <= groupNeeds(groups[i], p)
    BY <1>2, <2>1, GroupTakes
  <2>3. groupTakes(GroupOf(v, groups[i]), p) \in Nat
    BY <2>2, TakesNat
  <2>4. plans[i].group = GroupOf(v, groups[i])
    BY <1>0, <1>1
  <2> QED BY <2>2, <2>3, <2>4
<1>4. /\ DOMAIN s = 1 .. m /\ DOMAIN t = 1 .. G
      /\ \A i \in 1 .. m : s[i] \in Nat /\ s[i] <= t[i]
      /\ \A i \in 1 .. G : t[i] \in Nat
  BY <1>1, <1>2, <1>3
<1>5. TotalTakes(plans, p) = SumSeq(s) /\ TotalNeeds(groups, p) = SumSeq(t)
  BY DEF TotalTakes, TotalNeeds
<1> HIDE DEF s, t
<1>6. SumSeq(s) \in Nat /\ SumSeq(t) \in Nat /\ SumSeq(s) <= SumSeq(t)
  BY <1>1, <1>4, SumMono
<1> QED BY <1>5, <1>6

LEMMA ShapeIs ==
    ASSUME NEW q \in Queries
    PROVE  /\ measureShape(q) \in Shapes
           /\ measureShape(q).plans = Len(q.groups) /\ measureShape(q).aggs = Len(q.aggs)
           /\ \A p \in CondParts : measureShape(q)[p] = TotalNeeds(q.groups, p)
<1> DEFINE groups == q.groups
           G == Len(groups)
<1>1. groups \in Seq(Seq(Conds)) /\ Len(q.aggs) \in Nat
  BY CallsAssumption
<1> HIDE DEF groups
<1>2. G \in Nat /\ DOMAIN groups = 1 .. G /\ \A i \in 1 .. G : groups[i] \in Seq(Conds)
  BY <1>1
<1>3. ASSUME NEW p \in CondParts PROVE TotalNeeds(groups, p) \in Nat
  <2> DEFINE t == [i \in DOMAIN groups |-> groupNeeds(groups[i], p)]
  <2>1. DOMAIN t = 1 .. G /\ \A i \in 1 .. G : t[i] \in Nat
    BY <1>2, NeedsNat
  <2>2. TotalNeeds(groups, p) = SumSeq(t)
    BY DEF TotalNeeds
  <2> HIDE DEF t, G
  <2> QED BY <1>2, <2>1, <2>2, SumNat
<1> DEFINE d == [i \in DOMAIN groups |-> groupIvDemand(groups[i])]
<1>4. SumSeq(d) \in Nat
  <2>1. DOMAIN d = 1 .. G /\ \A i \in 1 .. G : d[i] \in Nat
    BY <1>2, DemandIs
  <2> HIDE DEF d, G
  <2> QED BY <1>2, <2>1, SumNat
<1>5. measureShape(q) =
        [plans |-> G, ivs |-> SumSeq(d), conds |-> TotalNeeds(groups, "conds"),
         inWins |-> TotalNeeds(groups, "inWins"), inPool |-> TotalNeeds(groups, "inPool"),
         rWins |-> TotalNeeds(groups, "rWins"), aggs |-> Len(q.aggs)]
  BY DEF measureShape, TotalNeeds, groups
<1>6. /\ TotalNeeds(groups, "conds") \in Nat /\ TotalNeeds(groups, "inWins") \in Nat
      /\ TotalNeeds(groups, "inPool") \in Nat /\ TotalNeeds(groups, "rWins") \in Nat
  BY <1>3 DEF CondParts
<1> HIDE DEF d
<1> QED BY <1>1, <1>2, <1>4, <1>5, <1>6 DEF Shapes, CondParts, groups

-----------------------------------------------------------------------------
(* A view reads right.                                                        *)

LEMMA ViewsRep ==
    ASSUME NEW v \in Views
    PROVE  RepOK(v) /\ ExpiryOK(v)
<1>1. /\ \A d \in Dims : v.base.dicts[d] \in Seq(Spellings) /\ v.extras[d] \in Seq(Spellings)
      /\ v.base.rows \in Seq(ColRow) /\ v.delta.rows \in Seq(ColRow)
      /\ v.base.keys \in Seq(Nat) /\ Len(v.base.keys) = Len(v.base.rows)
      /\ DictsOK(v) /\ SortedOK(v.base) /\ IdsOK(v) /\ OverlayOK(v) /\ ExpiryOK(v)
  BY ViewsAssumption DEF ReadsRight, IsColumns, ColRow
<1>2. \A d \in Dims : DictPair(v, d)
  BY <1>1 DEF DictPair, DictsOK
<1>3. \A d \in Dims : DictOK(v.base.dicts[d])
  BY <1>2, DimStrings
<1>4. /\ DOMAIN v.base.rows = 1 .. Len(v.base.rows) /\ Len(v.base.rows) \in Nat
      /\ \A r \in DOMAIN v.base.rows : v.base.keys[r] \in Nat
  BY <1>1
<1>5. ASSUME NEW q \in DOMAIN v.base.rows, NEW r \in DOMAIN v.base.rows, q <= r
      PROVE  v.base.keys[q] <= v.base.keys[r]
  <2>1. CASE q < r
    BY <1>1, <1>4, <2>1 DEF SortedOK, IsSorted
  <2>2. CASE q = r
    BY <1>4, <2>2
  <2> QED BY <1>4, <1>5, <2>1, <2>2
<1>6. ASSUME NEW q \in DOMAIN v.base.rows, NEW r \in DOMAIN v.base.rows, q # r
      PROVE  v.base.rows[q].ids # v.base.rows[r].ids
  <2>1. findRowIn(v.base, v.base.rows[q].ids) = {q} /\ findRowIn(v.base, v.base.rows[r].ids) = {r}
    BY <1>1 DEF SortedOK
  <2> QED BY <1>6, <2>1
<1>7. ASSUME NEW r \in DOMAIN v.base.rows
      PROVE  v.base.keys[r] = packKey(v.base.shifts, v.base.rows[r].ids) /\ IdsIn(v.base.dicts, v.base.rows[r].ids)
  BY <1>1 DEF SortedOK, IdsOK, IdsIn
<1>8. SnapOK(v.base)
  <2>1. v.base.shifts = computeShifts(v.base.dicts)
    BY <1>1 DEF SortedOK
  <2> QED BY <1>1, <1>3, <1>5, <1>6, <1>7, <2>1 DEF SnapOK
<1>9. DeltaRowsOK(v) /\ OverridesOK(v)
  BY <1>1 DEF DeltaRowsOK, OverridesOK, OverlayOK, IdsOK
<1> QED BY <1>1, <1>2, <1>8, <1>9 DEF RepOK

\* The row a view has at place r, base or delta, has ids of the view.
LEMMA RowsInSpace ==
    ASSUME NEW v \in Views
    PROVE  /\ \A r \in DOMAIN v.base.rows : v.base.rows[r] \in ColRow /\ InSpace(v, v.base.rows[r].ids)
           /\ \A q \in DOMAIN v.delta.rows : v.delta.rows[q] \in ColRow /\ InSpace(v, v.delta.rows[q].ids)
<1>1. RepOK(v)
  BY ViewsRep
<1>2. ASSUME NEW ids \in [Dims -> Nat], \A d \in Dims : ids[d] \in 0 .. idSpace(v, d) - 1
      PROVE  InSpace(v, ids)
  <2>1. \A d \in Dims : idSpace(v, d) \in Nat
    BY <1>1, DimStrings DEF RepOK
  <2> QED BY <1>2, <2>1 DEF InSpace
<1>3. /\ \A r \in DOMAIN v.base.rows : v.base.rows[r] \in ColRow
      /\ \A q \in DOMAIN v.delta.rows : v.delta.rows[q] \in ColRow
  BY <1>1, BaseRowsHave
<1>4. \A x \in ColRow : x.ids \in [Dims -> Nat]
  BY DEF ColRow
<1>5. ASSUME NEW r \in DOMAIN v.base.rows PROVE InSpace(v, v.base.rows[r].ids)
  BY <1>1, <1>2, <1>3, <1>4, RowIds
<1>6. ASSUME NEW q \in DOMAIN v.delta.rows PROVE InSpace(v, v.delta.rows[q].ids)
  BY <1>1, <1>2, <1>3, <1>4, RowIds
<1> QED BY <1>3, <1>5, <1>6


-----------------------------------------------------------------------------
(* Sorting by insertion puts the elements in order.                           *)

\* The first n elements of s, ascending by c.f.
SortTo(c, s, n, t) ==
    /\ t \in Seq(c.X) /\ Len(t) = n
    /\ Ascends(c.f, t) /\ Range(t) = {s[i] : i \in 1 .. n}

IdOrders == INSTANCE Loops WITH Op <- InsertId, Inv <- SortTo
IvOrders == INSTANCE Loops WITH Op <- InsertIv, Inv <- SortTo

LEMMA SortStep ==
    ASSUME NEW X, NEW f \in [X -> Int], NEW s \in Seq(X), NEW n \in 0 .. Len(s) - 1, NEW t,
           SortTo([X |-> X, f |-> f], s, n, t),
           NEW T \in SUBSET DOMAIN t, \A i \in DOMAIN t : i \in T <=> f[t[i]] <= f[s[n + 1]]
    PROVE  SortTo([X |-> X, f |-> f], s, n + 1, InsertAt(t, Cardinality(T) + 1, s[n + 1]))
<1>1. t \in Seq(X) /\ Len(t) = n /\ Ascends(f, t) /\ Range(t) = {s[i] : i \in 1 .. n}
  BY DEF SortTo
<1>2. s[n + 1] \in X /\ n \in Nat
  OBVIOUS
<1> DEFINE u == InsertAt(t, Cardinality(T) + 1, s[n + 1])
<1>3. u \in Seq(X) /\ Len(u) = Len(t) + 1 /\ Ascends(f, u) /\ Range(u) = Range(t) \cup {s[n + 1]}
  <2>1. NotAfter(X, f, t, s[n + 1], T)
    BY <1>1, <1>2 DEF NotAfter
  <2> QED BY <2>1, InsertOrder
<1> HIDE DEF u
<1>4. {s[i] : i \in 1 .. n + 1} = {s[i] : i \in 1 .. n} \cup {s[n + 1]}
  <2>1. 1 .. n + 1 = (1 .. n) \cup {n + 1}
    BY <1>2
  <2> QED BY <2>1
<1> QED BY <1>1, <1>3, <1>4 DEF SortTo, u

LEMMA SortStart ==
    ASSUME NEW X, NEW f, NEW s
    PROVE  SortTo([X |-> X, f |-> f], s, 0, <<>>)
<1> DEFINE e == <<>>
<1>1. e \in Seq(X) /\ Len(e) = 0 /\ DOMAIN e = {} /\ {s[i] : i \in 1 .. 0} = {}
  OBVIOUS
<1>2. Range(e) = {}
  BY <1>1 DEF Range
<1> HIDE DEF e
<1>3. SortTo([X |-> X, f |-> f], s, 0, e)
  BY <1>1, <1>2 DEF SortTo, Ascends
<1> QED BY <1>3 DEF e

LEMMA SortedIdsOrder ==
    ASSUME NEW s \in Seq(Nat)
    PROVE  LET t == Sorted(s, <)
           IN  t \in Seq(Nat) /\ Len(t) = Len(s) /\ Range(t) = Range(s)
               /\ \A i, j \in DOMAIN t : i <= j => t[i] <= t[j]
<1> DEFINE f == [x \in Nat |-> x]
           c == [X |-> Nat, f |-> f]
           t == Sorted(s, <)
<1>1. t = IdOrders!Fold(c, <<>>, s)
  BY DEF Sorted, FoldLeft, MapThenFoldSet, Max, IdOrders!Fold, IdOrders!MapThenFoldSet, IdOrders!Top, InsertId
<1> HIDE DEF t
<1>0. f \in [Nat -> Int] /\ \A x \in Nat : f[x] = x
  OBVIOUS
<1> HIDE DEF f
<1>2. SortTo(c, s, 0, <<>>)
  BY SortStart
<1>3. ASSUME NEW n \in 0 .. Len(s) - 1, NEW u, SortTo(c, s, n, u)
      PROVE  SortTo(c, s, n + 1, InsertId(c, u, s[n + 1]))
  <2> DEFINE T == {i \in DOMAIN u : ~(s[n + 1] < u[i])}
  <2>1. InsertId(c, u, s[n + 1]) = InsertAt(u, Cardinality(T) + 1, s[n + 1])
    BY DEF InsertId, Insert
  <2>2. u \in Seq(Nat) /\ s[n + 1] \in Nat
    BY <1>3 DEF SortTo
  <2>3. T \in SUBSET DOMAIN u /\ \A i \in DOMAIN u : i \in T <=> f[u[i]] <= f[s[n + 1]]
    BY <1>0, <2>2
  <2> HIDE DEF T
  <2>4. SortTo([X |-> Nat, f |-> f], s, n, u) /\ s \in Seq(Nat)
    BY <1>3
  <2>5. SortTo([X |-> Nat, f |-> f], s, n + 1, InsertAt(u, Cardinality(T) + 1, s[n + 1]))
    <3> DEFINE X == Nat
    <3>1. X \subseteq Nat /\ f \in [X -> Int] /\ s \in Seq(X) /\ SortTo([X |-> X, f |-> f], s, n, u)
      BY <1>0, <2>4
    <3> HIDE DEF X
    <3>2. SortTo([X |-> X, f |-> f], s, n + 1, InsertAt(u, Cardinality(T) + 1, s[n + 1]))
      BY <3>1, <2>3, SortStep
    <3> QED BY <3>2 DEF X
  <2> QED BY <2>1, <2>5
<1>4. Len(s) \in Nat /\ DOMAIN s = 1 .. Len(s)
  OBVIOUS
<1>5. SortTo(c, s, Len(s), t)
  <2> HIDE DEF c
  <2> QED BY <1>1, <1>2, <1>3, <1>4, IdOrders!FoldInvariant
<1>6. t \in Seq(Nat) /\ Len(t) = Len(s) /\ Ascends(f, t) /\ Range(t) = {s[i] : i \in 1 .. Len(s)}
  BY <1>5 DEF SortTo
<1>7. Range(t) = Range(s)
  BY <1>4, <1>6 DEF Range
<1>8. \A i, j \in DOMAIN t : i <= j => t[i] <= t[j]
  <2>1. \A i \in DOMAIN t : t[i] \in Nat
    BY <1>6
  <2> QED BY <1>0, <1>6, <2>1 DEF Ascends
<1> QED BY <1>6, <1>7, <1>8 DEF t

LEMMA SortedIvsOrder ==
    ASSUME NEW plans, intervals(plans) \in Seq(Wide)
    PROVE  LET t == sortedIvs(plans)
           IN  t \in Seq(Wide) /\ Range(t) = Range(intervals(plans))
               /\ \A i, j \in DOMAIN t : i <= j => t[i].lo <= t[j].lo
<1> DEFINE f == [w \in Wide |-> w.lo]
           c == [X |-> Wide, f |-> f]
           s == intervals(plans)
           t == sortedIvs(plans)
<1>1. t = IvOrders!Fold(c, <<>>, s)
  BY DEF sortedIvs, Sorted, FoldLeft, MapThenFoldSet, Max, IvOrders!Fold, IvOrders!MapThenFoldSet, IvOrders!Top, InsertIv
<1> HIDE DEF s, t
<1>0. f \in [Wide -> Int] /\ (\A w \in Wide : f[w] = w.lo /\ w.lo \in Int) /\ s \in Seq(Wide)
  BY DEF Wide, Iv, s
<1> HIDE DEF f
<1>2. SortTo(c, s, 0, <<>>)
  BY SortStart
<1>3. ASSUME NEW n \in 0 .. Len(s) - 1, NEW u, SortTo(c, s, n, u)
      PROVE  SortTo(c, s, n + 1, InsertIv(c, u, s[n + 1]))
  <2> DEFINE T == {i \in DOMAIN u : ~(s[n + 1].lo < u[i].lo)}
  <2>1. InsertIv(c, u, s[n + 1]) = InsertAt(u, Cardinality(T) + 1, s[n + 1])
    BY DEF InsertIv, Insert
  <2>2. u \in Seq(Wide) /\ s[n + 1] \in Wide
    BY <1>0, <1>3 DEF SortTo
  <2>3. T \in SUBSET DOMAIN u /\ \A i \in DOMAIN u : i \in T <=> f[u[i]] <= f[s[n + 1]]
    BY <1>0, <2>2
  <2> HIDE DEF T
  <2> QED BY <1>0, <1>3, <2>1, <2>3, SortStep
<1>4. Len(s) \in Nat /\ DOMAIN s = 1 .. Len(s)
  BY <1>0
<1>5. SortTo(c, s, Len(s), t)
  <2> HIDE DEF c
  <2> QED BY <1>1, <1>2, <1>3, <1>4, IvOrders!FoldInvariant
<1>6. t \in Seq(Wide) /\ Ascends(f, t) /\ Range(t) = {s[i] : i \in 1 .. Len(s)}
  BY <1>5 DEF SortTo
<1>7. Range(t) = Range(s)
  BY <1>4, <1>6 DEF Range
<1>8. \A i, j \in DOMAIN t : i <= j => t[i].lo <= t[j].lo
  <2>1. \A i \in DOMAIN t : t[i] \in Wide
    BY <1>6
  <2> QED BY <1>0, <1>6, <2>1 DEF Ascends
<1> QED BY <1>6, <1>7, <1>8 DEF s, t



-----------------------------------------------------------------------------
(* A group that is resolved asks of a row what its conditions ask of the      *)
(* values the row stands for.                                                 *)

\* A row with ids of the view.
RowIn(v, row) == row \in ColRow /\ InSpace(v, row.ids)

LEMMA IdOfIs ==
    ASSUME NEW v \in Views, NEW d \in Dims, NEW s
    PROVE  /\ idOf(v, d, s) = {id \in 0 .. idSpace(v, d) - 1 : dimString(v, d, id) = Canon(d, s)}
           /\ \A x, y \in idOf(v, d, s) : x = y
<1>1. DictPair(v, d)
  BY ViewsRep DEF RepOK
<1>2. idOf(v, d, s) = {id \in 0 .. idSpace(v, d) - 1 : dimString(v, d, id) = Canon(d, s)}
  BY <1>1, LookupIDIs DEF idOf
<1>3. \A x, y \in 0 .. idSpace(v, d) - 1 : dimString(v, d, x) = dimString(v, d, y) => x = y
  BY <1>1, DimStrings
<1> QED BY <1>2, <1>3

\* A value's id is a row's where the row stands for the value.
LEMMA IdMeets ==
    ASSUME NEW v \in Views, NEW d \in Dims, NEW row, RowIn(v, row)
    PROVE  /\ AbsRow(v, row).dims[d] = dimString(v, d, row.ids[d])
           /\ row.ids[d] \in 0 .. idSpace(v, d) - 1
           /\ \A s : row.ids[d] \in idOf(v, d, s) <=> AbsRow(v, row).dims[d] = Canon(d, s)
<1>1. AbsRow(v, row).dims[d] = dimString(v, d, row.ids[d])
  BY DEF AbsRow
<1>2. idSpace(v, d) \in Nat
  BY ViewsRep, DimStrings DEF RepOK
<1>3. row.ids[d] \in 0 .. idSpace(v, d) - 1
  BY <1>2 DEF RowIn, InSpace
<1>4. ASSUME NEW s PROVE row.ids[d] \in idOf(v, d, s) <=> AbsRow(v, row).dims[d] = Canon(d, s)
  <2>1. idOf(v, d, s) = {id \in 0 .. idSpace(v, d) - 1 : dimString(v, d, id) = Canon(d, s)}
    BY IdOfIs
  <2> QED BY <1>1, <1>3, <2>1
<1> QED BY <1>1, <1>3, <1>4

InOrder(ids) == \A i, j \in DOMAIN ids : i <= j => ids[i] <= ids[j]

\* An IN is resolved to the ids its values have, ascending.
LEMMA InIdsExact ==
    ASSUME NEW v \in Views, NEW c \in Conds, c.dim \in Dims
    PROVE  /\ InOrder(inIDs(v, c))
           /\ Range(inIDs(v, c)) = UNION {idOf(v, c.dim, s) : s \in Range(c.in)}
<1> DEFINE n == Len(c.in)
           ids == [i \in DOMAIN c.in |-> idOf(v, c.dim, c.in[i])]
           S == {i \in DOMAIN ids : ids[i] # {}}
           known == Pick(ids, S)
           the == [i \in DOMAIN known |-> TheId(known[i])]
<1>1. c.in \in Seq(Spellings) /\ n \in Nat /\ DOMAIN c.in = 1 .. n
  BY DEF Conds
<1>2. inIDs(v, c) = Sorted(the, <)
  BY DEF inIDs
<1>3. /\ DOMAIN ids = 1 .. n /\ S \subseteq 1 .. n
      /\ \A i \in 1 .. n : ids[i] = idOf(v, c.dim, c.in[i]) /\ (i \in S <=> ids[i] # {})
  BY <1>1
<1> HIDE DEF ids, S
<1>4. PICK at : Picked(at, ids, S, n, known)
  BY <1>1, <1>3, PickOrder
<1>5. known \in Seq(Range(ids))
  BY <1>1, <1>3, PickOrder
<1> HIDE DEF known
<1>6. DOMAIN known = 1 .. Len(known) /\ Len(known) \in Nat
  BY <1>5
<1>7. ASSUME NEW i \in DOMAIN known
      PROVE  /\ at[i] \in S /\ at[i] \in 1 .. n
             /\ idOf(v, c.dim, c.in[at[i]]) = {the[i]} /\ the[i] \in Nat
  <2>1. at[i] \in S /\ at[i] \in 1 .. n /\ known[i] = ids[at[i]]
    BY <1>4 DEF Picked
  <2>2. known[i] = idOf(v, c.dim, c.in[at[i]]) /\ known[i] # {}
    BY <1>3, <2>1
  <2>3. the[i] \in known[i]
    BY <2>2 DEF TheId
  <2>4. \A x, y \in idOf(v, c.dim, c.in[at[i]]) : x = y
    BY IdOfIs
  <2>5. idOf(v, c.dim, c.in[at[i]]) \in SUBSET Nat
    BY IdOfNat
  <2> HIDE DEF the
  <2> QED BY <2>1, <2>2, <2>3, <2>4, <2>5
<1>8. the \in Seq(Nat) /\ DOMAIN the = DOMAIN known
  BY <1>6, <1>7
<1> HIDE DEF the
<1>9. InOrder(inIDs(v, c)) /\ Range(inIDs(v, c)) = Range(the)
  BY <1>2, <1>8, SortedIdsOrder DEF InOrder
<1>10. ASSUME NEW x \in Range(the) PROVE x \in UNION {idOf(v, c.dim, s) : s \in Range(c.in)}
  <2>1. PICK i \in DOMAIN known : the[i] = x
    BY <1>8 DEF Range
  <2>2. c.in[at[i]] \in Range(c.in) /\ x \in idOf(v, c.dim, c.in[at[i]])
    BY <1>1, <1>7, <2>1 DEF Range
  <2> QED BY <2>2
<1>11. ASSUME NEW s \in Range(c.in), NEW x \in idOf(v, c.dim, s) PROVE x \in Range(the)
  <2>1. PICK k \in 1 .. n : c.in[k] = s
    BY <1>1 DEF Range
  <2>2. k \in S
    BY <1>3, <1>11, <2>1
  <2>3. PICK i \in DOMAIN known : at[i] = k
    BY <1>4, <2>2 DEF Picked
  <2>4. idOf(v, c.dim, s) = {the[i]}
    BY <1>7, <2>1, <2>3
  <2> QED BY <1>8, <1>11, <2>4 DEF Range
<1> QED BY <1>9, <1>10, <1>11


HasEqs(g, row) == \A i \in DOMAIN g.conds : row.ids[g.conds[i].dim] = g.conds[i].id
HasIns(g, row) == \A i \in DOMAIN g.ins : row.ids[g.ins[i].dim] \in Range(g.ins[i].ids)
InRange(v, c, row) ==
    \A b \in c.range :
        LET val == IntVal[dimString(v, c.dim, row.ids[c.dim])]
        IN  b[1] <= val /\ val <= b[2]
HasRanges(v, g, row) == \A i \in DOMAIN g.rngs : InRange(v, g.rngs[i], row)

\* The row meets what the group asks.
Hits(v, g, row) == ~g.dead /\ HasEqs(g, row) /\ HasIns(g, row) /\ HasRanges(v, g, row)

InsOrdered(g) == \A i \in DOMAIN g.ins : InOrder(g.ins[i].ids)

\* y is x with one more condition.
Exact(v, x, y, c) ==
    /\ y.err => x.err \/ ~WellFormed(c)
    /\ ~y.err => ~x.err /\ \A row : RowIn(v, row) =>
                               (Hits(v, y, row) <=> Hits(v, x, row) /\ Meets(AbsRow(v, row), c))
    /\ InsOrdered(x) => InsOrdered(y)

LEMMA AllAppended ==
    ASSUME NEW X, NEW s \in Seq(X), NEW e
    PROVE  LET t == Append(s, e)
           IN  /\ DOMAIN t = DOMAIN s \cup {Len(s) + 1} /\ t[Len(s) + 1] = e
               /\ \A i \in DOMAIN s : t[i] = s[i]
OBVIOUS

LEMMA FailsExact ==
    ASSUME NEW v, NEW x \in Groups, NEW c, ~WellFormed(c)
    PROVE  Exact(v, x, [x EXCEPT !.err = TRUE], c)
<1> DEFINE y == [x EXCEPT !.err = TRUE]
<1>1. y.err /\ y.ins = x.ins
  BY DEF Groups
<1> HIDE DEF y
<1>2. Exact(v, x, y, c)
  BY <1>1 DEF Exact, InsOrdered
<1> QED BY <1>2 DEF y

LEMMA DiesExact ==
    ASSUME NEW v, NEW x \in Groups, ~x.err, NEW c,
           \A row : RowIn(v, row) => ~Meets(AbsRow(v, row), c)
    PROVE  Exact(v, x, [x EXCEPT !.dead = TRUE], c)
<1> DEFINE y == [x EXCEPT !.dead = TRUE]
<1>1. y.dead /\ ~y.err /\ y.ins = x.ins
  BY DEF Groups
<1> HIDE DEF y
<1>2. Exact(v, x, y, c)
  BY <1>1 DEF Exact, InsOrdered, Hits
<1> QED BY <1>2 DEF y

LEMMA EqExact ==
    ASSUME NEW v \in Views, NEW x \in Groups, ~x.err, NEW c \in Conds, c.dim \in Dims,
           c.range = {}, c.in = <<>>, idOf(v, c.dim, c.value) # {}
    PROVE  Exact(v, x, [x EXCEPT !.conds = Append(@, [dim |-> c.dim, id |-> TheId(idOf(v, c.dim, c.value))])], c)
<1> DEFINE e == [dim |-> c.dim, id |-> TheId(idOf(v, c.dim, c.value))]
           y == [x EXCEPT !.conds = Append(@, e)]
<1>1. /\ y.conds = Append(x.conds, e) /\ y.ins = x.ins /\ y.rngs = x.rngs
      /\ y.dead = x.dead /\ y.err = x.err /\ x.conds \in Seq([dim : Dims, id : Nat])
  BY DEF Groups
<1>2. e.dim = c.dim /\ idOf(v, c.dim, c.value) = {e.id}
  <2>1. e.id \in idOf(v, c.dim, c.value)
    BY DEF TheId
  <2> QED BY <2>1, IdOfIs
<1> HIDE DEF e, y
<1>3. ASSUME NEW row, RowIn(v, row)
      PROVE  Hits(v, y, row) <=> Hits(v, x, row) /\ Meets(AbsRow(v, row), c)
  <2>1. row.ids[c.dim] = e.id <=> AbsRow(v, row).dims[c.dim] = Canon(c.dim, c.value)
    BY <1>2, <1>3, IdMeets
  <2>2. Meets(AbsRow(v, row), c) <=> row.ids[c.dim] = e.id
    BY <2>1 DEF Meets
  <2>3. HasEqs(y, row) <=> HasEqs(x, row) /\ row.ids[e.dim] = e.id
    <3>1. /\ DOMAIN y.conds = DOMAIN x.conds \cup {Len(x.conds) + 1} /\ y.conds[Len(x.conds) + 1] = e
          /\ \A i \in DOMAIN x.conds : y.conds[i] = x.conds[i]
      BY <1>1, AllAppended
    <3> QED BY <3>1 DEF HasEqs
  <2>4. (HasIns(y, row) <=> HasIns(x, row)) /\ (HasRanges(v, y, row) <=> HasRanges(v, x, row))
    BY <1>1 DEF HasIns, HasRanges
  <2> QED BY <1>1, <1>2, <2>2, <2>3, <2>4 DEF Hits
<1>4. Exact(v, x, y, c)
  BY <1>1, <1>3 DEF Exact, InsOrdered
<1> QED BY <1>4 DEF y, e

LEMMA InExact ==
    ASSUME NEW v \in Views, NEW x \in Groups, ~x.err, NEW c \in Conds, c.dim \in Dims, isIn(c)
    PROVE  /\ Exact(v, x, [x EXCEPT !.ins = Append(@, [dim |-> c.dim, ids |-> inIDs(v, c)])], c)
           /\ inIDs(v, c) = <<>> => Exact(v, x, [x EXCEPT !.dead = TRUE], c)
<1> DEFINE e == [dim |-> c.dim, ids |-> inIDs(v, c)]
           y == [x EXCEPT !.ins = Append(@, e)]
<1>1. /\ y.ins = Append(x.ins, e) /\ y.conds = x.conds /\ y.rngs = x.rngs
      /\ y.dead = x.dead /\ y.err = x.err /\ x.ins \in Seq([dim : Dims, ids : Seq(Nat)])
  BY DEF Groups
<1>2. e.dim = c.dim /\ e.ids = inIDs(v, c)
  OBVIOUS
<1>3. InOrder(e.ids) /\ Range(e.ids) = UNION {idOf(v, c.dim, s) : s \in Range(c.in)}
  BY <1>2, InIdsExact
<1> HIDE DEF e, y
<1>4. ASSUME NEW row, RowIn(v, row)
      PROVE  row.ids[c.dim] \in Range(e.ids) <=> Meets(AbsRow(v, row), c)
  <2>1. row.ids[c.dim] \in Range(e.ids) <=> \E s \in Range(c.in) : row.ids[c.dim] \in idOf(v, c.dim, s)
    BY <1>3
  <2>2. \A s : row.ids[c.dim] \in idOf(v, c.dim, s) <=> AbsRow(v, row).dims[c.dim] = Canon(c.dim, s)
    BY <1>4, IdMeets
  <2>3. Meets(AbsRow(v, row), c) <=> \E s \in Range(c.in) : AbsRow(v, row).dims[c.dim] = Canon(c.dim, s)
    BY DEF Meets, isIn
  <2> QED BY <2>1, <2>2, <2>3
<1>5. ASSUME NEW row, RowIn(v, row)
      PROVE  Hits(v, y, row) <=> Hits(v, x, row) /\ Meets(AbsRow(v, row), c)
  <2>1. HasIns(y, row) <=> HasIns(x, row) /\ row.ids[e.dim] \in Range(e.ids)
    <3>1. /\ DOMAIN y.ins = DOMAIN x.ins \cup {Len(x.ins) + 1} /\ y.ins[Len(x.ins) + 1] = e
          /\ \A i \in DOMAIN x.ins : y.ins[i] = x.ins[i]
      BY <1>1, AllAppended
    <3> QED BY <3>1 DEF HasIns
  <2>2. (HasEqs(y, row) <=> HasEqs(x, row)) /\ (HasRanges(v, y, row) <=> HasRanges(v, x, row))
    BY <1>1 DEF HasEqs, HasRanges
  <2> QED BY <1>1, <1>2, <1>4, <1>5, <2>1, <2>2 DEF Hits
<1>6. InsOrdered(x) => InsOrdered(y)
  <2>1. /\ DOMAIN y.ins = DOMAIN x.ins \cup {Len(x.ins) + 1} /\ y.ins[Len(x.ins) + 1] = e
        /\ \A i \in DOMAIN x.ins : y.ins[i] = x.ins[i]
    BY <1>1, AllAppended
  <2> QED BY <1>3, <2>1 DEF InsOrdered
<1>7. Exact(v, x, y, c)
  BY <1>1, <1>5, <1>6 DEF Exact
<1>8. ASSUME inIDs(v, c) = <<>> PROVE Exact(v, x, [x EXCEPT !.dead = TRUE], c)
  <2>1. Range(e.ids) = {}
    BY <1>2, <1>8 DEF Range
  <2> QED BY <1>4, <2>1, DiesExact
<1> QED BY <1>7, <1>8 DEF y, e

LEMMA RangeExact ==
    ASSUME NEW v \in Views, NEW x \in Groups, ~x.err, NEW c \in Conds, c.dim \in IntDims, c.range # {}
    PROVE  Exact(v, x, [x EXCEPT !.rngs = Append(@, c)], c)
<1> DEFINE y == [x EXCEPT !.rngs = Append(@, c)]
<1>1. /\ y.rngs = Append(x.rngs, c) /\ y.conds = x.conds /\ y.ins = x.ins
      /\ y.dead = x.dead /\ y.err = x.err /\ x.rngs \in Seq(Conds)
  BY DEF Groups
<1>2. c.dim \in Dims
  BY SchemaAssumption
<1> HIDE DEF y
<1>3. ASSUME NEW row, RowIn(v, row)
      PROVE  Hits(v, y, row) <=> Hits(v, x, row) /\ Meets(AbsRow(v, row), c)
  <2>1. AbsRow(v, row).dims[c.dim] = dimString(v, c.dim, row.ids[c.dim])
    BY <1>2, <1>3, IdMeets
  <2>2. Meets(AbsRow(v, row), c) <=> InRange(v, c, row)
    BY <1>2, <2>1 DEF Meets, InRange
  <2>3. HasRanges(v, y, row) <=> HasRanges(v, x, row) /\ InRange(v, c, row)
    <3>1. /\ DOMAIN y.rngs = DOMAIN x.rngs \cup {Len(x.rngs) + 1} /\ y.rngs[Len(x.rngs) + 1] = c
          /\ \A i \in DOMAIN x.rngs : y.rngs[i] = x.rngs[i]
      BY <1>1, AllAppended
    <3> QED BY <3>1 DEF HasRanges
  <2>4. (HasEqs(y, row) <=> HasEqs(x, row)) /\ (HasIns(y, row) <=> HasIns(x, row))
    BY <1>1 DEF HasEqs, HasIns
  <2> QED BY <1>1, <2>2, <2>3, <2>4 DEF Hits
<1>4. Exact(v, x, y, c)
  BY <1>1, <1>3 DEF Exact, InsOrdered
<1> QED BY <1>4 DEF y


LEMMA ResolveExact ==
    ASSUME NEW v \in Views, NEW x \in Groups, NEW c \in Conds
    PROVE  x.err \/ x.dead \/ Exact(v, x, resolve(v, x, c), c)
<1> DEFINE e == [dim |-> c.dim, ids |-> inIDs(v, c)]
           f == [dim |-> c.dim, id |-> TheId(idOf(v, c.dim, c.value))]
           fails == [x EXCEPT !.err = TRUE]
           dies == [x EXCEPT !.dead = TRUE]
           y == resolve(v, x, c)
<1> SUFFICES ASSUME ~x.err, ~x.dead PROVE Exact(v, x, y, c)
  OBVIOUS
<1>1. CASE c.dim \notin Dims
  <2>1. y = fails /\ ~WellFormed(c)
    BY <1>1 DEF resolve, WellFormed
  <2> HIDE DEF y
  <2> QED BY <2>1, FailsExact
<1>2. CASE c.dim \in Dims /\ c.range # {}
  <2>1. CASE c.value # NoValue \/ c.in # <<>> \/ c.dim \notin IntDims
    <3>1. y = fails /\ ~WellFormed(c)
      BY <1>2, <2>1 DEF resolve, WellFormed
    <3> HIDE DEF y
    <3> QED BY <3>1, FailsExact
  <2>2. CASE ~(c.value # NoValue \/ c.in # <<>> \/ c.dim \notin IntDims)
    <3>1. y = [x EXCEPT !.rngs = Append(@, c)]
      BY <1>2, <2>2 DEF resolve
    <3> HIDE DEF y
    <3> QED BY <1>2, <2>2, <3>1, RangeExact
  <2> QED BY <2>1, <2>2
<1>3. CASE c.dim \in Dims /\ isIn(c)
  <2>0. c.range = {} /\ c.in # <<>>
    BY <1>3 DEF isIn
  <2>1. CASE c.value # NoValue \/ \E s \in Range(c.in) : Invalid(c.dim, s)
    <3>1. y = fails /\ ~WellFormed(c)
      BY <1>3, <2>0, <2>1 DEF resolve, WellFormed
    <3> HIDE DEF y
    <3> QED BY <3>1, FailsExact
  <2>2. CASE ~(c.value # NoValue \/ \E s \in Range(c.in) : Invalid(c.dim, s))
    <3>1. y = IF inIDs(v, c) = <<>> THEN dies ELSE [x EXCEPT !.ins = Append(@, e)]
      BY <1>3, <2>0, <2>2 DEF resolve
    <3> HIDE DEF y
    <3> QED BY <1>3, <3>1, InExact
  <2> QED BY <2>1, <2>2
<1>4. CASE c.dim \in Dims /\ c.range = {} /\ c.in = <<>>
  <2>1. CASE Invalid(c.dim, c.value)
    <3>1. y = fails /\ ~WellFormed(c)
      BY <1>4, <2>1 DEF resolve, WellFormed
    <3> HIDE DEF y
    <3> QED BY <3>1, FailsExact
  <2>2. CASE ~Invalid(c.dim, c.value) /\ idOf(v, c.dim, c.value) = {}
    <3>1. y = dies
      BY <1>4, <2>2 DEF resolve
    <3>2. ASSUME NEW row, RowIn(v, row) PROVE ~Meets(AbsRow(v, row), c)
      <4>1. AbsRow(v, row).dims[c.dim] # Canon(c.dim, c.value)
        BY <1>4, <2>2, <3>2, IdMeets
      <4> QED BY <1>4, <4>1 DEF Meets
    <3> HIDE DEF y
    <3> QED BY <3>1, <3>2, DiesExact
  <2>3. CASE ~Invalid(c.dim, c.value) /\ idOf(v, c.dim, c.value) # {}
    <3>1. y = [x EXCEPT !.conds = Append(@, f)]
      BY <1>4, <2>3 DEF resolve
    <3> HIDE DEF y
    <3> QED BY <1>4, <2>3, <3>1, EqExact
  <2> QED BY <2>1, <2>2, <2>3
<1> QED BY <1>1, <1>2, <1>3, <1>4 DEF isIn

\* The group of the first n conditions.
ExactInv(v, g, n, x) ==
    /\ x \in Groups /\ InsOrdered(x)
    /\ x.err => \E j \in 1 .. n : ~WellFormed(g[j])
    /\ ~x.err => \A row : RowIn(v, row) =>
                     (Hits(v, x, row) <=> \A j \in 1 .. n : Meets(AbsRow(v, row), g[j]))

Exacts == INSTANCE Loops WITH Op <- ResolveOp, Inv <- ExactInv

LEMMA GroupExact ==
    ASSUME NEW v \in Views, NEW g \in Seq(Conds)
    PROVE  ExactInv(v, g, Len(g), GroupOf(v, g))
<1> DEFINE N == Len(g)
<1>0. N \in Nat /\ DOMAIN g = 1 .. N
  OBVIOUS
<1>1. GroupOf(v, g) = Exacts!Fold(v, unresolved, g)
  BY DEF GroupOf, FoldLeft, MapThenFoldSet, Max, Exacts!Fold, Exacts!MapThenFoldSet, Exacts!Top, ResolveOp
<1>2. ExactInv(v, g, 0, unresolved)
  <2>1. /\ unresolved \in Groups /\ ~unresolved.err /\ ~unresolved.dead
        /\ DOMAIN unresolved.conds = {} /\ DOMAIN unresolved.ins = {} /\ DOMAIN unresolved.rngs = {}
    BY DEF unresolved, Groups
  <2>2. 1 .. 0 = {}
    OBVIOUS
  <2> QED BY <2>1, <2>2 DEF ExactInv, InsOrdered, Hits, HasEqs, HasIns, HasRanges
<1>3. ASSUME NEW n \in 0 .. N - 1, NEW x, ExactInv(v, g, n, x)
      PROVE  ExactInv(v, g, n + 1, ResolveOp(v, x, g[n + 1]))
  <2> DEFINE c == g[n + 1]
             y == resolve(v, x, c)
             k == n + 1
  <2>1. x \in Groups /\ c \in Conds /\ InsOrdered(x) /\ k \in 1 .. N
    BY <1>3 DEF ExactInv
  <2>2. y \in Groups
    BY <2>1, ResolveTakes
  <2>3. x.err \/ x.dead \/ Exact(v, x, y, c)
    BY <2>1, ResolveExact
  <2>4. x.err \/ x.dead => y = x
    BY DEF resolve
  <2>5. ResolveOp(v, x, g[n + 1]) = y /\ g[k] = c
    BY DEF ResolveOp
  <2>6. 1 .. k = (1 .. n) \cup {k} /\ k \in 1 .. k
    OBVIOUS
  <2> HIDE DEF y, c, k
  <2>7. CASE x.err
    <3>1. \E j \in 1 .. k : ~WellFormed(g[j])
      BY <1>3, <2>6, <2>7 DEF ExactInv
    <3> QED BY <2>1, <2>4, <2>5, <2>7, <3>1 DEF ExactInv, k
  <2>8. CASE ~x.err /\ x.dead
    <3>1. ASSUME NEW row, RowIn(v, row)
          PROVE  Hits(v, y, row) <=> \A j \in 1 .. k : Meets(AbsRow(v, row), g[j])
      <4>1. ~Hits(v, y, row) /\ ~Hits(v, x, row)
        BY <2>4, <2>8 DEF Hits
      <4>2. ~\A j \in 1 .. n : Meets(AbsRow(v, row), g[j])
        BY <1>3, <2>8, <3>1, <4>1 DEF ExactInv
      <4> QED BY <2>6, <4>1, <4>2
    <3>2. ExactInv(v, g, k, y)
      BY <2>1, <2>4, <2>8, <3>1 DEF ExactInv
    <3> QED BY <2>5, <3>2 DEF k
  <2>9. CASE ~x.err /\ ~x.dead
    <3>1. Exact(v, x, y, c)
      BY <2>3, <2>9
    <3>2. y.err => \E j \in 1 .. k : ~WellFormed(g[j])
      BY <2>5, <2>6, <2>9, <3>1 DEF Exact
    <3>3. ASSUME ~y.err, NEW row, RowIn(v, row)
          PROVE  Hits(v, y, row) <=> \A j \in 1 .. k : Meets(AbsRow(v, row), g[j])
      <4>1. Hits(v, y, row) <=> Hits(v, x, row) /\ Meets(AbsRow(v, row), c)
        BY <3>1, <3>3 DEF Exact
      <4>2. Hits(v, x, row) <=> \A j \in 1 .. n : Meets(AbsRow(v, row), g[j])
        BY <1>3, <2>9, <3>3 DEF ExactInv
      <4> QED BY <2>5, <2>6, <4>1, <4>2
    <3>4. ExactInv(v, g, k, y)
      BY <2>1, <2>2, <3>1, <3>2, <3>3 DEF ExactInv, Exact
    <3> QED BY <2>5, <3>4 DEF k
  <2> QED BY <2>7, <2>8, <2>9
<1> HIDE DEF N
<1>4. ExactInv(v, g, N, Exacts!Fold(v, unresolved, g))
  BY <1>0, <1>2, <1>3, Exacts!FoldInvariant
<1> QED BY <1>1, <1>4 DEF N


-----------------------------------------------------------------------------
(* A base row that a group asks for is in an interval of the group's plan.    *)

JoinedInv(c, ss, n, t) == t \in Seq(c) /\ \A x : x \in Range(t) <=> \E i \in 1 .. n : x \in Range(ss[i])

Unions == INSTANCE Loops WITH Op <- JoinOp, Inv <- JoinedInv

LEMMA ConcatRange ==
    ASSUME NEW X, NEW s \in Seq(X), NEW t \in Seq(X)
    PROVE  s \o t \in Seq(X) /\ Range(s \o t) = Range(s) \cup Range(t)
<1>1. /\ s \o t \in Seq(X) /\ DOMAIN (s \o t) = 1 .. Len(s) + Len(t)
      /\ DOMAIN s = 1 .. Len(s) /\ DOMAIN t = 1 .. Len(t) /\ Len(s) \in Nat /\ Len(t) \in Nat
      /\ \A i \in 1 .. Len(s) : (s \o t)[i] = s[i]
      /\ \A i \in 1 .. Len(t) : (s \o t)[Len(s) + i] = t[i]
  BY ConcatIs
<1> DEFINE u == s \o t
<1> HIDE DEF u
<1>2. ASSUME NEW i \in 1 .. Len(s) + Len(t) PROVE u[i] \in Range(s) \cup Range(t)
  <2>1. CASE i <= Len(s)
    <3>1. i \in DOMAIN s /\ u[i] = s[i]
      BY <1>1, <2>1 DEF u
    <3> QED BY <3>1 DEF Range
  <2>2. CASE i > Len(s)
    <3>1. i - Len(s) \in DOMAIN t /\ Len(s) + (i - Len(s)) = i
      BY <1>1, <2>2
    <3>2. u[i] = t[i - Len(s)]
      BY <1>1, <3>1 DEF u
    <3> QED BY <3>1, <3>2 DEF Range
  <2> QED BY <1>1, <2>1, <2>2
<1>3. ASSUME NEW i \in 1 .. Len(s) PROVE s[i] \in Range(u)
  <2>1. i \in DOMAIN u /\ u[i] = s[i]
    BY <1>1 DEF u
  <2> QED BY <2>1 DEF Range
<1>4. ASSUME NEW i \in 1 .. Len(t) PROVE t[i] \in Range(u)
  <2>1. Len(s) + i \in DOMAIN u /\ u[Len(s) + i] = t[i]
    BY <1>1 DEF u
  <2> QED BY <2>1 DEF Range
<1>5. Range(u) = Range(s) \cup Range(t)
  <2>1. DOMAIN u = 1 .. Len(s) + Len(t)
    BY <1>1 DEF u
  <2> QED BY <1>1, <1>2, <1>3, <1>4, <2>1 DEF Range
<1> QED BY <1>1, <1>5 DEF u

LEMMA JoinedRange ==
    ASSUME NEW X, NEW ss \in Seq(Seq(X))
    PROVE  Joined(ss) \in Seq(X) /\ Range(Joined(ss)) = UNION {Range(ss[i]) : i \in DOMAIN ss}
<1> DEFINE N == Len(ss)
<1>0. N \in Nat /\ DOMAIN ss = 1 .. N /\ \A i \in 1 .. N : ss[i] \in Seq(X)
  OBVIOUS
<1>1. Joined(ss) = Unions!Fold(X, <<>>, ss)
  BY DEF Joined, FoldLeft, MapThenFoldSet, Max, Unions!Fold, Unions!MapThenFoldSet, Unions!Top, JoinOp
<1>2. JoinedInv(X, ss, 0, <<>>)
  <2> DEFINE e == <<>>
  <2>1. e \in Seq(X) /\ DOMAIN e = {} /\ 1 .. 0 = {}
    OBVIOUS
  <2> HIDE DEF e
  <2>2. JoinedInv(X, ss, 0, e)
    BY <2>1 DEF JoinedInv, Range
  <2> QED BY <2>2 DEF e
<1>3. ASSUME NEW n \in 0 .. N - 1, NEW t, JoinedInv(X, ss, n, t)
      PROVE  JoinedInv(X, ss, n + 1, JoinOp(X, t, ss[n + 1]))
  <2>1. t \in Seq(X) /\ (\A x : x \in Range(t) <=> \E i \in 1 .. n : x \in Range(ss[i])) /\ ss[n + 1] \in Seq(X)
    BY <1>0, <1>3 DEF JoinedInv
  <2>2. t \o ss[n + 1] \in Seq(X) /\ Range(t \o ss[n + 1]) = Range(t) \cup Range(ss[n + 1])
    BY <2>1, ConcatRange
  <2>3. 1 .. n + 1 = (1 .. n) \cup {n + 1}
    OBVIOUS
  <2> DEFINE u == t \o ss[n + 1]
  <2> HIDE DEF u
  <2>4. \A x : x \in Range(u) <=> \E i \in 1 .. n + 1 : x \in Range(ss[i])
    BY <2>1, <2>2, <2>3 DEF u
  <2> QED BY <2>2, <2>4 DEF JoinedInv, JoinOp, u
<1> HIDE DEF N
<1>4. JoinedInv(X, ss, N, Unions!Fold(X, <<>>, ss))
  BY <1>0, <1>2, <1>3, Unions!FoldInvariant
<1> QED BY <1>0, <1>1, <1>4 DEF JoinedInv

LEMMA ElementOf ==
    ASSUME NEW X, NEW s \in Seq(X), NEW i \in DOMAIN s
    PROVE  s[i] \in X
OBVIOUS

\* The row of a candidate is among the candidates it is reached by.
LEMMA CandidateOf ==
    ASSUME NEW v \in Views, NEW g \in Groups, InsOrdered(g), NEW r \in DOMAIN v.base.rows,
           HasEqs(g, v.base.rows[r]), HasIns(g, v.base.rows[r]), NEW d \in Dims,
           eqsOn(g, d) # <<>> \/ candidates(v, g, d) # <<>>
    PROVE  v.base.rows[r].ids[d] \in Range(candidates(v, g, d))
<1> DEFINE row == v.base.rows[r]
<1>1. row.ids[d] \in Nat /\ row.ids[d] < Len(v.base.dicts[d]) /\ Len(v.base.dicts[d]) \in Nat
  <2>1. row \in ColRow /\ IdsIn(v.base.dicts, row.ids)
    BY ViewsRep, BaseRowsHave
  <2>2. v.base.dicts[d] \in Seq(Spellings)
    BY ViewsAssumption DEF ReadsRight, IsColumns
  <2> QED BY <2>1, <2>2 DEF ColRow, IdsIn
<1>2. CASE eqsOn(g, d) # <<>>
  <2> DEFINE e == eqsOn(g, d)
             S == {i \in DOMAIN g.conds : g.conds[i].dim = d}
  <2>1. g.conds \in Seq([dim : Dims, id : Nat])
    BY DEF Groups
  <2>2. e \in Seq([dim : Dims, id : Nat]) /\ \A i \in DOMAIN e : \E k \in S \cap DOMAIN g.conds : e[i] = g.conds[k]
    <3>1. e = Pick(g.conds, S)
      BY DEF eqsOn
    <3> HIDE DEF e, S
    <3> QED BY <2>1, <3>1, PickLen
  <2>3. candidates(v, g, d) = <<Last(e).id>>
    BY <1>2 DEF candidates
  <2>4. e # <<>>
    BY <1>2
  <2> HIDE DEF e
  <2>5. Last(e) = e[Len(e)] /\ Len(e) \in DOMAIN e
    BY <2>2, <2>4 DEF Last
  <2>6. PICK k \in S : Last(e) = g.conds[k]
    BY <2>2, <2>5
  <2>7. row.ids[d] = Last(e).id
    BY <2>6 DEF HasEqs
  <2> QED BY <2>3, <2>7 DEF Range
<1>3. CASE eqsOn(g, d) = <<>>
  <2> DEFINE w == insOn(g, d)
             S == {i \in DOMAIN g.ins : g.ins[i].dim = d}
             ids == Head(w).ids
             H == {i \in DOMAIN ids : ids[i] >= Len(v.base.dicts[d])}
             at == Search(Len(ids), H)
  <2>0. w # <<>> /\ candidates(v, g, d) = SubSeq(ids, 1, at - 1)
    BY <1>3 DEF candidates
  <2>1. g.ins \in Seq([dim : Dims, ids : Seq(Nat)])
    BY DEF Groups
  <2>2. /\ w \in Seq([dim : Dims, ids : Seq(Nat)])
        /\ \A i \in DOMAIN w : \E k \in S \cap DOMAIN g.ins : w[i] = g.ins[k]
    <3>1. w = Pick(g.ins, S)
      BY DEF insOn
    <3> HIDE DEF w, S
    <3> QED BY <2>1, <3>1, PickLen
  <2> HIDE DEF w
  <2>3. Head(w) = w[1] /\ 1 \in DOMAIN w
    BY <2>0, <2>2
  <2>4. PICK k \in S : Head(w) = g.ins[k]
    BY <2>2, <2>3
  <2>5. ids \in Seq(Nat) /\ InOrder(ids) /\ row.ids[d] \in Range(ids)
    <3>1. k \in DOMAIN g.ins /\ g.ins[k].dim = d /\ ids = g.ins[k].ids
      BY <2>4
    <3> HIDE DEF ids, S, row
    <3>2. InOrder(ids) /\ row.ids[d] \in Range(ids)
      BY <3>1 DEF HasIns, InsOrdered, row
    <3>3. g.ins[k] \in [dim : Dims, ids : Seq(Nat)]
      BY <2>1, <3>1, ElementOf
    <3> QED BY <3>1, <3>2, <3>3
  <2> HIDE DEF ids
  <2>6. PICK j \in DOMAIN ids : ids[j] = row.ids[d]
    BY <2>5 DEF Range
  <2>7. Len(ids) \in Nat /\ DOMAIN ids = 1 .. Len(ids) /\ \A i \in 1 .. Len(ids) : ids[i] \in Nat
    <3>1. ids \in Seq(Nat)
      BY <2>5
    <3> QED BY <3>1
  <2>8. ASSUME NEW i \in 1 .. Len(ids), NEW n \in 1 .. Len(ids), i <= n, i \in H PROVE n \in H
    <3>1. ids[i] \in Nat /\ ids[n] \in Nat /\ ids[i] <= ids[n]
      BY <2>5, <2>7, <2>8 DEF InOrder
    <3>2. ids[i] >= Len(v.base.dicts[d])
      BY <2>8
    <3>3. ids[n] >= Len(v.base.dicts[d])
      BY <1>1, <3>1, <3>2
    <3> QED BY <2>7, <3>3
  <2>9. j \notin H
    BY <1>1, <2>6
  <2> HIDE DEF H
  <2>10. at \in 1 .. Len(ids) + 1 /\ \A i \in 1 .. Len(ids) : i \in H <=> i >= at
    BY <2>7, <2>8, SearchFirst
  <2> HIDE DEF at
  <2>11. j \in 1 .. at - 1 /\ at - 1 <= Len(ids)
    BY <2>6, <2>7, <2>9, <2>10
  <2>12. DOMAIN SubSeq(ids, 1, at - 1) = 1 .. at - 1 /\ SubSeq(ids, 1, at - 1)[j] = ids[j]
    BY <2>5, <2>7, <2>10, <2>11
  <2> QED BY <2>0, <2>6, <2>11, <2>12 DEF Range
<1> QED BY <1>2, <1>3


\* The first k ids of a row, in the order of the prefix.
ComboOf(ids, k) == [i \in 1 .. k |-> ids[DimOrder[i]]]

LEMMA ComboMore ==
    ASSUME NEW ids \in [Dims -> Nat], NEW k \in Nat, \A i \in 1 .. k + 1 : DimOrder[i] \in Dims
    PROVE  /\ ComboOf(ids, k) \in Seq(Nat)
           /\ Append(ComboOf(ids, k), ids[DimOrder[k + 1]]) = ComboOf(ids, k + 1)
<1>1. \A i \in 1 .. k + 1 : ids[DimOrder[i]] \in Nat
  OBVIOUS
<1> DEFINE f == [i \in 1 .. k |-> ids[DimOrder[i]]]
           h == [i \in 1 .. k + 1 |-> ids[DimOrder[i]]]
<1>2. f \in Seq(Nat) /\ Len(f) = k
  BY <1>1
<1>3. h \in Seq(Nat) /\ Len(h) = k + 1
  BY <1>1
<1>4. h[k + 1] = ids[DimOrder[k + 1]] /\ \A i \in 1 .. k : h[i] = f[i]
  OBVIOUS
<1> HIDE DEF f, h
<1>5. Append(f, h[k + 1]) = h
  <2>1. Append(f, h[k + 1]) \in Seq(Nat) /\ Len(Append(f, h[k + 1])) = k + 1
    BY <1>1, <1>2, <1>4
  <2> QED BY <1>2, <1>3, <1>4, <2>1
<1> QED BY <1>2, <1>4, <1>5 DEF ComboOf, f, h

LEMMA WidenHas ==
    ASSUME NEW v \in Views, NEW g \in Groups, NEW d \in Dims, NEW combos \in Seq(Seq(Nat)),
           NEW c \in Range(combos), NEW id \in Range(candidates(v, g, d))
    PROVE  Append(c, id) \in Range(widen(v, g, combos, d))
<1> DEFINE ids == candidates(v, g, d)
           with(i) == [j \in DOMAIN ids |-> Append(combos[i], ids[j])]
           ss == [i \in DOMAIN combos |-> with(i)]
<1>1. ids \in Seq(Nat)
  BY CandidatesIs
<1>2. widen(v, g, combos, d) = Joined(ss)
  BY DEF widen
<1>3. PICK i \in DOMAIN combos : combos[i] = c
  BY DEF Range
<1>4. PICK j \in DOMAIN ids : ids[j] = id
  BY DEF Range
<1> HIDE DEF ids
<1>5. \A k \in DOMAIN combos : with(k) \in Seq(Seq(Nat))
  <2>1. ASSUME NEW k \in DOMAIN combos, NEW m \in DOMAIN ids PROVE Append(combos[k], ids[m]) \in Seq(Nat)
    BY <1>1
  <2>2. DOMAIN ids = 1 .. Len(ids) /\ Len(ids) \in Nat
    BY <1>1
  <2> QED BY <2>1, <2>2
<1>6. with(i)[j] = Append(c, id) /\ j \in DOMAIN with(i)
  BY <1>3, <1>4
<1> HIDE DEF with
<1>7. Append(c, id) \in Range(with(i))
  BY <1>6 DEF Range
<1>8. ss \in Seq(Seq(Seq(Nat))) /\ i \in DOMAIN ss /\ ss[i] = with(i)
  <2>1. DOMAIN combos = 1 .. Len(combos) /\ Len(combos) \in Nat
    OBVIOUS
  <2> QED BY <1>5, <2>1
<1> HIDE DEF ss
<1>9. Range(Joined(ss)) = UNION {Range(ss[k]) : k \in DOMAIN ss}
  BY <1>8, JoinedRange
<1> QED BY <1>2, <1>7, <1>8, <1>9

\* Of the first n dimensions the first k are covered, and a combination has ids.
Reaches(ids, n, x) ==
    \E k \in 0 .. n, combos \in Seq(Seq(Nat)), stop \in BOOLEAN :
        /\ x = [k |-> k, combos |-> combos, stop |-> stop]
        /\ stop \/ k = n
        /\ ComboOf(ids, k) \in Range(combos)

ReachInv(c, s, n, x) == Reaches(c.ids, n, x)

Reaching == INSTANCE Loops WITH Op <- CoverOp, Inv <- ReachInv

\* A group that asks for a base row.
Asks(v, g, r) ==
    /\ g \in Groups /\ InsOrdered(g) /\ ~g.err
    /\ r \in DOMAIN v.base.rows /\ Hits(v, g, v.base.rows[r])

LEMMA ReachStep ==
    ASSUME NEW v \in Views, NEW g, NEW slots \in Int, NEW r, Asks(v, g, r), NEW n \in Nat, n + 1 \in Prefix,
           NEW x, Reaches(v.base.rows[r].ids, n, x)
    PROVE  Reaches(v.base.rows[r].ids, n + 1, cover(v, g, slots, x, n + 1))
<1> DEFINE ids == v.base.rows[r].ids
           d == DimOrder[n + 1]
           nRows == Len(v.base.rows)
           cs == candidates(v, g, d)
           i == n + 1
<1>1. PICK k \in 0 .. n, combos \in Seq(Seq(Nat)), stop \in BOOLEAN :
        /\ x = [k |-> k, combos |-> combos, stop |-> stop]
        /\ stop \/ k = n
        /\ ComboOf(ids, k) \in Range(combos)
  BY DEF Reaches
<1> DEFINE m == Len(combos) * Len(cs)
           stops == eqsOn(g, d) = <<>> /\ (m = 0 \/ m * bitLen(nRows) > nRows \/ m > slots)
           w == widen(v, g, combos, d)
<1>2. cover(v, g, slots, x, i) = IF stop \/ stops THEN [x EXCEPT !.stop = TRUE]
                                ELSE [x EXCEPT !.k = i, !.combos = w]
  BY <1>1 DEF cover
<1>3. d \in Dims /\ \A j \in 1 .. n + 1 : DimOrder[j] \in Dims
  BY PrefixOrder
<1>4. /\ g \in Groups /\ InsOrdered(g) /\ r \in DOMAIN v.base.rows
      /\ HasEqs(g, v.base.rows[r]) /\ HasIns(g, v.base.rows[r])
  BY DEF Asks, Hits
<1>5. ids \in [Dims -> Nat]
  <2>1. v.base.rows[r] \in ColRow
    BY <1>4, RowsInSpace
  <2> QED BY <2>1 DEF ColRow
<1>6. stops \/ ids[d] \in Range(cs)
  <2>1. eqsOn(g, d) # <<>> \/ cs # <<>> \/ stops
    <3>1. ASSUME cs = <<>> PROVE m = 0
      <4>1. Len(cs) = 0 /\ Len(combos) \in Nat
        BY <3>1
      <4> QED BY <4>1
    <3> QED BY <3>1
  <2> HIDE DEF stops
  <2> QED BY <1>3, <1>4, <2>1, CandidateOf
<1>7. w \in Seq(Seq(Nat))
  BY <1>3, <1>4, WidenIs
<1>8. i \in 0 .. i /\ k \in 0 .. i
  OBVIOUS
<1>9. k = n /\ ids[d] \in Range(cs) => ComboOf(ids, i) \in Range(w)
  <2>1. SUFFICES ASSUME k = n, ids[d] \in Range(cs) PROVE ComboOf(ids, i) \in Range(w)
    OBVIOUS
  <2>2. Append(ComboOf(ids, n), ids[d]) = ComboOf(ids, i)
    BY <1>3, <1>5, ComboMore
  <2> HIDE DEF ids, d
  <2>3. Append(ComboOf(ids, n), ids[d]) \in Range(w)
    BY <1>1, <1>3, <1>4, <2>1, WidenHas
  <2> QED BY <2>2, <2>3
<1> HIDE DEF ids, d, i, w, stops
<1>10. CASE stop \/ stops
  <2>1. cover(v, g, slots, x, i) = [k |-> k, combos |-> combos, stop |-> TRUE]
    BY <1>1, <1>2, <1>10
  <2>2. Reaches(ids, i, cover(v, g, slots, x, i))
    BY <1>1, <1>8, <2>1 DEF Reaches
  <2> QED BY <2>2 DEF ids, i
<1>11. CASE ~(stop \/ stops)
  <2>1. cover(v, g, slots, x, i) = [k |-> i, combos |-> w, stop |-> stop]
    BY <1>1, <1>2, <1>11
  <2>2. ComboOf(ids, i) \in Range(w)
    BY <1>1, <1>6, <1>9, <1>11
  <2>3. Reaches(ids, i, cover(v, g, slots, x, i))
    BY <1>7, <1>8, <2>1, <2>2 DEF Reaches
  <2> QED BY <2>3 DEF ids, i
<1> QED BY <1>10, <1>11


LEMMA CoveredReaches ==
    ASSUME NEW v \in Views, NEW g, NEW slots \in Int, NEW r, Asks(v, g, r)
    PROVE  Reaches(v.base.rows[r].ids, Cardinality(IndexDims), covered(v, g, slots))
<1> DEFINE ids == v.base.rows[r].ids
           c == [v |-> v, g |-> g, slots |-> slots, ids |-> ids]
           s == [i \in Prefix |-> i]
           N == Cardinality(IndexDims)
<1>0. N \in Nat /\ DOMAIN s = 1 .. N /\ Prefix = 1 .. N
  BY PrefixOrder
<1>1. covered(v, g, slots) = Reaching!Fold(c, Uncovered, s)
  BY DEF covered, FoldLeft, MapThenFoldSet, Max, Reaching!Fold, Reaching!MapThenFoldSet, Reaching!Top, CoverOp, Uncovered
<1>2. ReachInv(c, s, 0, Uncovered)
  <2> DEFINE w == <<<<>>>>
             e == ComboOf(ids, 0)
  <2>1. w \in Seq(Seq(Nat)) /\ w[1] = <<>> /\ 1 \in DOMAIN w /\ 0 \in 0 .. 0
    OBVIOUS
  <2>2. e = <<>>
    BY DEF ComboOf
  <2>3. Uncovered = [k |-> 0, combos |-> w, stop |-> FALSE]
    BY DEF Uncovered
  <2> HIDE DEF w, e
  <2>4. e \in Range(w)
    BY <2>1, <2>2 DEF Range
  <2>5. c.ids = ids
    OBVIOUS
  <2> HIDE DEF c, ids
  <2> QED BY <2>1, <2>3, <2>4, <2>5 DEF ReachInv, Reaches, e
<1>3. ASSUME NEW n \in 0 .. N - 1, NEW x, ReachInv(c, s, n, x)
      PROVE  ReachInv(c, s, n + 1, CoverOp(c, x, s[n + 1]))
  <2>1. s[n + 1] = n + 1 /\ n + 1 \in Prefix /\ n \in Nat
    BY <1>0
  <2>2. CoverOp(c, x, s[n + 1]) = cover(v, g, slots, x, n + 1) /\ c.ids = ids
    BY <2>1 DEF CoverOp
  <2>3. Reaches(ids, n, x)
    BY <1>3, <2>2 DEF ReachInv
  <2> HIDE DEF c, s
  <2>4. Reaches(ids, n + 1, cover(v, g, slots, x, n + 1))
    BY <2>1, <2>3, ReachStep
  <2> QED BY <2>2, <2>4 DEF ReachInv
<1>4. ReachInv(c, s, N, Reaching!Fold(c, Uncovered, s))
  <2> HIDE DEF N, c, s
  <2> QED BY <1>0, <1>2, <1>3, Reaching!FoldInvariant
<1> QED BY <1>1, <1>4 DEF ReachInv

\* A row is within the interval of its first ids.
LEMMA RowInInterval ==
    ASSUME NEW v \in Views, NEW r \in DOMAIN v.base.rows, NEW k \in Prefix
    PROVE  LET w == interval(v, ComboOf(v.base.rows[r].ids, k))
           IN  1 <= w.lo /\ w.lo <= r /\ r < w.hi
<1> DEFINE ids == v.base.rows[r].ids
           combo == ComboOf(ids, k)
           keys == v.base.keys
           sh == v.base.shifts
           lo == SumSeq([i \in DOMAIN combo |-> combo[i] * 2^sh[i]])
           hi == lo + 2^sh[Len(combo)] - 1
           a == {q \in DOMAIN keys : keys[q] >= lo}
           b == {q \in DOMAIN keys : keys[q] > hi}
<1>1. interval(v, combo) = [lo |-> Search(Len(keys), a), hi |-> Search(Len(keys), b)]
  BY DEF interval
<1>2. /\ keys \in Seq(Nat) /\ Len(keys) = Len(v.base.rows) /\ keys[r] = packKey(sh, ids)
      /\ sh = computeShifts(v.base.dicts) /\ IdsIn(v.base.dicts, ids)
      /\ \A q, p \in DOMAIN v.base.rows : q <= p => keys[q] <= keys[p]
      /\ v.base.rows \in Seq(ColRow) /\ WidthsOf(v.base.dicts)
  BY ViewsRep DEF RepOK, SnapOK, DictOK, WidthsOf
<1>3. ids \in [Dims -> Nat]
  BY RowsInSpace DEF ColRow
<1>4. k \in Nat /\ k >= 1
  BY PrefixOrder
<1>5. lo = KeyFrom(sh, ids, k) /\ Len(combo) = k
  <2>1. DOMAIN combo = 1 .. k /\ \A i \in 1 .. k : combo[i] = ids[DimOrder[i]]
    BY DEF ComboOf
  <2>2. [i \in DOMAIN combo |-> combo[i] * 2^sh[i]] = [i \in 1 .. k |-> ids[DimOrder[i]] * 2^sh[i]]
    BY <2>1
  <2>3. Len(combo) = k
    <3>1. combo \in Seq(Nat)
      <4>1. \A i \in 1 .. k : DimOrder[i] \in Dims
        BY PrefixOrder
      <4>2. \A i \in 1 .. k : combo[i] \in Nat
        BY <1>3, <2>1, <4>1
      <4>3. combo = [i \in 1 .. k |-> combo[i]]
        BY <2>1 DEF ComboOf
      <4> HIDE DEF combo
      <4>4. combo \in [1 .. k -> Nat]
        BY <4>2, <4>3
      <4> QED BY <1>4, <4>4
    <3> HIDE DEF combo
    <3> QED BY <1>4, <2>1, <3>1
  <2> QED BY <2>2, <2>3 DEF KeyFrom
<1>6. lo \in Nat /\ 2^sh[k] \in Nat /\ lo <= keys[r] /\ keys[r] < lo + 2^sh[k]
  BY <1>2, <1>3, <1>5, PrefixKey
<1>7. hi \in Int /\ hi = lo + 2^sh[k] - 1 /\ keys[r] <= hi
  <2> DEFINE p == 2^sh[k]
  <2>1. hi = lo + p - 1
    BY <1>5
  <2>2. lo \in Nat /\ p \in Nat /\ lo <= keys[r] /\ keys[r] < lo + p /\ keys[r] \in Nat
    <3>1. keys[r] \in Nat
      BY <1>2
    <3> QED BY <1>6, <3>1
  <2> HIDE DEF lo, p, hi, keys
  <2> QED BY <2>1, <2>2 DEF p
<1> HIDE DEF lo, hi, combo, ids, sh
<1>8. /\ DOMAIN keys = 1 .. Len(keys) /\ Len(keys) \in Nat /\ r \in 1 .. Len(keys)
      /\ \A q \in 1 .. Len(keys) : keys[q] \in Nat
      /\ \A q, p \in 1 .. Len(keys) : q <= p => keys[q] <= keys[p]
  <2>1. DOMAIN v.base.rows = 1 .. Len(v.base.rows)
    BY <1>2
  <2>2. keys \in Seq(Nat) /\ Len(keys) = Len(v.base.rows)
    BY <1>2
  <2> HIDE DEF keys
  <2>3. DOMAIN keys = 1 .. Len(keys) /\ Len(keys) \in Nat /\ \A q \in 1 .. Len(keys) : keys[q] \in Nat
    BY <2>2
  <2>4. \A q, p \in 1 .. Len(keys) : q <= p => keys[q] <= keys[p]
    BY <1>2, <2>1, <2>2 DEF keys
  <2> QED BY <2>1, <2>2, <2>3, <2>4
<1> HIDE DEF keys
<1>9. r \in a /\ r \notin b
  BY <1>6, <1>7, <1>8
<1>10. \A q, p \in 1 .. Len(keys) : q <= p /\ q \in a => p \in a
  BY <1>6, <1>8
<1>11. \A q, p \in 1 .. Len(keys) : q <= p /\ q \in b => p \in b
  BY <1>7, <1>8
<1> HIDE DEF a, b
<1>12. Search(Len(keys), a) \in 1 .. Len(keys) + 1 /\ \A q \in 1 .. Len(keys) : q \in a <=> q >= Search(Len(keys), a)
  BY <1>8, <1>10, SearchFirst
<1>13. Search(Len(keys), b) \in 1 .. Len(keys) + 1 /\ \A q \in 1 .. Len(keys) : q \in b <=> q >= Search(Len(keys), b)
  BY <1>8, <1>11, SearchFirst
<1> QED BY <1>1, <1>8, <1>9, <1>12, <1>13 DEF combo, ids


\* Search finds an id in ascending ids where it is.
LEMMA MatchOneIs ==
    ASSUME NEW ids \in Seq(Nat), InOrder(ids), NEW id \in Nat
    PROVE  matchOneIn(ids, id) <=> id \in Range(ids)
<1> DEFINE n == Len(ids)
           H == {i \in DOMAIN ids : ids[i] >= id}
           at == Search(n, H)
<1>1. n \in Nat /\ DOMAIN ids = 1 .. n /\ \A i \in 1 .. n : ids[i] \in Nat
  OBVIOUS
<1>2. \A i, j \in 1 .. n : i <= j /\ i \in H => j \in H
  BY <1>1 DEF InOrder
<1>3. matchOneIn(ids, id) <=> IF n <= InLinearMax THEN \E i \in DOMAIN ids : ids[i] = id
                              ELSE at <= n /\ ids[at] = id
  BY DEF matchOneIn
<1>4. \A i \in 1 .. n : i \in H <=> ids[i] >= id
  BY <1>1
<1> HIDE DEF H
<1>5. at \in 1 .. n + 1 /\ \A i \in 1 .. n : i \in H <=> i >= at
  BY <1>1, <1>2, SearchFirst
<1> HIDE DEF at
<1>6. ASSUME NEW i \in 1 .. n, ids[i] = id PROVE at <= n /\ ids[at] = id
  <2>1. at <= i
    BY <1>1, <1>4, <1>5, <1>6
  <2>2. at \in 1 .. n
    BY <1>1, <1>5, <2>1
  <2>3. ids[at] <= ids[i]
    BY <1>1, <2>1, <2>2 DEF InOrder
  <2>4. ids[at] >= id
    BY <1>4, <1>5, <2>2
  <2> QED BY <1>1, <1>6, <2>2, <2>3, <2>4
<1>7. id \in Range(ids) <=> \E i \in DOMAIN ids : ids[i] = id
  BY DEF Range
<1> HIDE DEF n
<1> QED BY <1>1, <1>3, <1>5, <1>6, <1>7 DEF n

\* A plan asks of a row what its group asks.
LEMMA HitIs ==
    ASSUME NEW v \in Views, NEW p, p.group \in Groups, InsOrdered(p.group), NEW row, RowIn(v, row)
    PROVE  /\ matchConds(p, row) <=> HasEqs(p.group, row)
           /\ hit(v, p, row) <=> HasIns(p.group, row) /\ HasRanges(v, p.group, row)
<1>1. matchConds(p, row) <=> HasEqs(p.group, row)
  BY DEF matchConds, HasEqs
<1>2. matchRanges(p, v, row) <=> HasRanges(v, p.group, row)
  BY DEF matchRanges, HasRanges, InRange
<1>3. matchIns(p, row) <=> HasIns(p.group, row)
  <2>1. p.group.ins \in Seq([dim : Dims, ids : Seq(Nat)])
    BY DEF Groups
  <2>2. ASSUME NEW i \in DOMAIN p.group.ins
        PROVE  matchOneIn(p.group.ins[i].ids, row.ids[p.group.ins[i].dim])
               <=> row.ids[p.group.ins[i].dim] \in Range(p.group.ins[i].ids)
    <3>1. p.group.ins[i] \in [dim : Dims, ids : Seq(Nat)]
      BY <2>1, <2>2, ElementOf
    <3>2. InOrder(p.group.ins[i].ids)
      BY <2>2 DEF InsOrdered
    <3>3. row.ids[p.group.ins[i].dim] \in Nat
      BY <3>1 DEF RowIn, InSpace
    <3> QED BY <3>1, <3>2, <3>3, MatchOneIs
  <2> QED BY <2>2 DEF matchIns, HasIns
<1> QED BY <1>1, <1>2, <1>3 DEF hit


\* The intervals there are of a view, and those a plan picks from.
IvOf(v) == [lo : 1 .. Len(v.base.rows) + 1, hi : 1 .. Len(v.base.rows) + 1]

AllIvs(v, cov) ==
    IF cov.k = 0 THEN <<[lo |-> 1, hi |-> Len(v.base.rows) + 1]>>
    ELSE [i \in DOMAIN cov.combos |-> interval(v, cov.combos[i])]

LEMMA IntervalOf ==
    ASSUME NEW v \in Views, NEW combo
    PROVE  interval(v, combo) \in IvOf(v)
<1> DEFINE keys == v.base.keys
           lo == SumSeq([i \in DOMAIN combo |-> combo[i] * 2^v.base.shifts[i]])
           hi == lo + 2^v.base.shifts[Len(combo)] - 1
           a == {r \in DOMAIN keys : keys[r] >= lo}
           b == {r \in DOMAIN keys : keys[r] > hi}
<1>1. interval(v, combo) = [lo |-> Search(Len(keys), a), hi |-> Search(Len(keys), b)]
  BY DEF interval
<1>2. Len(keys) \in Nat /\ Len(keys) = Len(v.base.rows)
  BY ViewsAssumption DEF ReadsRight, IsColumns
<1> HIDE DEF keys, a, b
<1>3. Search(Len(keys), a) \in 1 .. Len(keys) + 1
  BY <1>2, SearchEdge
<1>4. Search(Len(keys), b) \in 1 .. Len(keys) + 1
  BY <1>2, SearchEdge
<1> QED BY <1>1, <1>2, <1>3, <1>4 DEF IvOf

LEMMA AllIvsIn ==
    ASSUME NEW v \in Views, NEW cov, cov.combos \in Seq(Seq(Nat))
    PROVE  AllIvs(v, cov) \in Seq(IvOf(v))
<1> DEFINE N == Len(cov.combos)
           e == [i \in 1 .. N |-> interval(v, cov.combos[i])]
           w == [lo |-> 1, hi |-> Len(v.base.rows) + 1]
<1>1. Len(v.base.rows) \in Nat
  BY ViewsAssumption DEF ReadsRight, IsColumns
<1>2. w \in IvOf(v)
  BY <1>1 DEF IvOf
<1>3. N \in Nat /\ DOMAIN cov.combos = 1 .. N
  OBVIOUS
<1>4. e \in Seq(IvOf(v))
  <2>1. \A i \in 1 .. N : interval(v, cov.combos[i]) \in IvOf(v)
    BY IntervalOf
  <2> HIDE DEF N
  <2>2. e \in [1 .. N -> IvOf(v)]
    BY <2>1
  <2> HIDE DEF e
  <2> QED BY <1>3, <2>2
<1>5. AllIvs(v, cov) = IF cov.k = 0 THEN <<w>> ELSE e
  BY <1>3 DEF AllIvs
<1> HIDE DEF w, e
<1> QED BY <1>2, <1>4, <1>5

\* Some interval has a row that is asked for.
LEMMA RowInAll ==
    ASSUME NEW v \in Views, NEW g, NEW slots \in Int, NEW r, Asks(v, g, r)
    PROVE  LET all == AllIvs(v, covered(v, g, slots))
           IN  all \in Seq(IvOf(v)) /\ \E i \in DOMAIN all : all[i].lo <= r /\ r < all[i].hi
<1> DEFINE ids == v.base.rows[r].ids
           cov == covered(v, g, slots)
           all == AllIvs(v, cov)
<1>1. PICK k \in 0 .. Cardinality(IndexDims), combos \in Seq(Seq(Nat)), stop \in BOOLEAN :
        /\ cov = [k |-> k, combos |-> combos, stop |-> stop]
        /\ ComboOf(ids, k) \in Range(combos)
  BY CoveredReaches DEF Reaches
<1>2. cov.k = k /\ cov.combos = combos
  BY <1>1
<1> HIDE DEF cov
<1>3. all \in Seq(IvOf(v))
  BY <1>2, AllIvsIn
<1>4. r \in DOMAIN v.base.rows /\ v.base.rows \in Seq(ColRow)
  BY ViewsRep DEF Asks, RepOK, SnapOK
<1>5. r \in 1 .. Len(v.base.rows) /\ Len(v.base.rows) \in Nat
  BY <1>4
<1>6. CASE k = 0
  <2>1. all = <<[lo |-> 1, hi |-> Len(v.base.rows) + 1]>>
    BY <1>2, <1>6 DEF AllIvs
  <2>2. 1 \in DOMAIN all /\ all[1].lo = 1 /\ all[1].hi = Len(v.base.rows) + 1
    BY <2>1
  <2> HIDE DEF all
  <2>3. all[1].lo <= r /\ r < all[1].hi
    BY <1>5, <2>2
  <2> QED BY <1>3, <2>2, <2>3 DEF all, cov
<1>7. CASE k # 0
  <2>1. PICK i \in DOMAIN combos : combos[i] = ComboOf(ids, k)
    BY <1>1 DEF Range
  <2>2. k \in Prefix
    BY <1>7, PrefixOrder
  <2>3. i \in DOMAIN all /\ all[i] = interval(v, ComboOf(ids, k))
    BY <1>2, <1>7, <2>1 DEF AllIvs
  <2>4. all[i].lo <= r /\ r < all[i].hi
    BY <1>4, <2>2, <2>3, RowInInterval
  <2> HIDE DEF all
  <2> QED BY <1>3, <2>3, <2>4 DEF all, cov
<1> QED BY <1>6, <1>7


LEMMA PossibleHit ==
    ASSUME NEW v \in Views, NEW g, NEW r, Asks(v, g, r)
    PROVE  basePossible(v, g)
<1> DEFINE ids == v.base.rows[r].ids
<1>1. g.conds \in Seq([dim : Dims, id : Nat]) /\ g.ins \in Seq([dim : Dims, ids : Seq(Nat)])
  BY DEF Asks, Groups
<1>2. \A d \in Dims : ids[d] < Len(v.base.dicts[d])
  <2>1. r \in DOMAIN v.base.rows /\ RepOK(v)
    BY ViewsRep DEF Asks
  <2> QED BY <2>1, BaseRowsHave DEF IdsIn
<1>3. /\ \A i \in DOMAIN g.conds : ids[g.conds[i].dim] = g.conds[i].id
      /\ \A i \in DOMAIN g.ins : ids[g.ins[i].dim] \in Range(g.ins[i].ids)
  BY DEF Asks, Hits, HasEqs, HasIns
<1> HIDE DEF ids
<1>4. ASSUME NEW i \in DOMAIN g.conds PROVE g.conds[i].id < Len(v.base.dicts[g.conds[i].dim])
  <2>1. g.conds[i] \in [dim : Dims, id : Nat]
    BY <1>1, <1>4, ElementOf
  <2> QED BY <1>2, <1>3, <1>4, <2>1
<1>5. ASSUME NEW i \in DOMAIN g.ins
      PROVE  \E id \in Range(g.ins[i].ids) : id < Len(v.base.dicts[g.ins[i].dim])
  <2>1. g.ins[i] \in [dim : Dims, ids : Seq(Nat)]
    BY <1>1, <1>5, ElementOf
  <2> QED BY <1>2, <1>3, <1>5, <2>1
<1> QED BY <1>4, <1>5 DEF basePossible

\* The rows the base match is restricted to are those of all intervals together.
LEMMA Bounds ==
    ASSUME NEW n \in Nat, NEW ivs \in Seq([lo : 1 .. n + 1, hi : 1 .. n + 1]), NEW i \in DOMAIN ivs
    PROVE  /\ Min({n + 1} \cup {w.lo : w \in Range(ivs)}) <= ivs[i].lo
           /\ Max({1} \cup {w.hi : w \in Range(ivs)}) >= ivs[i].hi
<1> DEFINE A == {n + 1} \cup {w.lo : w \in Range(ivs)}
           B == {1} \cup {w.hi : w \in Range(ivs)}
<1>1. Range(ivs) \subseteq [lo : 1 .. n + 1, hi : 1 .. n + 1] /\ ivs[i] \in Range(ivs)
  <2> DEFINE W == [lo : 1 .. n + 1, hi : 1 .. n + 1]
  <2>1. ivs \in Seq(W)
    OBVIOUS
  <2> HIDE DEF W
  <2>2. Range(ivs) \subseteq W /\ ivs[i] \in Range(ivs)
    BY <2>1, ElementOf DEF Range
  <2> QED BY <2>2 DEF W
<1>2. /\ A \in SUBSET Nat /\ B \in SUBSET Nat /\ A # {} /\ B # {} /\ \A x \in B : x <= n + 1
      /\ ivs[i].lo \in A /\ ivs[i].hi \in B /\ n + 1 \in Nat
  BY <1>1
<1> HIDE DEF A, B
<1>3. Min(A) <= ivs[i].lo
  BY <1>2, MinOf
<1>4. Max(B) >= ivs[i].hi
  <2> DEFINE b == n + 1
  <2>1. b \in Nat /\ \A x \in B : x <= b
    BY <1>2
  <2> HIDE DEF b
  <2> QED BY <1>2, <2>1, MaxOf
<1> QED BY <1>3, <1>4 DEF A, B

\* The intervals of a plan are within the rows, and have what its group asks for.
LEMMA PlanHits ==
    ASSUME NEW v \in Views, NEW g \in Groups, NEW slots \in Int
    PROVE  LET p == planOf(v, g, slots)
           IN  /\ p.ivs \in Seq(IvOf(v))
               /\ \A r : Asks(v, g, r) =>
                      /\ matchBase(p, v, r)
                      /\ \E i \in DOMAIN p.ivs : p.ivs[i].lo <= r /\ r < p.ivs[i].hi
<1> DEFINE p == planOf(v, g, slots)
           n == Len(v.base.rows)
           cov == covered(v, g, slots)
           all == AllIvs(v, cov)
           S == {i \in DOMAIN all : all[i].lo < all[i].hi}
           possible == ~g.err /\ ~g.dead /\ basePossible(v, g)
           ivs == IF ~possible THEN <<>> ELSE Pick(all, S)
<1>1. /\ p.group = g /\ p.basePossible = possible /\ p.ivs = ivs
      /\ p.lo = Min({n + 1} \cup {w.lo : w \in Range(ivs)})
      /\ p.hi = Max({1} \cup {w.hi : w \in Range(ivs)})
  BY DEF planOf, planFrom, AllIvs
<1>2. n \in Nat
  BY ViewsAssumption DEF ReadsRight, IsColumns
<1>3. cov.combos \in Seq(Seq(Nat))
  BY CoveredIs DEF Covering
<1> HIDE DEF cov
<1>4. all \in Seq(IvOf(v))
  BY <1>3, AllIvsIn
<1>5. Len(all) \in Nat /\ DOMAIN all = 1 .. Len(all)
  BY <1>4
<1> HIDE DEF all
<1>6. Pick(all, S) \in Seq(IvOf(v))
  <2> HIDE DEF S
  <2> QED BY <1>4, PickLen
<1>7. ivs \in Seq(IvOf(v))
  BY <1>6
<1>8. ASSUME NEW r, Asks(v, g, r)
      PROVE  matchBase(p, v, r) /\ \E i \in DOMAIN p.ivs : p.ivs[i].lo <= r /\ r < p.ivs[i].hi
  <2>1. possible /\ HasEqs(g, v.base.rows[r]) /\ r \in DOMAIN v.base.rows
    BY <1>8, PossibleHit DEF Asks, Hits
  <2>2. r \in Nat
    <3>1. DOMAIN v.base.rows = 1 .. n
      BY ViewsRep, BaseRowsHave
    <3> QED BY <2>1, <3>1
  <2>3. PICK j \in DOMAIN all : all[j].lo <= r /\ r < all[j].hi
    BY <1>8, RowInAll DEF all, cov
  <2>4. all[j] \in IvOf(v)
    BY <1>4, <2>3, ElementOf
  <2>5. j \in S
    BY <1>2, <2>2, <2>3, <2>4 DEF IvOf
  <2>6. PICK i \in DOMAIN ivs : ivs[i] = all[j]
    <3>1. PICK at : Picked(at, all, S, Len(all), Pick(all, S))
      <4> HIDE DEF S
      <4> QED BY <1>5, PickOrder
    <3>2. j \in S \cap (1 .. Len(all))
      BY <1>5, <2>3, <2>5
    <3>3. ivs = Pick(all, S)
      BY <2>1
    <3> HIDE DEF S, ivs
    <3> QED BY <3>1, <3>2, <3>3 DEF Picked
  <2> HIDE DEF ivs
  <2>7. /\ p.lo <= ivs[i].lo /\ p.hi >= ivs[i].hi
    BY <1>1, <1>2, <1>7, Bounds DEF IvOf
  <2>8. p.lo \in Int /\ p.hi \in Int
    <3>1. Range(ivs) \subseteq IvOf(v)
      BY <1>7 DEF Range
    <3> DEFINE A == {n + 1} \cup {w.lo : w \in Range(ivs)}
               B == {1} \cup {w.hi : w \in Range(ivs)}
               b == n + 1
    <3>2. A \in SUBSET Nat /\ B \in SUBSET Nat /\ A # {} /\ B # {} /\ b \in Nat /\ \A x \in B : x <= b
      BY <1>2, <3>1 DEF IvOf
    <3>3. p.lo = Min(A) /\ p.hi = Max(B)
      BY <1>1
    <3> HIDE DEF A, B, b
    <3>4. Min(A) \in A
      BY <3>2, MinOf
    <3>5. Max(B) \in B
      BY <3>2, MaxOf
    <3>6. Min(A) \in Nat /\ Max(B) \in Nat
      <4>1. A \subseteq Nat /\ B \subseteq Nat
        BY <3>2
      <4> QED BY <3>4, <3>5, <4>1
    <3> HIDE DEF p
    <3> QED BY <3>3, <3>6
  <2>9. ivs[i] \in IvOf(v)
    BY <2>4, <2>6
  <2>10. p.lo <= r /\ r < p.hi
    BY <1>2, <2>2, <2>3, <2>6, <2>7, <2>8, <2>9 DEF IvOf
  <2>11. matchConds(p, v.base.rows[r])
    BY <1>1, <2>1 DEF matchConds, HasEqs
  <2> HIDE DEF p
  <2> QED BY <1>1, <2>1, <2>3, <2>6, <2>10, <2>11 DEF matchBase
<1> HIDE DEF p, ivs
<1> QED BY <1>1, <1>7, <1>8 DEF p


=============================================================================
