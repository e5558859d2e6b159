---------------------------- MODULE QueryAnswers ----------------------------
(* What a query answers, for every table, every query and every size of       *)
(* scratch: given that resolving is exact and the plan covers every base row  *)
(* wanted, the sweep visits each once, and the folds add up to the aggregates *)
(* of the rows the view stands for.  Then group-bys: a group per key, the     *)
(* aggregates of its rows, in the order of the keys.                          *)
EXTENDS QueryProofs

-----------------------------------------------------------------------------
(* The sweep visits the rows of the intervals, each once and in order.        *)

IvsTo(n) == {w \in [lo : 1 .. n + 1, hi : 1 .. n + 1] : w.lo < w.hi}

HasRow(s, k, r) == \E i \in 1 .. k : s[i].lo <= r /\ r < s[i].hi

\* The rows of the first k intervals are visited.
SweptTo(n, s, k, x) ==
    \E done \in 1 .. n + 1, rows \in Seq(1 .. n) :
        /\ x = [done |-> done, rows |-> rows]
        /\ Rising(rows) /\ \A i \in DOMAIN rows : rows[i] < done
        /\ done = 1 \/ \E i \in 1 .. k : done = s[i].hi
        /\ \A r \in 1 .. n : r \in Range(rows) <=> HasRow(s, k, r)

SweepInv(c, s, k, x) == SweptTo(c, s, k, x)

Swept == INSTANCE Loops WITH Op <- SweepOp, Inv <- SweepInv

LEMMA SweepStep ==
    ASSUME NEW n \in Nat, NEW s \in Seq(IvsTo(n)), NEW k \in 0 .. Len(s) - 1, NEW x, SweptTo(n, s, k, x),
           \A i \in 1 .. k : s[i].lo <= s[k + 1].lo
    PROVE  SweptTo(n, s, k + 1, swept(x, s[k + 1]))
<1> DEFINE w == s[k + 1]
           K == k + 1
<1>1. PICK done \in 1 .. n + 1, rows \in Seq(1 .. n) :
        /\ x = [done |-> done, rows |-> rows]
        /\ Rising(rows) /\ \A i \in DOMAIN rows : rows[i] < done
        /\ done = 1 \/ \E i \in 1 .. k : done = s[i].hi
        /\ \A r \in 1 .. n : r \in Range(rows) <=> HasRow(s, k, r)
  BY DEF SweptTo
<1>2. DOMAIN s = 1 .. Len(s) /\ Len(s) \in Nat /\ K \in 1 .. Len(s) /\ 1 .. K = (1 .. k) \cup {K}
  OBVIOUS
<1>3. \A i \in 1 .. K : s[i] \in IvsTo(n)
  BY <1>2, ElementOf
<1>4. w.lo \in 1 .. n + 1 /\ w.hi \in 1 .. n + 1 /\ w.lo < w.hi
  BY <1>2, <1>3 DEF IvsTo
<1>5. \A r : HasRow(s, K, r) <=> HasRow(s, k, r) \/ (w.lo <= r /\ r < w.hi)
  BY <1>2 DEF HasRow
<1>6. \A r \in 1 .. n : w.lo <= r /\ r < done => HasRow(s, k, r)
  <2> SUFFICES ASSUME NEW r \in 1 .. n, w.lo <= r, r < done PROVE HasRow(s, k, r)
    OBVIOUS
  <2>1. PICK i \in 1 .. k : done = s[i].hi
    BY <1>1
  <2>2. s[i].lo <= w.lo /\ s[i].lo \in Int
    BY <1>2, <1>3, <2>1 DEF IvsTo
  <2>3. s[i].lo <= r /\ r < s[i].hi
    BY <1>4, <2>1, <2>2
  <2> QED BY <2>3 DEF HasRow
<1> HIDE DEF w, K
<1>7. CASE w.hi <= done
  <2>1. swept(x, w) = [done |-> done, rows |-> rows]
    BY <1>1, <1>7 DEF swept
  <2>2. \A r \in 1 .. n : r \in Range(rows) <=> HasRow(s, K, r)
    BY <1>1, <1>4, <1>5, <1>6, <1>7
  <2>3. done = 1 \/ \E i \in 1 .. K : done = s[i].hi
    BY <1>1, <1>2
  <2>4. SweptTo(n, s, K, swept(x, w))
    BY <1>1, <2>1, <2>2, <2>3 DEF SweptTo
  <2> QED BY <2>4 DEF w, K
<1>8. CASE ~(w.hi <= done)
  <2> DEFINE lo == IF w.lo < done THEN done ELSE w.lo
             t == rows \o [j \in 1 .. w.hi - lo |-> lo + j - 1]
  <2>1. swept(x, w) = [done |-> w.hi, rows |-> t]
    BY <1>1, <1>8 DEF swept
  <2>2. lo \in 1 .. n + 1 /\ lo < w.hi /\ done <= lo /\ w.lo <= lo
    BY <1>4, <1>8
  <2>3. \A i \in DOMAIN rows : rows[i] < lo
    <3>1. \A i \in DOMAIN rows : rows[i] \in 1 .. n
      BY ElementOf
    <3> QED BY <1>1, <2>2, <3>1
  <2>4. \A r \in 1 .. n : lo <= r => w.lo <= r
    BY <1>4, <2>2
  <2>5. \A r \in 1 .. n : w.lo <= r => lo <= r \/ r < done
    BY <1>4
  <2> DEFINE h == w.hi
             T == rows \o Run(lo, h)
  <2>6. h \in 1 .. n + 1 /\ lo < h /\ T = t
    BY <1>4, <2>2 DEF Run
  <2> HIDE DEF lo, h
  <2>7. /\ T \in Seq(1 .. n) /\ Rising(T) /\ \A i \in DOMAIN T : T[i] < h
        /\ \A r \in 1 .. n : r \in Range(T) <=> r \in Range(rows) \/ (lo <= r /\ r < h)
    <3>1. Rising(rows) /\ rows \in Seq(1 .. n) /\ n \in Nat /\ lo \in 1 .. n + 1 /\ h \in 1 .. n + 1 /\ lo < h
      BY <1>1, <2>2, <2>6
    <3> HIDE DEF T
    <3> QED BY <2>3, <3>1, RunAppended DEF T
  <2> HIDE DEF T, t
  <2>8. \A r \in 1 .. n : r \in Range(T) <=> HasRow(s, K, r)
    BY <1>1, <1>5, <1>6, <2>4, <2>5, <2>7 DEF h
  <2>9. \E i \in 1 .. K : h = s[i].hi
    BY <1>2 DEF h, w, K
  <2>10. swept(x, w) = [done |-> h, rows |-> T]
    BY <2>1, <2>6 DEF h
  <2>11. SweptTo(n, s, K, swept(x, w))
    BY <2>6, <2>7, <2>8, <2>9, <2>10 DEF SweptTo
  <2> QED BY <2>11 DEF w, K
<1> QED BY <1>7, <1>8

LEMMA SweepIs ==
    ASSUME NEW n \in Nat, NEW s \in Seq(IvsTo(n)), \A i, j \in DOMAIN s : i <= j => s[i].lo <= s[j].lo
    PROVE  /\ sweep(s) \in Seq(1 .. n) /\ Rising(sweep(s))
           /\ \A r \in 1 .. n : r \in Range(sweep(s)) <=> HasRow(s, Len(s), r)
<1> DEFINE N == Len(s)
           start == [done |-> 1, rows |-> <<>>]
<1>0. N \in Nat /\ DOMAIN s = 1 .. N
  OBVIOUS
<1>1. sweep(s) = Swept!Fold(n, start, s).rows
  BY DEF sweep, FoldLeft, MapThenFoldSet, Max, Swept!Fold, Swept!MapThenFoldSet, Swept!Top, SweepOp
<1>2. SweepInv(n, s, 0, start)
  <2> DEFINE rows == <<>>
             done == 1
  <2>1. /\ rows \in Seq(1 .. n) /\ DOMAIN rows = {} /\ done \in 1 .. n + 1 /\ 1 .. 0 = {}
        /\ start = [done |-> done, rows |-> rows]
    OBVIOUS
  <2>2. Rising(rows) /\ Range(rows) = {} /\ \A r : ~HasRow(s, 0, r)
    BY <2>1 DEF Rising, Range, HasRow
  <2>3. done = 1
    OBVIOUS
  <2> HIDE DEF rows, start, done
  <2> QED BY <2>1, <2>2, <2>3 DEF SweepInv, SweptTo
<1>3. ASSUME NEW k \in 0 .. N - 1, NEW x, SweepInv(n, s, k, x)
      PROVE  SweepInv(n, s, k + 1, SweepOp(n, x, s[k + 1]))
  <2>1. \A i \in 1 .. k : s[i].lo <= s[k + 1].lo
    BY <1>0
  <2> QED BY <1>3, <2>1, SweepStep DEF SweepInv, SweepOp
<1> HIDE DEF N, start
<1>4. SweepInv(n, s, N, Swept!Fold(n, start, s))
  BY <1>0, <1>2, <1>3, Swept!FoldInvariant
<1> QED BY <1>1, <1>4 DEF SweepInv, SweptTo, N


-----------------------------------------------------------------------------
(* What matches is what is wanted.                                            *)

\* The plans of a query that none of its groups fails.
Planned(v, groups, plans) ==
    /\ groups \in Seq(Seq(Conds)) /\ plans \in Seq(PlanSet(v)) /\ Len(plans) = Len(groups)
    /\ \A i \in DOMAIN plans : plans[i].group = GroupOf(v, groups[i]) /\ ~plans[i].group.err

MeetsAll(v, row, g) == \A j \in DOMAIN g : Meets(AbsRow(v, row), g[j])

LEMMA PlannedGroup ==
    ASSUME NEW v \in Views, NEW groups, NEW plans, Planned(v, groups, plans), NEW i \in DOMAIN plans
    PROVE  /\ plans[i].group \in Groups /\ InsOrdered(plans[i].group) /\ ~plans[i].group.err
           /\ \A row : RowIn(v, row) => (Hits(v, plans[i].group, row) <=> MeetsAll(v, row, groups[i]))
<1> DEFINE g == groups[i]
<1>1. DOMAIN plans = 1 .. Len(plans) /\ DOMAIN groups = 1 .. Len(groups) /\ Len(plans) = Len(groups)
  BY DEF Planned
<1>2. g \in Seq(Conds)
  BY <1>1, ElementOf DEF Planned
<1>3. plans[i].group = GroupOf(v, g) /\ ~plans[i].group.err
  BY DEF Planned
<1>4. DOMAIN g = 1 .. Len(g)
  BY <1>2
<1> HIDE DEF g
<1>5. ExactInv(v, g, Len(g), GroupOf(v, g))
  BY <1>2, GroupExact
<1> QED BY <1>3, <1>4, <1>5 DEF ExactInv, MeetsAll, g

\* A base row matches where it meets the group's conditions, and is then visited.
LEMMA PlannedBase ==
    ASSUME NEW v \in Views, NEW groups, NEW plans, Planned(v, groups, plans), NEW i \in DOMAIN plans,
           NEW r \in DOMAIN v.base.rows
    PROVE  /\ matchBase(plans[i], v, r) /\ hit(v, plans[i], v.base.rows[r])
              <=> MeetsAll(v, v.base.rows[r], groups[i])
           /\ MeetsAll(v, v.base.rows[r], groups[i]) =>
                 \E j \in DOMAIN plans[i].ivs : plans[i].ivs[j].lo <= r /\ r < plans[i].ivs[j].hi
<1> DEFINE p == plans[i]
           row == v.base.rows[r]
<1>1. RowIn(v, row)
  BY RowsInSpace DEF RowIn
<1>2. p.group \in Groups /\ InsOrdered(p.group) /\ ~p.group.err
  BY PlannedGroup
<1>3. Hits(v, p.group, row) <=> MeetsAll(v, row, groups[i])
  BY <1>1, PlannedGroup
<1>4. PICK g \in Groups, slots \in Int : p = planOf(v, g, slots)
  <2>1. p \in PlanSet(v)
    BY ElementOf DEF Planned
  <2> QED BY <2>1 DEF PlanSet
<1>5. p.group = g
  BY <1>4, PlanIs
<1> HIDE DEF p
<1>6. /\ matchConds(p, row) <=> HasEqs(p.group, row)
      /\ hit(v, p, row) <=> HasIns(p.group, row) /\ HasRanges(v, p.group, row)
  <2> HIDE DEF row
  <2> QED BY <1>1, <1>2, HitIs
<1>7. Asks(v, g, r) <=> Hits(v, p.group, row)
  BY <1>2, <1>5 DEF Asks
<1>8. Asks(v, g, r) => /\ matchBase(p, v, r)
                       /\ \E j \in DOMAIN p.ivs : p.ivs[j].lo <= r /\ r < p.ivs[j].hi
  BY <1>4, PlanHits
<1>9. matchBase(p, v, r) /\ hit(v, p, row) => Hits(v, p.group, row)
  BY <1>6 DEF matchBase, Hits
<1>10. Hits(v, p.group, row) => hit(v, p, row)
  BY <1>6 DEF Hits
<1> HIDE DEF row
<1>11. matchBase(p, v, r) /\ hit(v, p, row) <=> MeetsAll(v, row, groups[i])
  BY <1>3, <1>7, <1>8, <1>9, <1>10
<1>12. MeetsAll(v, row, groups[i]) => \E j \in DOMAIN p.ivs : p.ivs[j].lo <= r /\ r < p.ivs[j].hi
  BY <1>3, <1>7, <1>8
<1> QED BY <1>11, <1>12 DEF p, row

LEMMA PlannedDelta ==
    ASSUME NEW v \in Views, NEW groups, NEW plans, Planned(v, groups, plans), NEW i \in DOMAIN plans,
           NEW row, RowIn(v, row)
    PROVE  matchDelta(plans[i], row) /\ hit(v, plans[i], row) <=> MeetsAll(v, row, groups[i])
<1> DEFINE p == plans[i]
<1>1. p.group \in Groups /\ InsOrdered(p.group)
  BY PlannedGroup
<1>2. Hits(v, p.group, row) <=> MeetsAll(v, row, groups[i])
  BY PlannedGroup
<1> HIDE DEF p
<1>3. /\ matchConds(p, row) <=> HasEqs(p.group, row)
      /\ hit(v, p, row) <=> HasIns(p.group, row) /\ HasRanges(v, p.group, row)
  BY <1>1, HitIs
<1>4. matchDelta(p, row) /\ hit(v, p, row) <=> Hits(v, p.group, row)
  BY <1>3 DEF matchDelta, Hits
<1> QED BY <1>2, <1>4 DEF p


MeetsSome(v, row, groups) == \E i \in DOMAIN groups : MeetsAll(v, row, groups[i])

\* Where expiry is looked at is where a row can have expired.
LEMMA BaseHitIs ==
    ASSUME NEW v \in Views, NEW groups, NEW plans, Planned(v, groups, plans), NEW now \in Time,
           NEW r \in DOMAIN v.base.rows
    PROVE  baseHit(v, plans, now, r)
           <=> /\ r \notin v.overridden /\ ~rowExpired(v.base.rows[r].exp, now)
               /\ MeetsSome(v, v.base.rows[r], groups)
<1> DEFINE row == v.base.rows[r]
<1>1. DOMAIN plans = DOMAIN groups
  BY DEF Planned
<1>2. \A i \in DOMAIN plans : matchBase(plans[i], v, r) /\ hit(v, plans[i], row) <=> MeetsAll(v, row, groups[i])
  BY PlannedBase
<1>3. baseExp(v, now) /\ rowExpired(row.exp, now) <=> rowExpired(row.exp, now)
  <2>1. row.exp # 0 => v.base.minExpire # 0 /\ v.base.minExpire <= row.exp
    BY ViewsRep DEF ExpiryOK
  <2>2. row.exp \in Time /\ v.base.minExpire \in Time
    <3>1. row \in ColRow
      BY RowsInSpace
    <3> QED BY <3>1, ViewsAssumption DEF ReadsRight, IsColumns, ColRow
  <2>3. \A x, y, z \in Time : x <= y /\ y <= z => x <= z
    BY ZeroIsTime
  <2> QED BY <2>1, <2>2, <2>3 DEF baseExp, rowExpired
<1> HIDE DEF row
<1> QED BY <1>1, <1>2, <1>3 DEF baseHit, MeetsSome, row

LEMMA DeltaHitIs ==
    ASSUME NEW v \in Views, NEW groups, NEW plans, Planned(v, groups, plans), NEW now,
           NEW q \in DOMAIN v.delta.rows
    PROVE  deltaHit(v, plans, now, v.delta.rows[q])
           <=> ~rowExpired(v.delta.rows[q].exp, now) /\ MeetsSome(v, v.delta.rows[q], groups)
<1> DEFINE row == v.delta.rows[q]
<1>1. DOMAIN plans = DOMAIN groups
  BY DEF Planned
<1>2. RowIn(v, row)
  BY RowsInSpace DEF RowIn
<1>3. \A i \in DOMAIN plans : matchDelta(plans[i], row) /\ hit(v, plans[i], row) <=> MeetsAll(v, row, groups[i])
  BY <1>2, PlannedDelta
<1>4. row.exp # 0 => v.delta.hasExpiry
  BY ViewsRep DEF ExpiryOK
<1> HIDE DEF row
<1> QED BY <1>1, <1>3, <1>4 DEF deltaHit, MeetsSome, rowExpired, row

\* Rows of the view at different places differ in what they stand for.
LEMMA RowsDiffer ==
    ASSUME NEW v \in Views
    PROVE  /\ \A q, r \in DOMAIN v.base.rows : AbsRow(v, v.base.rows[q]) = AbsRow(v, v.base.rows[r]) => q = r
           /\ \A q, r \in DOMAIN v.delta.rows : AbsRow(v, v.delta.rows[q]) = AbsRow(v, v.delta.rows[r]) => q = r
           /\ \A q \in DOMAIN v.delta.rows, r \in DOMAIN v.base.rows :
                 AbsRow(v, v.delta.rows[q]) = AbsRow(v, v.base.rows[r]) => r \in v.overridden
           /\ v.overridden \subseteq DOMAIN v.base.rows
<1>1. /\ \A d \in Dims : DictPair(v, d)
      /\ \A q, r \in DOMAIN v.base.rows : v.base.rows[q].ids = v.base.rows[r].ids => q = r
      /\ \A q, r \in DOMAIN v.delta.rows : v.delta.rows[q].ids = v.delta.rows[r].ids => q = r
      /\ v.overridden = {r \in DOMAIN v.base.rows :
                            \E q \in DOMAIN v.delta.rows : v.delta.rows[q].ids = v.base.rows[r].ids}
  BY ViewsRep DEF RepOK, SnapOK, DeltaRowsOK, OverridesOK
<1>2. ASSUME NEW a, NEW b, InSpace(v, a.ids), InSpace(v, b.ids), AbsRow(v, a) = AbsRow(v, b)
      PROVE  a.ids = b.ids
  BY <1>1, <1>2, AbsDims
<1>3. /\ \A r \in DOMAIN v.base.rows : InSpace(v, v.base.rows[r].ids)
      /\ \A q \in DOMAIN v.delta.rows : InSpace(v, v.delta.rows[q].ids)
  BY RowsInSpace
<1>4. ASSUME NEW q \in DOMAIN v.base.rows, NEW r \in DOMAIN v.base.rows,
             AbsRow(v, v.base.rows[q]) = AbsRow(v, v.base.rows[r])
      PROVE  q = r
  BY <1>1, <1>2, <1>3, <1>4
<1>5. ASSUME NEW q \in DOMAIN v.delta.rows, NEW r \in DOMAIN v.delta.rows,
             AbsRow(v, v.delta.rows[q]) = AbsRow(v, v.delta.rows[r])
      PROVE  q = r
  BY <1>1, <1>2, <1>3, <1>5
<1>6. ASSUME NEW q \in DOMAIN v.delta.rows, NEW r \in DOMAIN v.base.rows,
             AbsRow(v, v.delta.rows[q]) = AbsRow(v, v.base.rows[r])
      PROVE  r \in v.overridden
  BY <1>1, <1>2, <1>3, <1>6
<1> QED BY <1>1, <1>4, <1>5, <1>6

\* A row is wanted when it stands for a base row or a delta row that matches.
LEMMA SelectedIs ==
    ASSUME NEW v \in Views, NEW groups, NEW plans, Planned(v, groups, plans), NEW now \in Time
    PROVE  \A x : x \in Selected(v, groups, now)
                  <=> \/ \E r \in DOMAIN v.base.rows : x = AbsRow(v, v.base.rows[r]) /\ baseHit(v, plans, now, r)
                      \/ \E q \in DOMAIN v.delta.rows :
                            x = AbsRow(v, v.delta.rows[q]) /\ deltaHit(v, plans, now, v.delta.rows[q])
<1> DEFINE Good(x) == ~rowExpired(x.exp, now) /\ \E i \in DOMAIN groups : \A j \in DOMAIN groups[i] : Meets(x, groups[i][j])
           base == v.base.rows
           delta == v.delta.rows
<1>1. \A row : Good(AbsRow(v, row)) <=> ~rowExpired(row.exp, now) /\ MeetsSome(v, row, groups)
  <2>1. \A row : AbsRow(v, row).exp = row.exp
    BY DEF AbsRow
  <2> QED BY <2>1 DEF MeetsSome, MeetsAll
<1>2. \A x : x \in Selected(v, groups, now) <=> x \in Logical(AbsView(v)) /\ Good(x)
  BY DEF Selected
<1>3. \A x : x \in Logical(AbsView(v))
             <=> \/ x \in {AbsRow(v, row) : row \in Range(base)} /\ x \notin {AbsRow(v, base[r]) : r \in v.overridden}
                 \/ x \in {AbsRow(v, row) : row \in Range(delta)}
  BY DEF Logical, AbsView
<1>4. \A x : x \in {AbsRow(v, row) : row \in Range(base)} <=> \E r \in DOMAIN base : x = AbsRow(v, base[r])
  BY DEF Range
<1>5. \A x : x \in {AbsRow(v, row) : row \in Range(delta)} <=> \E q \in DOMAIN delta : x = AbsRow(v, delta[q])
  BY DEF Range
<1> HIDE DEF Good, base, delta
<1>6. \A r \in DOMAIN base : AbsRow(v, base[r]) \in {AbsRow(v, base[q]) : q \in v.overridden} <=> r \in v.overridden
  BY RowsDiffer DEF base
<1>7. \A x : x \in Logical(AbsView(v))
             <=> \/ \E r \in DOMAIN base : x = AbsRow(v, base[r]) /\ r \notin v.overridden
                 \/ \E q \in DOMAIN delta : x = AbsRow(v, delta[q])
  BY <1>3, <1>4, <1>5, <1>6
<1>8. \A r \in DOMAIN base : baseHit(v, plans, now, r) <=> r \notin v.overridden /\ Good(AbsRow(v, base[r]))
  BY <1>1, BaseHitIs DEF base
<1>9. \A q \in DOMAIN delta : deltaHit(v, plans, now, delta[q]) <=> Good(AbsRow(v, delta[q]))
  BY <1>1, DeltaHitIs DEF delta
<1>10. ASSUME NEW x
       PROVE  x \in Selected(v, groups, now)
              <=> \/ \E r \in DOMAIN base : x = AbsRow(v, base[r]) /\ baseHit(v, plans, now, r)
                  \/ \E q \in DOMAIN delta : x = AbsRow(v, delta[q]) /\ deltaHit(v, plans, now, delta[q])
  BY <1>2, <1>7, <1>8, <1>9
<1> QED BY <1>10 DEF base, delta


\* The visits are base rows, ascending, and those of every interval of every plan.
LEMMA VisitsIs ==
    ASSUME NEW v \in Views, NEW plans \in Seq(PlanSet(v))
    PROVE  LET V == sweep(sortedIvs(plans))
               n == Len(v.base.rows)
           IN  /\ V \in Seq(1 .. n) /\ Rising(V)
               /\ \A r \in 1 .. n, i \in DOMAIN plans : \A j \in DOMAIN plans[i].ivs :
                     plans[i].ivs[j].lo <= r /\ r < plans[i].ivs[j].hi => r \in Range(V)
<1> DEFINE n == Len(v.base.rows)
           W == IvsTo(n)
           N == Len(plans)
           ss == [i \in DOMAIN plans |-> plans[i].ivs]
           s == sortedIvs(plans)
<1>1. n \in Nat /\ N \in Nat /\ DOMAIN plans = 1 .. N
  BY ViewsAssumption DEF ReadsRight, IsColumns
<1>2. ASSUME NEW i \in DOMAIN plans PROVE plans[i].ivs \in Seq(W)
  <2> DEFINE ivs == plans[i].ivs
  <2>1. plans[i] \in PlanSet(v)
    BY ElementOf
  <2>2. PICK g \in Groups, slots \in Int : plans[i] = planOf(v, g, slots)
    BY <2>1 DEF PlanSet
  <2>3. ivs \in Seq(IvOf(v)) /\ \A j \in DOMAIN ivs : ivs[j].lo < ivs[j].hi
    BY <2>1, <2>2, PlanHits, PlanSetIs
  <2> HIDE DEF ivs
  <2>4. \A j \in DOMAIN ivs : ivs[j] \in W
    <3>1. \A j \in DOMAIN ivs : ivs[j] \in IvOf(v)
      BY <2>3, ElementOf
    <3> QED BY <2>3, <3>1 DEF IvOf, IvsTo
  <2> HIDE DEF W
  <2>5. ivs \in [1 .. Len(ivs) -> W] /\ Len(ivs) \in Nat
    BY <2>3, <2>4
  <2>6. ivs \in Seq(W)
    BY <2>5
  <2> QED BY <2>6 DEF ivs
<1> HIDE DEF n, W, N
<1>3. ss \in Seq(Seq(W))
  <2>1. ss \in [1 .. N -> Seq(W)]
    BY <1>1, <1>2
  <2> HIDE DEF ss
  <2> QED BY <1>1, <2>1
<1>4. /\ intervals(plans) \in Seq(W)
      /\ Range(intervals(plans)) = UNION {Range(ss[i]) : i \in DOMAIN ss}
  <2>1. intervals(plans) = Joined(ss)
    BY DEF intervals
  <2> HIDE DEF ss
  <2> QED BY <1>3, <2>1, JoinedRange
<1>5. /\ s \in Seq(Wide) /\ Range(s) = Range(intervals(plans))
      /\ \A i, j \in DOMAIN s : i <= j => s[i].lo <= s[j].lo
  BY IntervalsOf, SortedIvsOrder
<1> HIDE DEF s
<1>6. s \in Seq(W)
  <2>1. Range(s) \subseteq W
    <3>1. Range(intervals(plans)) \subseteq W
      BY <1>4 DEF Range
    <3> QED BY <1>5, <3>1
  <2>2. \A i \in DOMAIN s : s[i] \in W
    BY <2>1 DEF Range
  <2>3. Len(s) \in Nat /\ s \in [1 .. Len(s) -> W]
    BY <1>5, <2>2
  <2> QED BY <2>3
<1>7. /\ sweep(s) \in Seq(1 .. n) /\ Rising(sweep(s))
      /\ \A r \in 1 .. n : r \in Range(sweep(s)) <=> HasRow(s, Len(s), r)
  BY <1>1, <1>5, <1>6, SweepIs DEF W
<1>8. ASSUME NEW r \in 1 .. n, NEW i \in DOMAIN plans, NEW j \in DOMAIN plans[i].ivs,
             plans[i].ivs[j].lo <= r, r < plans[i].ivs[j].hi
      PROVE  HasRow(s, Len(s), r)
  <2>1. plans[i].ivs[j] \in Range(ss[i]) /\ i \in DOMAIN ss
    BY DEF Range
  <2> HIDE DEF ss
  <2>2. plans[i].ivs[j] \in Range(s)
    BY <1>4, <1>5, <2>1
  <2>3. PICK k \in DOMAIN s : s[k] = plans[i].ivs[j]
    BY <2>2 DEF Range
  <2>4. k \in 1 .. Len(s)
    BY <1>6, <2>3
  <2> QED BY <1>8, <2>3, <2>4 DEF HasRow
<1> QED BY <1>7, <1>8 DEF s, n

\* What a query folds stands for what is wanted, each row once.
LEMMA MatchedIs ==
    ASSUME NEW v \in Views, NEW groups, NEW plans, Planned(v, groups, plans), NEW now \in Time
    PROVE  LET M == matched(v, plans, now)
           IN  /\ M \in Seq(ColRow) /\ \A i \in DOMAIN M : RowIn(v, M[i])
               /\ Lists(Stands(v, M), Len(M), Selected(v, groups, now))
<1> DEFINE X == {row \in ColRow : RowIn(v, row)}
           V == sweep(sortedIvs(plans))
           n == Len(v.base.rows)
           m == Len(v.delta.rows)
           K == Len(V)
           base == [i \in DOMAIN V |-> v.base.rows[V[i]]]
           delta == v.delta.rows
           S == {i \in DOMAIN V : baseHit(v, plans, now, V[i])}
           T == {q \in DOMAIN delta : deltaHit(v, plans, now, delta[q])}
           A == {AbsRow(v, base[i]) : i \in S \cap (1 .. K)}
           B == {AbsRow(v, delta[q]) : q \in T \cap (1 .. m)}
<1>1. matched(v, plans, now) = Pick(base, S) \o Pick(delta, T)
  BY DEF matched
<1>2. /\ n \in Nat /\ m \in Nat /\ DOMAIN v.base.rows = 1 .. n /\ DOMAIN delta = 1 .. m
      /\ \A r \in DOMAIN v.base.rows : v.base.rows[r] \in X
      /\ \A q \in DOMAIN delta : delta[q] \in X
  BY ViewsAssumption, RowsInSpace DEF ReadsRight, IsColumns, RowIn
<1>3. /\ V \in Seq(1 .. n) /\ Rising(V)
      /\ \A r \in 1 .. n, i \in DOMAIN plans : \A j \in DOMAIN plans[i].ivs :
            plans[i].ivs[j].lo <= r /\ r < plans[i].ivs[j].hi => r \in Range(V)
  BY VisitsIs DEF Planned
<1> HIDE DEF V, n, m, X
<1>4. /\ K \in Nat /\ DOMAIN V = 1 .. K /\ \A i \in 1 .. K : V[i] \in 1 .. n
      /\ \A i, j \in 1 .. K : V[i] = V[j] => i = j
  <2>1. K \in Nat /\ DOMAIN V = 1 .. K /\ \A i \in 1 .. K : V[i] \in 1 .. n
    <3> DEFINE Y == 1 .. n
    <3>1. V \in Seq(Y)
      BY <1>3
    <3> HIDE DEF Y
    <3>2. K \in Nat /\ DOMAIN V = 1 .. K /\ \A i \in 1 .. K : V[i] \in Y
      BY <3>1
    <3> QED BY <3>2 DEF Y
  <2>2. \A i, j \in 1 .. K : i < j => V[i] < V[j]
    BY <1>3, <2>1 DEF Rising
  <2>3. ASSUME NEW i \in 1 .. K, NEW j \in 1 .. K, V[i] = V[j] PROVE i = j
    <3>1. V[i] \in Int
      BY <2>1
    <3>2. ~(i < j) /\ ~(j < i)
      BY <2>2, <2>3, <3>1
    <3> QED BY <2>1, <3>2
  <2> QED BY <2>1, <2>3
<1> HIDE DEF K
<1>5. /\ DOMAIN base = 1 .. K /\ \A i \in 1 .. K : base[i] = v.base.rows[V[i]] /\ base[i] \in X
  BY <1>2, <1>4
<1>6. base \in Seq(X) /\ delta \in Seq(X)
  <2>1. base \in [1 .. K -> X]
    BY <1>5
  <2>2. delta \in Seq(ColRow)
    BY ViewsRep DEF RepOK, DeltaRowsOK
  <2>3. delta \in [1 .. m -> X]
    BY <1>2, <2>2
  <2> HIDE DEF base, delta
  <2> QED BY <1>2, <1>4, <2>1, <2>3
<1>7. \A r \in 1 .. n : baseHit(v, plans, now, r) => \E i \in S \cap (1 .. K) : V[i] = r
  <2> SUFFICES ASSUME NEW r \in 1 .. n, baseHit(v, plans, now, r)
               PROVE  \E i \in S \cap (1 .. K) : V[i] = r
    OBVIOUS
  <2>1. PICK i \in DOMAIN plans : matchBase(plans[i], v, r) /\ hit(v, plans[i], v.base.rows[r])
    BY DEF baseHit
  <2>2. \E j \in DOMAIN plans[i].ivs : plans[i].ivs[j].lo <= r /\ r < plans[i].ivs[j].hi
    BY <1>2, <2>1, PlannedBase
  <2>3. r \in Range(V)
    BY <1>3, <2>2
  <2> QED BY <1>4, <2>3 DEF Range
<1>8. \A i \in S \cap (1 .. K) : baseHit(v, plans, now, V[i])
  OBVIOUS
<1>9. \A q : q \in T \cap (1 .. m) <=> q \in DOMAIN delta /\ deltaHit(v, plans, now, delta[q])
  BY <1>2
<1> HIDE DEF base, S, T, delta
<1>10. Lists(Stands(v, Pick(base, S)), Len(Pick(base, S)), A)
  <2>1. \A i, j \in S \cap (1 .. K) : AbsRow(v, base[i]) = AbsRow(v, base[j]) => i = j
    <3> SUFFICES ASSUME NEW i \in S \cap (1 .. K), NEW j \in S \cap (1 .. K),
                        AbsRow(v, base[i]) = AbsRow(v, base[j])
                 PROVE  i = j
      OBVIOUS
    <3>1. V[i] \in DOMAIN v.base.rows /\ V[j] \in DOMAIN v.base.rows
      BY <1>2, <1>4
    <3>2. AbsRow(v, v.base.rows[V[i]]) = AbsRow(v, v.base.rows[V[j]])
      BY <1>5
    <3>3. V[i] = V[j]
      BY <3>1, <3>2, RowsDiffer
    <3> QED BY <1>4, <3>3
  <2> QED BY <1>4, <1>5, <2>1, PickStands
<1>11. Lists(Stands(v, Pick(delta, T)), Len(Pick(delta, T)), B)
  <2>1. \A i, j \in T \cap (1 .. m) : AbsRow(v, delta[i]) = AbsRow(v, delta[j]) => i = j
    BY <1>9, RowsDiffer DEF delta
  <2>2. m \in Nat /\ DOMAIN delta = 1 .. m
    BY <1>2
  <2> DEFINE t == Pick(delta, T)
  <2>3. Lists(Stands(v, t), Len(t), {AbsRow(v, delta[q]) : q \in T \cap (1 .. m)})
    BY <2>1, <2>2, PickStands
  <2> HIDE DEF t
  <2> QED BY <2>3 DEF t
<1>12. A \cap B = {}
  <2> SUFFICES ASSUME NEW i \in S \cap (1 .. K), NEW q \in T \cap (1 .. m), AbsRow(v, base[i]) = AbsRow(v, delta[q])
               PROVE  FALSE
    OBVIOUS
  <2>1. V[i] \in DOMAIN v.base.rows /\ base[i] = v.base.rows[V[i]]
    BY <1>2, <1>4, <1>5
  <2>2. V[i] \in v.overridden
    BY <1>9, <2>1, RowsDiffer DEF delta
  <2> QED BY <1>8, <2>2 DEF baseHit
<1>13. \A x : x \in A <=> \E r \in 1 .. n : x = AbsRow(v, v.base.rows[r]) /\ baseHit(v, plans, now, r)
  BY <1>4, <1>5, <1>7, <1>8
<1>14. \A x : x \in B <=> \E q \in DOMAIN delta : x = AbsRow(v, delta[q]) /\ deltaHit(v, plans, now, delta[q])
  BY <1>9
<1> HIDE DEF A, B
<1>15. A \cup B = Selected(v, groups, now)
  <2>1. \A x : x \in Selected(v, groups, now)
               <=> \/ \E r \in 1 .. n : x = AbsRow(v, v.base.rows[r]) /\ baseHit(v, plans, now, r)
                   \/ \E q \in DOMAIN delta : x = AbsRow(v, delta[q]) /\ deltaHit(v, plans, now, delta[q])
    BY <1>2, SelectedIs DEF delta
  <2> QED BY <1>13, <1>14, <2>1
<1> DEFINE P == Pick(base, S)
           Q == Pick(delta, T)
<1>16. P \in Seq(X) /\ Q \in Seq(X)
  BY <1>6, PickLen
<1> HIDE DEF P, Q
<1>17. Lists(Stands(v, P \o Q), Len(P \o Q), A \cup B)
  BY <1>10, <1>11, <1>12, <1>16, ConcatStands DEF P, Q
<1> DEFINE M == P \o Q
<1>18. M \in Seq(X)
  BY <1>16
<1>19. matched(v, plans, now) = M
  BY <1>1 DEF P, Q
<1> HIDE DEF M
<1>20. \A i \in DOMAIN M : M[i] \in X
  BY <1>18, ElementOf
<1>21. M \in Seq(ColRow) /\ \A i \in DOMAIN M : RowIn(v, M[i])
  <2>1. \A i \in DOMAIN M : M[i] \in ColRow /\ RowIn(v, M[i])
    BY <1>20 DEF X
  <2>2. Len(M) \in Nat /\ DOMAIN M = 1 .. Len(M) /\ M = [i \in 1 .. Len(M) |-> M[i]]
    BY <1>18
  <2>3. M \in [1 .. Len(M) -> ColRow]
    BY <2>1, <2>2
  <2> QED BY <2>1, <2>2, <2>3
<1> QED BY <1>15, <1>17, <1>19, <1>21 DEF M


-----------------------------------------------------------------------------
(* Totals, of a set of rows and of the sequence that lists it.                *)

MetSumFun(g, D, m) ==
    g = [s \in SUBSET D |->
            IF s = {} THEN 0 ELSE Metric[(CHOOSE x \in s : TRUE).met][m] + g[s \ {CHOOSE x \in s : TRUE}]]

TheMetSum(D, m) == CHOOSE g : MetSumFun(g, D, m)

LEMMA TotalFun ==
    ASSUME NEW D, NEW m
    PROVE  Total(D, m) = TheMetSum(D, m)[D]
BY DEF Total, MapThenSumSet, MapThenFoldSet, TheMetSum, MetSumFun

LEMMA TotalIs ==
    ASSUME NEW N \in Nat, NEW e, NEW D, Lists(e, N, D), NEW m, \A x \in D : Metric[x.met][m] \in Int
    PROVE  Total(D, m) = SumSeq([i \in 1 .. N |-> Metric[e[i].met][m]])
<1> DEFINE f == [x \in D |-> Metric[x.met][m]]
           g == TheMetSum(D, m)
           a == [i \in 1 .. N |-> f[e[i]]]
           b == [i \in 1 .. N |-> Metric[e[i].met][m]]
<1>1. ASSUME NEW h PROVE SetSums(h, f, D) <=> MetSumFun(h, D, m)
  <2>1. \A s \in SUBSET D : s # {} => f[CHOOSE x \in s : TRUE] = Metric[(CHOOSE x \in s : TRUE).met][m]
    OBVIOUS
  <2> HIDE DEF f
  <2>2. [s \in SUBSET D |-> IF s = {} THEN 0 ELSE f[CHOOSE x \in s : TRUE] + h[s \ {CHOOSE x \in s : TRUE}]]
        = [s \in SUBSET D |->
             IF s = {} THEN 0
             ELSE Metric[(CHOOSE x \in s : TRUE).met][m] + h[s \ {CHOOSE x \in s : TRUE}]]
    BY <2>1
  <2> QED BY <2>2 DEF SetSums, MetSumFun
<1>2. \A x \in D : f[x] \in Int
  OBVIOUS
<1>3. a = b
  <2>1. \A i \in 1 .. N : e[i] \in D
    BY DEF Lists
  <2> QED BY <2>1
<1> HIDE DEF f, b
<1>4. (\E h : SetSums(h, f, D)) /\ \A h : SetSums(h, f, D) => h[D] = SumSeq(a)
  BY <1>2, SetSumIs
<1>5. MetSumFun(g, D, m)
  BY <1>1, <1>4 DEF TheMetSum
<1> HIDE DEF g, a
<1>6. g[D] = SumSeq(a)
  BY <1>1, <1>4, <1>5
<1> QED BY <1>3, <1>6, TotalFun DEF g, b


-----------------------------------------------------------------------------
(* The columns of queryAggs, row by row.                                      *)

MetOf(rows, a, i) == Metric[rows[i].met][a.metric]

MetsTo(rows, a, n) == [i \in 1 .. n |-> MetOf(rows, a, i)]

IdsTo(rows, a, n) == {rows[i].ids[a.dim] : i \in 1 .. n}

\* A column after n rows.
ColTo(a, rows, n, x) ==
    \E acc, bm :
        /\ x = [acc |-> acc, bm |-> bm]
        /\ a.op \in {"sum", "avg"} => acc = SumSeq(MetsTo(rows, a, n))
        /\ a.op = "min" /\ n > 0 =>
              (\E i \in 1 .. n : acc = MetOf(rows, a, i)) /\ \A i \in 1 .. n : acc <= MetOf(rows, a, i)
        /\ a.op = "max" /\ n > 0 =>
              (\E i \in 1 .. n : acc = MetOf(rows, a, i)) /\ \A i \in 1 .. n : acc >= MetOf(rows, a, i)
        /\ a.op = "distinct" => bm = IdsTo(rows, a, n) /\ IsFiniteSet(bm) /\ acc = Cardinality(bm)

LEMMA MetInt ==
    ASSUME NEW rows \in Seq(ColRow), NEW i \in DOMAIN rows, NEW a, a.metric \in Metrics
    PROVE  MetOf(rows, a, i) \in Int
<1>1. rows[i] \in ColRow
  BY ElementOf
<1>2. rows[i].met \in Payloads
  BY <1>1 DEF ColRow
<1>3. Metric \in [Payloads -> [Metrics -> Int]]
  BY QueryAssumption
<1> QED BY <1>2, <1>3 DEF MetOf

LEMMA ColStep ==
    ASSUME NEW a, aggOK(a), NEW rows \in Seq(ColRow), NEW n \in 0 .. Len(rows) - 1, NEW x, ColTo(a, rows, n, x)
    PROVE  ColTo(a, rows, n + 1, foldAgg(a, x, rows[n + 1], n + 1 = 1))
<1> DEFINE k == n + 1
           row == rows[k]
           m == MetOf(rows, a, k)
           y == foldAgg(a, x, row, k = 1)
<1>1. PICK acc, bm :
        /\ x = [acc |-> acc, bm |-> bm]
        /\ a.op \in {"sum", "avg"} => acc = SumSeq(MetsTo(rows, a, n))
        /\ a.op = "min" /\ n > 0 =>
              (\E i \in 1 .. n : acc = MetOf(rows, a, i)) /\ \A i \in 1 .. n : acc <= MetOf(rows, a, i)
        /\ a.op = "max" /\ n > 0 =>
              (\E i \in 1 .. n : acc = MetOf(rows, a, i)) /\ \A i \in 1 .. n : acc >= MetOf(rows, a, i)
        /\ a.op = "distinct" => bm = IdsTo(rows, a, n) /\ IsFiniteSet(bm) /\ acc = Cardinality(bm)
  BY DEF ColTo
<1>2. /\ n \in Nat /\ k \in 1 .. Len(rows) /\ 1 .. k = (1 .. n) \cup {k} /\ k \notin 1 .. n
      /\ DOMAIN rows = 1 .. Len(rows) /\ 1 .. n \subseteq 1 .. Len(rows) /\ k > 0 /\ (k = 1 <=> n = 0)
  OBVIOUS
<1>3. a.op \in {"sum", "avg", "min", "max"} => \A i \in 1 .. k : MetOf(rows, a, i) \in Int
  BY <1>2, MetInt DEF aggOK
<1>4. Metric[row.met][a.metric] = m
  BY DEF MetOf
<1> HIDE DEF k, m
<1>5. CASE a.op = "distinct"
  <2> DEFINE id == row.ids[a.dim]
             I == IdsTo(rows, a, n)
             J == IdsTo(rows, a, k)
  <2>1. J = I \cup {id}
    BY <1>2 DEF IdsTo
  <2>2. y = IF id \in bm THEN x ELSE [acc |-> acc + 1, bm |-> bm \cup {id}]
    BY <1>1, <1>5 DEF foldAgg
  <2>3. bm = I /\ IsFiniteSet(I) /\ acc = Cardinality(I)
    BY <1>1, <1>5
  <2> HIDE DEF id, I, J, y, row
  <2>4. CASE id \in I
    <3>1. y = [acc |-> acc, bm |-> bm] /\ J = I
      BY <1>1, <2>1, <2>2, <2>3, <2>4
    <3>2. ColTo(a, rows, k, y)
      BY <1>5, <2>3, <3>1 DEF ColTo, J
    <3> QED BY <3>2 DEF y, k, row
  <2>5. CASE id \notin I
    <3>1. y = [acc |-> acc + 1, bm |-> J]
      BY <2>1, <2>2, <2>3, <2>5
    <3>2. IsFiniteSet(J) /\ Cardinality(J) = acc + 1
      BY <2>1, <2>3, <2>5, FS_AddElement
    <3>3. ColTo(a, rows, k, y)
      BY <1>5, <3>1, <3>2 DEF ColTo, J
    <3> QED BY <3>3 DEF y, k, row
  <2> QED BY <2>4, <2>5
<1>6. CASE a.op = "count"
  <2>1. y = [acc |-> acc, bm |-> bm]
    BY <1>1, <1>6 DEF foldAgg
  <2> HIDE DEF y, row
  <2>2. ColTo(a, rows, k, y)
    BY <1>6, <2>1 DEF ColTo
  <2> QED BY <2>2 DEF y, k, row
<1>7. CASE a.op \in {"sum", "avg"}
  <2>1. y = [acc |-> acc + m, bm |-> bm]
    BY <1>1, <1>4, <1>7 DEF foldAgg
  <2>2. SumSeq(MetsTo(rows, a, k)) = acc + m
    <3> DEFINE s == MetsTo(rows, a, n)
               t == MetsTo(rows, a, n + 1)
    <3>1. DOMAIN s = 1 .. n /\ DOMAIN t = 1 .. n + 1 /\ (\A i \in 1 .. n : t[i] = s[i]) /\ t[n + 1] = m
      BY <1>2 DEF MetsTo, m, k
    <3> HIDE DEF s, t
    <3>2. SumSeq(t) = SumSeq(s) + t[n + 1]
      BY <1>2, <3>1, SumLast
    <3> QED BY <1>1, <1>7, <3>1, <3>2 DEF s, t, k
  <2> HIDE DEF y, row
  <2>3. ColTo(a, rows, k, y)
    BY <1>7, <2>1, <2>2 DEF ColTo
  <2> QED BY <2>3 DEF y, k, row
<1>8. CASE a.op = "min"
  <2> DEFINE c == IF k = 1 \/ m < acc THEN m ELSE acc
  <2>1. y = [acc |-> c, bm |-> bm]
    BY <1>1, <1>4, <1>8 DEF foldAgg
  <2>2. m \in Int /\ m = MetOf(rows, a, k) /\ \A i \in 1 .. k : MetOf(rows, a, i) \in Int
    BY <1>2, <1>3, <1>8 DEF m
  <2>3. (\E i \in 1 .. k : c = MetOf(rows, a, i)) /\ \A i \in 1 .. k : c <= MetOf(rows, a, i)
    <3>1. CASE n = 0
      <4>1. c = m /\ 1 .. n = {}
        BY <1>2, <3>1
      <4> QED BY <1>2, <2>2, <4>1
    <3>2. CASE n > 0
      <4>1. (\E i \in 1 .. n : acc = MetOf(rows, a, i)) /\ \A i \in 1 .. n : acc <= MetOf(rows, a, i)
        BY <1>1, <1>8, <3>2
      <4>2. acc \in Int
        BY <1>2, <2>2, <4>1
      <4>3. c = IF m < acc THEN m ELSE acc
        BY <1>2, <3>2
      <4> HIDE DEF c
      <4>4. c <= m /\ c <= acc /\ c \in {m, acc} /\ c \in Int
        BY <2>2, <4>2, <4>3
      <4>5. \E i \in 1 .. k : c = MetOf(rows, a, i)
        BY <1>2, <2>2, <4>1, <4>4
      <4>6. \A i \in 1 .. n : c <= MetOf(rows, a, i)
        BY <1>2, <2>2, <4>1, <4>2, <4>4
      <4> QED BY <1>2, <2>2, <4>4, <4>5, <4>6
    <3> QED BY <1>2, <3>1, <3>2
  <2> HIDE DEF y, row, c
  <2>4. ColTo(a, rows, k, y)
    BY <1>8, <2>1, <2>3 DEF ColTo
  <2> QED BY <2>4 DEF y, k, row
<1>9. CASE a.op = "max"
  <2> DEFINE c == IF k = 1 \/ m > acc THEN m ELSE acc
  <2>1. y = [acc |-> c, bm |-> bm]
    BY <1>1, <1>4, <1>9 DEF foldAgg
  <2>2. m \in Int /\ m = MetOf(rows, a, k) /\ \A i \in 1 .. k : MetOf(rows, a, i) \in Int
    BY <1>2, <1>3, <1>9 DEF m
  <2>3. (\E i \in 1 .. k : c = MetOf(rows, a, i)) /\ \A i \in 1 .. k : c >= MetOf(rows, a, i)
    <3>1. CASE n = 0
      <4>1. c = m /\ 1 .. n = {}
        BY <1>2, <3>1
      <4> QED BY <1>2, <2>2, <4>1
    <3>2. CASE n > 0
      <4>1. (\E i \in 1 .. n : acc = MetOf(rows, a, i)) /\ \A i \in 1 .. n : acc >= MetOf(rows, a, i)
        BY <1>1, <1>9, <3>2
      <4>2. acc \in Int
        BY <1>2, <2>2, <4>1
      <4>3. c = IF m > acc THEN m ELSE acc
        BY <1>2, <3>2
      <4> HIDE DEF c
      <4>4. c >= m /\ c >= acc /\ c \in {m, acc} /\ c \in Int
        BY <2>2, <4>2, <4>3
      <4>5. \E i \in 1 .. k : c = MetOf(rows, a, i)
        BY <1>2, <2>2, <4>1, <4>4
      <4>6. \A i \in 1 .. n : c >= MetOf(rows, a, i)
        BY <1>2, <2>2, <4>1, <4>2, <4>4
      <4> QED BY <1>2, <2>2, <4>4, <4>5, <4>6
    <3> QED BY <1>2, <3>1, <3>2
  <2> HIDE DEF y, row, c
  <2>4. ColTo(a, rows, k, y)
    BY <1>9, <2>1, <2>3 DEF ColTo
  <2> QED BY <2>4 DEF y, k, row
<1>10. a.op \in {"sum", "count", "min", "max", "avg", "distinct"}
  BY DEF aggOK, AggOps
<1> QED BY <1>5, <1>6, <1>7, <1>8, <1>9, <1>10


ColsTo(aggs, rows, n, x) ==
    DOMAIN x = DOMAIN aggs /\ \A j \in DOMAIN aggs : ColTo(aggs[j], rows, n, x[j])

RowOp(c, x, i) == [j \in DOMAIN x |-> foldAgg(c.aggs[j], x[j], c.rows[i], i = 1)]

ColInv(c, s, n, x) == ColsTo(c.aggs, c.rows, n, x)

Columnwise == INSTANCE Loops WITH Op <- RowOp, Inv <- ColInv

LEMMA ColStart ==
    ASSUME NEW a, NEW rows, NEW x, x = [acc |-> 0, bm |-> {}]
    PROVE  ColTo(a, rows, 0, x)
<1>1. SumSeq(MetsTo(rows, a, 0)) = 0
  <2> DEFINE z == MetsTo(rows, a, 0)
  <2>1. DOMAIN z = 1 .. 0 /\ \A i \in 1 .. 0 : z[i] = 0
    BY DEF MetsTo
  <2> HIDE DEF z
  <2>2. SumSeq(z) = 0
    BY <2>1, SumOfZeros
  <2> QED BY <2>2 DEF z
<1>2. IdsTo(rows, a, 0) = {}
  BY DEF IdsTo
<1>3. IsFiniteSet({}) /\ Cardinality({}) = 0
  BY FS_EmptySet
<1>4. ~(0 > 0)
  OBVIOUS
<1> QED BY <1>1, <1>2, <1>3, <1>4 DEF ColTo

LEMMA ColsIs ==
    ASSUME NEW aggs, aggsOK(aggs), NEW rows \in Seq(ColRow), NEW start, DOMAIN start = DOMAIN aggs,
           \A j \in DOMAIN aggs : start[j] = [acc |-> 0, bm |-> {}]
    PROVE  ColsTo(aggs, rows, Len(rows), foldAggs(aggs, start, rows))
<1> DEFINE c == [aggs |-> aggs, rows |-> rows]
           s == [i \in DOMAIN rows |-> i]
           N == Len(rows)
<1>0. N \in Nat /\ DOMAIN s = 1 .. N /\ \A i \in 1 .. N : s[i] = i
  OBVIOUS
<1>1. foldAggs(aggs, start, rows) = Columnwise!Fold(c, start, s)
  BY DEF foldAggs, FoldLeft, MapThenFoldSet, Max, Columnwise!Fold, Columnwise!MapThenFoldSet, Columnwise!Top, RowOp
<1>2. ColInv(c, s, 0, start)
  BY ColStart DEF ColInv, ColsTo
<1>3. ASSUME NEW n \in 0 .. N - 1, NEW x, ColInv(c, s, n, x)
      PROVE  ColInv(c, s, n + 1, RowOp(c, x, s[n + 1]))
  <2> DEFINE y == [j \in DOMAIN x |-> foldAgg(aggs[j], x[j], rows[n + 1], n + 1 = 1)]
  <2>1. ColsTo(aggs, rows, n, x)
    BY <1>3 DEF ColInv
  <2>2. s[n + 1] = n + 1
    BY <1>0
  <2>3. RowOp(c, x, s[n + 1]) = y
    BY <2>2 DEF RowOp
  <2>4. ASSUME NEW j \in DOMAIN aggs PROVE ColTo(aggs[j], rows, n + 1, y[j])
    <3>1. ColTo(aggs[j], rows, n, x[j]) /\ j \in DOMAIN x /\ aggOK(aggs[j])
      BY <2>1 DEF ColsTo, aggsOK
    <3>2. y[j] = foldAgg(aggs[j], x[j], rows[n + 1], n + 1 = 1)
      BY <3>1
    <3> HIDE DEF y
    <3> QED BY <3>1, <3>2, ColStep
  <2>5. DOMAIN y = DOMAIN aggs
    BY <2>1 DEF ColsTo
  <2> HIDE DEF y
  <2>6. ColsTo(aggs, rows, n + 1, y)
    BY <2>4, <2>5 DEF ColsTo
  <2> QED BY <2>3, <2>6 DEF ColInv
<1>4. ColInv(c, s, N, Columnwise!Fold(c, start, s))
  <2> HIDE DEF N, c, s
  <2> QED BY <1>0, <1>2, <1>3, Columnwise!FoldInvariant
<1> QED BY <1>1, <1>4 DEF ColInv

\* Rows of a view that list the rows wanted, D.
Listed(v, M, D) ==
    M \in Seq(ColRow) /\ (\A i \in DOMAIN M : RowIn(v, M[i])) /\ Lists(Stands(v, M), Len(M), D)

LEMMA ListedIs ==
    ASSUME NEW v \in Views, NEW M, NEW D, Listed(v, M, D)
    PROVE  /\ Len(M) \in Nat /\ DOMAIN M = 1 .. Len(M) /\ Cardinality(D) = Len(M)
           /\ \A x : x \in D <=> \E i \in 1 .. Len(M) : x = AbsRow(v, M[i])
           /\ Len(M) = 0 <=> D = {}
<1>1. M \in Seq(ColRow) /\ Lists(Stands(v, M), Len(M), D)
  BY DEF Listed
<1>2. Len(M) \in Nat /\ DOMAIN M = 1 .. Len(M)
  BY <1>1
<1>3. Cardinality(D) = Len(M)
  BY <1>1, <1>2, ListSize
<1>4. \A i \in 1 .. Len(M) : Stands(v, M)[i] = AbsRow(v, M[i])
  BY <1>2 DEF Stands
<1>5. \A x : x \in D <=> \E i \in 1 .. Len(M) : x = AbsRow(v, M[i])
  BY <1>1, <1>4 DEF Lists
<1>6. Len(M) = 0 <=> D = {}
  <2>1. Len(M) = 0 => 1 .. Len(M) = {}
    BY <1>2
  <2>2. Len(M) # 0 => 1 \in 1 .. Len(M)
    BY <1>2
  <2> QED BY <1>5, <2>1, <2>2
<1> QED BY <1>2, <1>3, <1>5, <1>6

LEMMA ListedTotal ==
    ASSUME NEW v \in Views, NEW M, NEW D, Listed(v, M, D), NEW m \in Metrics
    PROVE  /\ Total(D, m) = SumSeq([i \in 1 .. Len(M) |-> Metric[M[i].met][m]])
           /\ \A i \in 1 .. Len(M) : Metric[M[i].met][m] \in Int
<1> DEFINE N == Len(M)
           e == Stands(v, M)
           a == [i \in 1 .. N |-> Metric[e[i].met][m]]
           b == [i \in 1 .. N |-> Metric[M[i].met][m]]
<1>1. N \in Nat /\ DOMAIN M = 1 .. N /\ Lists(e, N, D)
  BY ListedIs DEF Listed
<1>2. ASSUME NEW i \in 1 .. N PROVE e[i].met = M[i].met /\ Metric[M[i].met][m] \in Int
  <2>1. M[i] \in ColRow
    BY <1>1, <1>2, ElementOf DEF Listed
  <2>2. M[i].met \in Payloads /\ e[i].met = M[i].met
    BY <1>1, <1>2, <2>1 DEF ColRow, Stands, AbsRow
  <2> QED BY <2>2, QueryAssumption
<1>3. a = b
  BY <1>2
<1>4. \A x \in D : Metric[x.met][m] \in Int
  BY <1>1, <1>2 DEF Lists
<1> HIDE DEF N, e, b
<1>5. Total(D, m) = SumSeq(a)
  BY <1>1, <1>4, TotalIs
<1> HIDE DEF a
<1> QED BY <1>2, <1>3, <1>5 DEF b, N


\* As many ids as values.
LEMMA DistinctIs ==
    ASSUME NEW v \in Views, NEW M, NEW D, Listed(v, M, D), NEW a, a.dim \in Dims,
           IsFiniteSet(IdsTo(M, a, Len(M)))
    PROVE  Cardinality({x.dims[a.dim] : x \in D}) = Cardinality(IdsTo(M, a, Len(M)))
<1> DEFINE d == a.dim
           N == Len(M)
           I == IdsTo(M, a, N)
           S == {x.dims[d] : x \in D}
           f == [id \in I |-> dimString(v, d, id)]
<1>1. \A x : x \in D <=> \E i \in 1 .. N : x = AbsRow(v, M[i])
  BY ListedIs
<1>2. \A i \in 1 .. N : AbsRow(v, M[i]).dims[d] = dimString(v, d, M[i].ids[d])
  BY DEF AbsRow
<1>3. \A i \in 1 .. N : M[i].ids[d] \in 0 .. idSpace(v, d) - 1
  <2> SUFFICES ASSUME NEW i \in 1 .. N PROVE M[i].ids[d] \in 0 .. idSpace(v, d) - 1
    OBVIOUS
  <2>1. RowIn(v, M[i])
    BY ListedIs DEF Listed
  <2> HIDE DEF d
  <2>2. d \in Dims
    BY DEF d
  <2> QED BY <2>1, <2>2, IdMeets
<1>4. \A x, y \in 0 .. idSpace(v, d) - 1 : dimString(v, d, x) = dimString(v, d, y) => x = y
  <2>1. DictPair(v, d)
    BY ViewsRep DEF RepOK
  <2> HIDE DEF d
  <2> QED BY <2>1, DimStrings
<1>5. \A id : id \in I <=> \E i \in 1 .. N : id = M[i].ids[d]
  BY DEF IdsTo
<1>6. \A s : s \in S <=> \E i \in 1 .. N : s = dimString(v, d, M[i].ids[d])
  <2>1. \A s : s \in S <=> \E x \in D : s = x.dims[d]
    OBVIOUS
  <2> HIDE DEF S, d, N
  <2> QED BY <1>1, <1>2, <2>1
<1> HIDE DEF S, I, d, N
<1>7. \A id \in I : f[id] = dimString(v, d, id) /\ dimString(v, d, id) \in S /\ id \in 0 .. idSpace(v, d) - 1
  BY <1>3, <1>5, <1>6
<1>8. \A s \in S : \E id \in I : f[id] = s
  BY <1>5, <1>6
<1>9. f \in [I -> S]
  BY <1>7
<1>10. \A x, y \in I : f[x] = f[y] => x = y
  BY <1>4, <1>7
<1> HIDE DEF f
<1>11. f \in Bijection(I, S)
  BY <1>8, <1>9, <1>10 DEF Bijection, Injection, Surjection, IsInjective
<1>12. ExistsBijection(I, S)
  BY <1>11 DEF ExistsBijection
<1>13. Cardinality(S) = Cardinality(I)
  BY <1>12, FS_Bijection DEF I, N
<1> QED BY <1>13 DEF S, I, d, N

LEMMA LeastIs ==
    ASSUME NEW V \in SUBSET Int, NEW c \in V
    PROVE  /\ (\A y \in V : c <= y) => Min(V) = c
           /\ (\A y \in V : c >= y) => Max(V) = c
<1>1. ASSUME \A y \in V : c <= y PROVE Min(V) = c
  <2>1. \A x \in V : (\A y \in V : x <= y) => x = c
    BY <1>1
  <2> QED BY <1>1, <2>1 DEF Min
<1>2. ASSUME \A y \in V : c >= y PROVE Max(V) = c
  <2>1. \A x \in V : (\A y \in V : x >= y) => x = c
    BY <1>2
  <2> QED BY <1>2, <2>1 DEF Max
<1> QED BY <1>1, <1>2

\* A column after all the rows is the aggregate of the rows wanted.
LEMMA ColAnswer ==
    ASSUME NEW v \in Views, NEW M, NEW D, Listed(v, M, D), NEW a, aggOK(a), NEW x, ColTo(a, M, Len(M), x)
    PROVE  aggResult(a, x.acc, Len(M)) = Expected(a, D)
<1> DEFINE N == Len(M)
           values == {Metric[y.met][a.metric] : y \in D}
<1>1. PICK acc, bm :
        /\ x = [acc |-> acc, bm |-> bm]
        /\ a.op \in {"sum", "avg"} => acc = SumSeq(MetsTo(M, a, N))
        /\ a.op = "min" /\ N > 0 =>
              (\E i \in 1 .. N : acc = MetOf(M, a, i)) /\ \A i \in 1 .. N : acc <= MetOf(M, a, i)
        /\ a.op = "max" /\ N > 0 =>
              (\E i \in 1 .. N : acc = MetOf(M, a, i)) /\ \A i \in 1 .. N : acc >= MetOf(M, a, i)
        /\ a.op = "distinct" => bm = IdsTo(M, a, N) /\ IsFiniteSet(bm) /\ acc = Cardinality(bm)
  BY DEF ColTo
<1>2. x.acc = acc
  BY <1>1
<1>3. N \in Nat /\ Cardinality(D) = N /\ (N = 0 <=> D = {})
  BY ListedIs
<1>4. \A y : y \in D <=> \E i \in 1 .. N : y = AbsRow(v, M[i])
  BY ListedIs
<1> HIDE DEF N
<1>5. CASE a.op = "count"
  <2>1. aggResult(a, x.acc, N) = Float(N) /\ Expected(a, D) = Float(Cardinality(D))
    BY <1>5 DEF aggResult, Expected
  <2> QED BY <1>3, <2>1 DEF N
<1>6. CASE a.op = "distinct"
  <2>1. Cardinality({y.dims[a.dim] : y \in D}) = acc
    <3>1. a.dim \in Dims
      BY <1>6 DEF aggOK
    <3>2. IsFiniteSet(IdsTo(M, a, Len(M))) /\ acc = Cardinality(IdsTo(M, a, Len(M)))
      BY <1>1, <1>6 DEF N
    <3> QED BY <3>1, <3>2, DistinctIs
  <2>2. aggResult(a, acc, N) = Float(acc) /\ Expected(a, D) = Float(Cardinality({y.dims[a.dim] : y \in D}))
    BY <1>6 DEF aggResult, Expected
  <2> QED BY <1>2, <2>1, <2>2 DEF N
<1>7. CASE a.op \in {"sum", "avg"}
  <2>1. Total(D, a.metric) = acc
    <3>1. a.metric \in Metrics
      BY <1>7 DEF aggOK
    <3>2. MetsTo(M, a, N) = [i \in 1 .. Len(M) |-> Metric[M[i].met][a.metric]]
      BY DEF MetsTo, MetOf, N
    <3> QED BY <1>1, <1>7, <3>1, <3>2, ListedTotal
  <2>2. CASE a.op = "sum"
    <3>1. aggResult(a, acc, N) = Float(acc) /\ Expected(a, D) = Float(Total(D, a.metric))
      BY <2>2 DEF aggResult, Expected
    <3> QED BY <1>2, <2>1, <3>1 DEF N
  <2>3. CASE a.op = "avg"
    <3>1. aggResult(a, acc, N) = IF N = 0 THEN NaN ELSE <<acc, N>>
      BY <2>3 DEF aggResult
    <3>2. Expected(a, D) = IF D = {} THEN NaN ELSE <<Total(D, a.metric), Cardinality(D)>>
      BY <2>3 DEF Expected
    <3> QED BY <1>2, <1>3, <2>1, <3>1, <3>2 DEF N
  <2> QED BY <1>7, <2>2, <2>3
<1>8. CASE a.op \in {"min", "max"}
  <2>1. /\ \A y : y \in values <=> \E i \in 1 .. N : y = MetOf(M, a, i)
        /\ values \in SUBSET Int
    <3>1. a.metric \in Metrics
      BY <1>8 DEF aggOK
    <3>2. \A i \in 1 .. N : MetOf(M, a, i) \in Int /\ AbsRow(v, M[i]).met = M[i].met
      BY <3>1, ListedTotal DEF MetOf, AbsRow, N
    <3>3. \A y : y \in values <=> \E z \in D : y = Metric[z.met][a.metric]
      OBVIOUS
    <3> HIDE DEF values
    <3>4. \A y : y \in values <=> \E i \in 1 .. N : y = MetOf(M, a, i)
      BY <1>4, <3>2, <3>3 DEF MetOf
    <3> QED BY <3>2, <3>4
  <2> HIDE DEF values
  <2>2. N # 0 /\ a.op = "min" => Min(values) = acc
    <3> SUFFICES ASSUME N # 0, a.op = "min" PROVE Min(values) = acc
      OBVIOUS
    <3>1. N > 0
      BY <1>3
    <3>2. acc \in values /\ \A y \in values : acc <= y
      BY <1>1, <2>1, <3>1
    <3> QED BY <2>1, <3>2, LeastIs
  <2>3. N # 0 /\ a.op = "max" => Max(values) = acc
    <3> SUFFICES ASSUME N # 0, a.op = "max" PROVE Max(values) = acc
      OBVIOUS
    <3>1. N > 0
      BY <1>3
    <3>2. acc \in values /\ \A y \in values : acc >= y
      BY <1>1, <2>1, <3>1
    <3> QED BY <2>1, <3>2, LeastIs
  <2>4. CASE a.op = "min"
    <3>1. aggResult(a, acc, N) = IF N = 0 THEN NaN ELSE Float(acc)
      BY <2>4 DEF aggResult
    <3>2. Expected(a, D) = IF D = {} THEN NaN ELSE Float(Min(values))
      BY <2>4 DEF Expected, values
    <3> QED BY <1>2, <1>3, <2>2, <2>4, <3>1, <3>2 DEF N
  <2>5. CASE a.op = "max"
    <3>1. aggResult(a, acc, N) = IF N = 0 THEN NaN ELSE Float(acc)
      BY <2>5 DEF aggResult
    <3>2. Expected(a, D) = IF D = {} THEN NaN ELSE Float(Max(values))
      BY <2>5 DEF Expected, values
    <3> QED BY <1>2, <1>3, <2>3, <2>5, <3>1, <3>2 DEF N
  <2> QED BY <1>8, <2>4, <2>5
<1>9. a.op \in {"sum", "count", "min", "max", "avg", "distinct"}
  BY DEF aggOK, AggOps
<1> QED BY <1>5, <1>6, <1>7, <1>8, <1>9


-----------------------------------------------------------------------------
(* What a call answers.                                                       *)

\* Planning fails only on a condition that is wrong.
LEMMA FailsRefusable ==
    ASSUME NEW q \in Queries, NEW v \in Views, NEW s, Serves(s, measureShape(q)),
           planFails(q.groups, PlansOf(s, q, v))
    PROVE  Refusable(q)
<1> DEFINE groups == q.groups
           plans == PlansOf(s, q, v)
           cap == s.cap["ivs"]
<1>1. groups \in Seq(Seq(Conds)) /\ \E n \in 0 .. Len(groups) : PlansWithin(v, groups, cap, plans, n)
  BY PlansOfWithin
<1>2. planFails(groups, plans)
  OBVIOUS
<1>3. (groups = <<>> \/ \E i \in DOMAIN groups : \E j \in DOMAIN groups[i] : ~WellFormed(groups[i][j]))
      => Refusable(q)
  BY DEF Refusable
<1> HIDE DEF groups, plans, cap
<1>4. PICK n \in 0 .. Len(groups) : PlansWithin(v, groups, cap, plans, n)
  BY <1>1
<1>5. CASE \E i \in DOMAIN plans : plans[i].group.err
  <2>1. PICK i \in DOMAIN plans : plans[i].group.err
    BY <1>5
  <2>2. Len(plans) \in Nat /\ DOMAIN plans = 1 .. Len(plans) /\ Len(plans) <= n
    BY <1>4 DEF PlansWithin
  <2>3. i \in DOMAIN groups
    BY <1>1, <2>1, <2>2
  <2>4. groups[i] \in Seq(Conds)
    BY <1>1, <2>3, ElementOf
  <2>5. GroupOf(v, groups[i]).err
    BY <1>4, <2>1 DEF PlansWithin
  <2>6. \E j \in 1 .. Len(groups[i]) : ~WellFormed(groups[i][j])
    BY <2>4, <2>5, GroupExact DEF ExactInv
  <2>7. DOMAIN groups[i] = 1 .. Len(groups[i])
    BY <2>4
  <2> QED BY <1>3, <2>3, <2>6, <2>7
<1>6. CASE groups = <<>>
  BY <1>3, <1>6
<1> QED BY <1>2, <1>5, <1>6 DEF planFails

\* Otherwise every group is planned.
LEMMA PlansPlanned ==
    ASSUME NEW q \in Queries, NEW v \in Views, NEW s, Serves(s, measureShape(q)), Accepted(q),
           ~planFails(q.groups, PlansOf(s, q, v))
    PROVE  Planned(v, q.groups, PlansOf(s, q, v))
<1> DEFINE groups == q.groups
           plans == PlansOf(s, q, v)
           cap == s.cap["ivs"]
<1>1. groups \in Seq(Seq(Conds)) /\ cap \in Nat
  BY PlansOfWithin
<1>2. plans = planAll(v, groups, cap)
  BY DEF PlansOf
<1>3. Len(groups) <= cap
  BY ShapeIs DEF Serves
<1>4. ~planFails(groups, plans)
  OBVIOUS
<1> HIDE DEF groups, plans, cap
<1>5. cap \in Int
  BY <1>1
<1>6. PlansWithin(v, groups, cap, plans, Len(groups))
  BY <1>1, <1>2, <1>3, <1>5, PlanAllIs
<1>7. \A i \in DOMAIN plans : ~plans[i].group.err
  BY <1>4 DEF planFails
<1>8. Planned(v, groups, plans)
  BY <1>1, <1>6, <1>7 DEF Planned, PlansWithin, Failed
<1> QED BY <1>8 DEF groups, plans

\* The columns start from nothing, whatever an earlier query left in the scratch.
ColsStart(s, q) ==
    LET acc == zeroed(s.acc, Len(q.aggs))
        bms == bitmaps(s, q)
    IN  [j \in DOMAIN q.aggs |-> [acc |-> acc[j], bm |-> IF bms[j] = <<>> THEN {} ELSE bms[j][1]]]

LEMMA ColsStartIs ==
    ASSUME NEW q \in Queries, NEW s, Serves(s, measureShape(q)), q.kind = "aggs", aggsOK(q.aggs)
    PROVE  /\ DOMAIN ColsStart(s, q) = DOMAIN q.aggs
           /\ \A j \in DOMAIN q.aggs : ColsStart(s, q)[j] = [acc |-> 0, bm |-> {}]
<1> DEFINE n == Len(q.aggs)
           acc == zeroed(s.acc, n)
           bms == bitmaps(s, q)
<1>1. n \in Nat /\ DOMAIN q.aggs = 1 .. n
  BY CallsAssumption
<1>2. n <= s.cap["aggs"] /\ s.cap["aggs"] \in Nat
  BY ShapeIs DEF Serves, Clean, Parts
<1>3. DOMAIN s.acc = 1 .. s.cap["aggs"] /\ DOMAIN s.bms = 1 .. s.cap["aggs"]
  BY DEF Serves, Clean
<1>4. ASSUME NEW j \in DOMAIN q.aggs
      PROVE  acc[j] = 0 /\ (IF bms[j] = <<>> THEN {} ELSE bms[j][1]) = {}
  <2>1. j \in 1 .. n /\ j \in DOMAIN s.acc /\ j \in DOMAIN s.bms /\ j <= n
    BY <1>1, <1>2, <1>3
  <2>2. acc[j] = 0
    BY <2>1 DEF zeroed
  <2>3. bms[j] = IF q.aggs[j].op = "distinct" THEN <<{}>> ELSE <<>>
    <3>1. ~(j > n)
      BY <1>1, <2>1
    <3> QED BY <2>1, <3>1 DEF bitmaps
  <2>4. <<{}>>[1] = {} /\ <<{}>> # <<>>
    OBVIOUS
  <2> HIDE DEF acc, bms
  <2> QED BY <2>2, <2>3, <2>4
<1>5. ColsStart(s, q) = [j \in DOMAIN q.aggs |-> [acc |-> acc[j], bm |-> IF bms[j] = <<>> THEN {} ELSE bms[j][1]]]
  BY DEF ColsStart
<1> HIDE DEF acc, bms, n
<1> QED BY <1>4, <1>5


\* A run answers with what the view stands for.
Answers(v, q, now, r) ==
    /\ r.err => Refusable(q)
    /\ ~r.err /\ ~r.over => Accepted(q)
    /\ ~r.err /\ ~r.over /\ q.kind = "groups" =>
         r.value = <<[m \in Metrics |-> Total(Selected(v, q.groups, now), m)]>>
    /\ ~r.err /\ ~r.over /\ q.kind = "aggs" =>
         r.value = [j \in DOMAIN q.aggs |-> Expected(q.aggs[j], Selected(v, q.groups, now))]

LEMMA SumsAre ==
    ASSUME NEW v \in Views, NEW M, NEW D, Listed(v, M, D)
    PROVE  sums(M) = [m \in Metrics |-> Total(D, m)]
<1>1. DOMAIN M = 1 .. Len(M)
  BY ListedIs
<1>2. \A m \in Metrics : Total(D, m) = SumSeq([i \in DOMAIN M |-> Metric[M[i].met][m]])
  BY <1>1, ListedTotal
<1> QED BY <1>2 DEF sums

LEMMA ColsAnswer ==
    ASSUME NEW v \in Views, NEW M, NEW D, Listed(v, M, D), NEW aggs, aggsOK(aggs),
           NEW cols, ColsTo(aggs, M, Len(M), cols)
    PROVE  [j \in DOMAIN cols |-> aggResult(aggs[j], cols[j].acc, Len(M))] = [j \in DOMAIN aggs |-> Expected(aggs[j], D)]
<1>1. DOMAIN cols = DOMAIN aggs
  BY DEF ColsTo
<1>2. ASSUME NEW j \in DOMAIN aggs
      PROVE  aggResult(aggs[j], cols[j].acc, Len(M)) = Expected(aggs[j], D)
  <2>1. aggOK(aggs[j]) /\ ColTo(aggs[j], M, Len(M), cols[j])
    BY DEF aggsOK, ColsTo
  <2> QED BY <2>1, ColAnswer
<1> QED BY <1>1, <1>2

LEMMA RunAnswers ==
    ASSUME NEW q \in Queries, NEW v \in Views, NEW now \in Time, NEW s, Serves(s, measureShape(q))
    PROVE  Answers(v, q, now, run(s, q, v, now))
<1> DEFINE plans == PlansOf(s, q, v)
           r == runPlans(s, q, v, now, plans)
           M == matched(v, plans, now)
           D == Selected(v, q.groups, now)
           cols == foldAggs(q.aggs, ColsStart(s, q), M)
<1>1. run(s, q, v, now) = r
  BY DEF run, PlansOf
<1>2. r.err = (~Accepted(q) \/ planFails(q.groups, plans))
  BY DEF runPlans
<1>3. ~r.err /\ ~r.over /\ q.kind = "groups" => r.value = <<sums(M)>>
  BY DEF runPlans
<1>4. ~r.err /\ ~r.over /\ q.kind = "aggs" =>
        r.value = [j \in DOMAIN cols |-> aggResult(q.aggs[j], cols[j].acc, Len(M))]
  BY DEF runPlans, ColsStart
<1>5. r.err => Refusable(q)
  <2>1. ~Accepted(q) => Refusable(q)
    BY DEF Refusable
  <2>2. planFails(q.groups, plans) => Refusable(q)
    BY FailsRefusable
  <2> HIDE DEF r, plans
  <2> QED BY <1>2, <2>1, <2>2
<1>6. ~r.err => Accepted(q) /\ Listed(v, M, D)
  <2>1. SUFFICES ASSUME ~r.err PROVE Accepted(q) /\ Listed(v, M, D)
    OBVIOUS
  <2>2. Accepted(q) /\ ~planFails(q.groups, plans)
    <3> HIDE DEF r, plans
    <3> QED BY <1>2, <2>1
  <2>3. Planned(v, q.groups, plans)
    BY <2>2, PlansPlanned
  <2> HIDE DEF r, plans
  <2>4. Listed(v, M, D)
    BY <2>3, MatchedIs DEF Listed
  <2> HIDE DEF M, D
  <2> QED BY <2>2, <2>4
<1>7. ~r.err /\ ~r.over /\ q.kind = "groups" => r.value = <<[m \in Metrics |-> Total(D, m)]>>
  <2>1. ~r.err => sums(M) = [m \in Metrics |-> Total(D, m)]
    <3> HIDE DEF r, M, D
    <3> QED BY <1>6, SumsAre
  <2> HIDE DEF r, M, D
  <2> QED BY <1>3, <2>1
<1>8. ~r.err /\ ~r.over /\ q.kind = "aggs" => r.value = [j \in DOMAIN q.aggs |-> Expected(q.aggs[j], D)]
  <2> SUFFICES ASSUME ~r.err, ~r.over, q.kind = "aggs"
               PROVE  r.value = [j \in DOMAIN q.aggs |-> Expected(q.aggs[j], D)]
    OBVIOUS
  <2> HIDE DEF r, M, D
  <2>1. aggsOK(q.aggs) /\ Listed(v, M, D)
    BY <1>6 DEF Accepted
  <2>2. ColsTo(q.aggs, M, Len(M), cols)
    <3>1. M \in Seq(ColRow)
      BY <2>1 DEF Listed
    <3>2. DOMAIN ColsStart(s, q) = DOMAIN q.aggs /\ \A j \in DOMAIN q.aggs : ColsStart(s, q)[j] = [acc |-> 0, bm |-> {}]
      BY <2>1, ColsStartIs
    <3> QED BY <2>1, <3>1, <3>2, ColsIs
  <2> HIDE DEF cols
  <2>3. [j \in DOMAIN cols |-> aggResult(q.aggs[j], cols[j].acc, Len(M))] = [j \in DOMAIN q.aggs |-> Expected(q.aggs[j], D)]
    BY <2>1, <2>2, ColsAnswer
  <2> QED BY <1>4, <2>3
<1> HIDE DEF r, M, D
<1>9. Answers(v, q, now, r)
  BY <1>5, <1>6, <1>7, <1>8 DEF Answers, D
<1> QED BY <1>1, <1>9

-----------------------------------------------------------------------------
(* Every call, over every view and after every history of the pool.           *)

LEMMA CallAnswers ==
    ASSUME QueryInv, NEW q \in Queries, NEW now \in Clocks, Call(q, now)
    PROVE  AnswersExact'
<1> DEFINE sh == measureShape(q)
<1>1. view \in Views /\ (\A s \in pool : Clean(s)) /\ sh \in Shapes /\ now \in Time
  BY ShapeIs, CallsAssumption DEF QueryInv
<1>2. PICK l \in leases(sh) :
        /\ last' = {[query |-> q, now |-> now, onStack |-> l.onStack, cap |-> l.s.cap,
                     err |-> run(l.s, q, view, now).err, over |-> run(l.s, q, view, now).over,
                     lengths |-> run(l.s, q, view, now).lengths,
                     visited |-> run(l.s, q, view, now).visited, value |-> run(l.s, q, view, now).value]}
        /\ UNCHANGED view
  BY DEF Call
<1> DEFINE s == l.s
           r == run(s, q, view, now)
<1>3. Serves(s, sh)
  <2> HIDE DEF sh
  <2> QED BY <1>1, LeasesServe
<1>4. Answers(view, q, now, r)
  BY <1>1, <1>3, RunAnswers
<1> HIDE DEF r, s, sh
<1> DEFINE c == [query |-> q, now |-> now, onStack |-> l.onStack, cap |-> s.cap,
                 err |-> r.err, over |-> r.over, lengths |-> r.lengths,
                 visited |-> r.visited, value |-> r.value]
<1>5. last' = {c} /\ view' = view
  BY <1>2 DEF r, s
<1>6. c.query = q /\ c.now = now /\ c.err = r.err /\ c.over = r.over /\ c.value = r.value
  OBVIOUS
<1> HIDE DEF c
<1> QED BY <1>4, <1>5, <1>6 DEF AnswersExact, Answers, Wanted

\* A query of sums or aggregates answers with those of the rows the published
\* view stands for that are wanted and not expired, each row once: whatever plan
\* planGroups chose for its groups and however they overlap, whatever capacity
\* and leftovers the scratch has, whatever is interned, overridden or expired.
\* It fails only on arguments that are wrong.
THEOREM AnswersAlwaysExact == Spec => []AnswersExact
<1>1. Init => AnswersExact
  BY DEF Init, AnswersExact
<1>2. QueryInv /\ AnswersExact /\ [Next]_vars => AnswersExact'
  <2> SUFFICES ASSUME QueryInv, AnswersExact, [Next]_vars PROVE AnswersExact'
    OBVIOUS
  <2>1. ASSUME NEW q \in Queries, NEW now \in Clocks, Call(q, now) PROVE AnswersExact'
    BY <2>1, CallAnswers
  <2>2. CASE Return
    BY <2>2 DEF Return, AnswersExact
  <2>3. CASE Evict
    BY <2>3 DEF Evict, AnswersExact
  <2>4. CASE Publish
    BY <2>4 DEF Publish, AnswersExact
  <2>5. CASE UNCHANGED vars
    BY <2>5 DEF vars, AnswersExact, Wanted
  <2> QED BY <2>1, <2>2, <2>3, <2>4, <2>5 DEF Next
<1> QED BY <1>1, <1>2, QueryInvariant, PTL DEF Spec


-----------------------------------------------------------------------------
(* Group by: the seen triples of distinct columns.                            *)

\* The columns of a query whose places fit a uint8.
FewCols(aggs) == aggsOK(aggs) /\ aggs \in Seq(Aggs) /\ Len(aggs) <= 2^8

DistinctCols(aggs) == {j \in DOMAIN aggs : aggs[j].op = "distinct"}

LEMMA DkeyIs ==
    ASSUME NEW aggs, FewCols(aggs), NEW j \in DOMAIN aggs, NEW g, NEW id
    PROVE  dkey(j, g, id) = <<j - 1, g, id>>
<1> DEFINE m == 2^8
<1>1. m \in Nat /\ j \in Nat /\ 1 <= j /\ j <= m
  BY PowNat DEF FewCols
<1> HIDE DEF m
<1>2. (j - 1) % m = j - 1
  BY <1>1
<1> QED BY <1>2 DEF dkey, m

\* A column of a group after one more row: a distinct one by the triples seen.
NextCol(a, j, g, row, x, seen) ==
    IF a.op = "distinct" THEN IF dkey(j, g, row.ids[a.dim]) \in seen THEN x ELSE x + 1
    ELSE foldAgg(a, [acc |-> x, bm |-> {}], row, FALSE).acc

\* The triples of a row, of the columns up to k.
RowKeys(aggs, g, row, k) ==
    {dkey(j, g, row.ids[aggs[j].dim]) : j \in {i \in DistinctCols(aggs) : i <= k}}

NextCols(c, k) ==
    [j \in DOMAIN c.aggs |-> IF j <= k THEN NextCol(c.aggs[j], j, c.g, c.row, c.cols[j], c.seen) ELSE c.cols[j]]

ColByCol(c, x, j) ==
    LET key == dkey(j, c.g, c.row.ids[c.aggs[j].dim])
    IN  IF c.aggs[j].op = "distinct"
        THEN IF key \in x.seen THEN x
             ELSE [cols |-> [x.cols EXCEPT ![j] = @ + 1], seen |-> x.seen \cup {key}]
        ELSE [x EXCEPT !.cols[j] = foldAgg(c.aggs[j], [acc |-> @, bm |-> {}], c.row, FALSE).acc]

ColByColInv(c, s, k, x) ==
    x = [cols |-> NextCols(c, k), seen |-> c.seen \cup RowKeys(c.aggs, c.g, c.row, k)]

Refolds == INSTANCE Loops WITH Op <- ColByCol, Inv <- ColByColInv

LEMMA RowKeysNext ==
    ASSUME NEW aggs, FewCols(aggs), NEW g, NEW row, NEW k \in Nat, k + 1 \in DOMAIN aggs
    PROVE  /\ aggs[k + 1].op = "distinct" =>
                RowKeys(aggs, g, row, k + 1) = RowKeys(aggs, g, row, k) \cup {dkey(k + 1, g, row.ids[aggs[k + 1].dim])}
           /\ aggs[k + 1].op # "distinct" => RowKeys(aggs, g, row, k + 1) = RowKeys(aggs, g, row, k)
           /\ dkey(k + 1, g, row.ids[aggs[k + 1].dim]) \notin RowKeys(aggs, g, row, k)
<1> DEFINE D(n) == {i \in DistinctCols(aggs) : i <= n}
<1>1. \A i \in DOMAIN aggs : i \in Nat
  BY DEF FewCols
<1>2. aggs[k + 1].op = "distinct" => D(k + 1) = D(k) \cup {k + 1}
  BY <1>1 DEF DistinctCols
<1>3. aggs[k + 1].op # "distinct" => D(k + 1) = D(k)
  <2>1. ASSUME aggs[k + 1].op # "distinct", NEW i \in D(k + 1) PROVE i \in D(k)
    <3>1. i \in Nat /\ i <= k + 1 /\ i # k + 1
      BY <1>1, <2>1 DEF DistinctCols
    <3>2. i <= k
      BY <3>1
    <3> QED BY <2>1, <3>2
  <2>2. \A i \in D(k) : i <= k + 1
    BY <1>1 DEF DistinctCols
  <2> QED BY <2>1, <2>2
<1>4. \A i \in D(k) : dkey(i, g, row.ids[aggs[i].dim]) # dkey(k + 1, g, row.ids[aggs[k + 1].dim])
  <2>1. ASSUME NEW i \in D(k) PROVE dkey(i, g, row.ids[aggs[i].dim]) # dkey(k + 1, g, row.ids[aggs[k + 1].dim])
    <3>1. i \in DOMAIN aggs /\ i \in Nat /\ i <= k
      BY <1>1 DEF DistinctCols
    <3>2. dkey(i, g, row.ids[aggs[i].dim]) = <<i - 1, g, row.ids[aggs[i].dim]>>
      BY <3>1, DkeyIs
    <3>3. dkey(k + 1, g, row.ids[aggs[k + 1].dim]) = <<k + 1 - 1, g, row.ids[aggs[k + 1].dim]>>
      BY DkeyIs
    <3>4. i - 1 # k + 1 - 1
      BY <3>1
    <3> QED BY <3>2, <3>3, <3>4
  <2> QED BY <2>1
<1>5. \A n : RowKeys(aggs, g, row, n) = {dkey(j, g, row.ids[aggs[j].dim]) : j \in D(n)}
  BY DEF RowKeys
<1> HIDE DEF D
<1>6. dkey(k + 1, g, row.ids[aggs[k + 1].dim]) \notin RowKeys(aggs, g, row, k)
  BY <1>4, <1>5
<1>7. aggs[k + 1].op # "distinct" => RowKeys(aggs, g, row, k + 1) = RowKeys(aggs, g, row, k)
  BY <1>3, <1>5
<1>8. aggs[k + 1].op = "distinct" =>
        RowKeys(aggs, g, row, k + 1) = RowKeys(aggs, g, row, k) \cup {dkey(k + 1, g, row.ids[aggs[k + 1].dim])}
  BY <1>2, <1>5
<1> QED BY <1>6, <1>7, <1>8


LEMMA RefoldStep ==
    ASSUME NEW c, FewCols(c.aggs), NEW s, NEW k \in Nat, k + 1 \in DOMAIN c.aggs, NEW x, ColByColInv(c, s, k, x)
    PROVE  ColByColInv(c, s, k + 1, ColByCol(c, x, k + 1))
<1> DEFINE aggs == c.aggs
           j == k + 1
           a == aggs[j]
           key == dkey(j, c.g, c.row.ids[a.dim])
           cols == NextCols(c, k)
           seen == c.seen \cup RowKeys(aggs, c.g, c.row, k)
           new == NextCol(a, j, c.g, c.row, c.cols[j], c.seen)
           y == ColByCol(c, x, j)
<1>1. x = [cols |-> cols, seen |-> seen]
  BY DEF ColByColInv
<1>2. /\ a.op = "distinct" => RowKeys(aggs, c.g, c.row, j) = RowKeys(aggs, c.g, c.row, k) \cup {key}
      /\ a.op # "distinct" => RowKeys(aggs, c.g, c.row, j) = RowKeys(aggs, c.g, c.row, k)
      /\ key \notin RowKeys(aggs, c.g, c.row, k)
  BY RowKeysNext
<1>3. \A i \in DOMAIN aggs : i \in Nat
  BY DEF FewCols
<1>4. DOMAIN cols = DOMAIN aggs /\ cols[j] = c.cols[j]
  BY <1>3 DEF NextCols
<1>5. NextCols(c, j) = [cols EXCEPT ![j] = new]
  <2>1. ASSUME NEW i \in DOMAIN aggs PROVE NextCols(c, j)[i] = IF i = j THEN new ELSE cols[i]
    <3>1. i \in Nat /\ (i <= j <=> i = j \/ i <= k) /\ j <= j
      BY <1>3
    <3> QED BY <3>1 DEF NextCols
  <2>2. NextCols(c, j) = [i \in DOMAIN aggs |-> NextCols(c, j)[i]]
    BY DEF NextCols
  <2>3. [cols EXCEPT ![j] = new] = [i \in DOMAIN aggs |-> IF i = j THEN new ELSE cols[i]]
    <3> HIDE DEF cols, new
    <3> QED BY <1>4
  <2> HIDE DEF cols, new, aggs
  <2> QED BY <2>1, <2>2, <2>3
<1>6. y = IF a.op = "distinct"
          THEN IF key \in seen THEN [cols |-> cols, seen |-> seen]
               ELSE [cols |-> [cols EXCEPT ![j] = @ + 1], seen |-> seen \cup {key}]
          ELSE [cols |-> [cols EXCEPT ![j] = foldAgg(a, [acc |-> @, bm |-> {}], c.row, FALSE).acc], seen |-> seen]
  <2> HIDE DEF cols, seen, key
  <2>1. x.cols = cols /\ x.seen = seen
    BY <1>1
  <2>2. a.op = "distinct" => y = IF key \in seen THEN x ELSE [cols |-> [cols EXCEPT ![j] = @ + 1], seen |-> seen \cup {key}]
    BY <2>1 DEF ColByCol, key
  <2>3. a.op # "distinct" => y = [x EXCEPT !.cols[j] = foldAgg(a, [acc |-> @, bm |-> {}], c.row, FALSE).acc]
    BY DEF ColByCol
  <2> HIDE DEF y
  <2> QED BY <1>1, <2>2, <2>3
<1>7. new = IF a.op = "distinct" THEN IF key \in c.seen THEN cols[j] ELSE cols[j] + 1
            ELSE foldAgg(a, [acc |-> cols[j], bm |-> {}], c.row, FALSE).acc
  BY <1>4 DEF NextCol
<1> HIDE DEF cols, seen, key, new, y
<1>8. y = [cols |-> NextCols(c, j), seen |-> c.seen \cup RowKeys(aggs, c.g, c.row, j)]
  <2>1. seen = c.seen \cup RowKeys(aggs, c.g, c.row, k)
    BY DEF seen
  <2>2. CASE a.op = "distinct" /\ key \in c.seen
    <3>1. [cols EXCEPT ![j] = new] = cols
      <4>1. new = cols[j]
        BY <1>7, <2>2
      <4>2. cols = [i \in DOMAIN cols |-> cols[i]]
        BY DEF cols, NextCols
      <4> QED BY <4>1, <4>2
    <3>2. key \in seen /\ seen = c.seen \cup RowKeys(aggs, c.g, c.row, j)
      BY <1>2, <2>1, <2>2
    <3> QED BY <1>5, <1>6, <2>2, <3>1, <3>2
  <2>3. CASE a.op = "distinct" /\ key \notin c.seen
    <3>1. key \notin seen /\ seen \cup {key} = c.seen \cup RowKeys(aggs, c.g, c.row, j)
      BY <1>2, <2>1, <2>3
    <3>2. new = cols[j] + 1
      BY <1>7, <2>3
    <3> QED BY <1>5, <1>6, <2>3, <3>1, <3>2
  <2>4. CASE a.op # "distinct"
    BY <1>2, <1>5, <1>6, <1>7, <2>1, <2>4
  <2> QED BY <2>2, <2>3, <2>4
<1> QED BY <1>8 DEF ColByColInv, y

NextAll(aggs, g, row, cols, seen) == [j \in DOMAIN aggs |-> NextCol(aggs[j], j, g, row, cols[j], seen)]

FoldsTo(aggs, g, row, cols, seen) ==
    fold(aggs, g, row, cols, seen)
    = [cols |-> NextAll(aggs, g, row, cols, seen), seen |-> seen \cup RowKeys(aggs, g, row, Len(aggs))]

\* A row is folded into its group column by column, and adds its triples.
LEMMA FoldIsCols ==
    ASSUME NEW aggs, FewCols(aggs), NEW g, NEW row, NEW cols \in [DOMAIN aggs -> Int], NEW seen
    PROVE  FoldsTo(aggs, g, row, cols, seen)
<1> DEFINE c == [aggs |-> aggs, g |-> g, row |-> row, cols |-> cols, seen |-> seen]
           s == [j \in DOMAIN aggs |-> j]
           N == Len(aggs)
           x0 == [cols |-> cols, seen |-> seen]
<1>1. N \in Nat /\ DOMAIN aggs = 1 .. N /\ DOMAIN s = 1 .. N /\ \A i \in 1 .. N : s[i] = i
  BY DEF FewCols
<1>2. fold(aggs, g, row, cols, seen) = Refolds!Fold(c, x0, s)
  BY DEF fold, FoldLeft, MapThenFoldSet, Max, Refolds!Fold, Refolds!MapThenFoldSet, Refolds!Top, ColByCol
<1>3. c.aggs = aggs /\ c.g = g /\ c.row = row /\ c.cols = cols /\ c.seen = seen
  OBVIOUS
<1> HIDE DEF c, s, N
<1>4. ColByColInv(c, s, 0, x0)
  <2>1. RowKeys(aggs, g, row, 0) = {}
    <3>1. \A i \in DistinctCols(aggs) : ~(i <= 0)
      BY <1>1 DEF DistinctCols
    <3> QED BY <3>1 DEF RowKeys
  <2>2. NextCols(c, 0) = cols
    <3>1. \A i \in DOMAIN aggs : ~(i <= 0)
      BY <1>1
    <3> QED BY <1>3, <3>1 DEF NextCols
  <2> QED BY <1>3, <2>1, <2>2 DEF ColByColInv
<1>5. ASSUME NEW n \in 0 .. N - 1, NEW x, ColByColInv(c, s, n, x)
      PROVE  ColByColInv(c, s, n + 1, ColByCol(c, x, s[n + 1]))
  <2>1. n \in Nat /\ n + 1 \in 1 .. N
    BY <1>1
  <2>2. s[n + 1] = n + 1 /\ n + 1 \in DOMAIN c.aggs /\ FewCols(c.aggs)
    BY <1>1, <1>3, <2>1
  <2>3. ColByColInv(c, s, n + 1, ColByCol(c, x, n + 1))
    BY <1>5, <2>1, <2>2, RefoldStep
  <2> QED BY <2>2, <2>3
<1>6. ColByColInv(c, s, N, Refolds!Fold(c, x0, s))
  <2> HIDE DEF x0
  <2> QED BY <1>1, <1>4, <1>5, Refolds!FoldInvariant
<1>7. NextCols(c, N) = NextAll(aggs, g, row, cols, seen)
  <2>1. \A j \in DOMAIN aggs : j <= N
    BY <1>1
  <2> QED BY <1>3, <2>1 DEF NextCols, NextAll
<1> QED BY <1>2, <1>3, <1>6, <1>7 DEF ColByColInv, FoldsTo, N


-----------------------------------------------------------------------------
(* Group by: the groups, row by row.                                          *)

KeyIds(by, row) == [i \in DOMAIN by |-> row.ids[by[i]]]

KeyOf(by, x) == [i \in DOMAIN by |-> x.dims[by[i]]]

\* The rows of a group among the first n, in the order visited.
Mine(by, rows, n, ids) == Pick([i \in 1 .. n |-> rows[i]], {i \in 1 .. n : KeyIds(by, rows[i]) = ids})

LEMMA MineNext ==
    ASSUME NEW by, NEW rows \in Seq(ColRow), NEW n \in 0 .. Len(rows) - 1, NEW ids
    PROVE  /\ Mine(by, rows, n, ids) \in Seq(ColRow)
           /\ Mine(by, rows, n + 1, ids) =
                IF KeyIds(by, rows[n + 1]) = ids THEN Append(Mine(by, rows, n, ids), rows[n + 1])
                ELSE Mine(by, rows, n, ids)
<1> DEFINE s == [i \in 1 .. n |-> rows[i]]
           t == [i \in 1 .. n + 1 |-> rows[i]]
           S == {i \in 1 .. n : KeyIds(by, rows[i]) = ids}
           U == {i \in 1 .. n + 1 : KeyIds(by, rows[i]) = ids}
<1>1. n \in Nat /\ n + 1 \in 1 .. n + 1 /\ n <= Len(rows) /\ Len(rows) \in Nat
      /\ DOMAIN rows = 1 .. Len(rows) /\ \A i \in 1 .. n : i \in 1 .. n + 1
  OBVIOUS
<1>2. DOMAIN s = 1 .. n /\ DOMAIN t = 1 .. n + 1 /\ (\A i \in 1 .. n : t[i] = s[i]) /\ t[n + 1] = rows[n + 1]
  BY <1>1
<1>3. (\A i \in 1 .. n : i \in S <=> i \in U) /\ (n + 1 \in U <=> KeyIds(by, rows[n + 1]) = ids)
  BY <1>1
<1>4. s \in Seq(ColRow)
  <2>1. \A i \in 1 .. n : rows[i] \in ColRow
    BY <1>1, ElementOf
  <2> QED BY <1>1, <2>1
<1>5. Mine(by, rows, n, ids) = Pick(s, S) /\ Mine(by, rows, n + 1, ids) = Pick(t, U)
  BY DEF Mine
<1> HIDE DEF s, t, S, U
<1>6. Pick(t, U) = IF n + 1 \in U THEN Append(Pick(s, S), t[n + 1]) ELSE Pick(s, S)
  BY <1>1, <1>2, <1>3, PickMore
<1>7. Pick(s, S) \in Seq(ColRow)
  BY <1>4, PickLen
<1> QED BY <1>2, <1>3, <1>5, <1>6, <1>7

LEMMA MineNone ==
    ASSUME NEW by, NEW rows, NEW n \in Nat, NEW ids, \A i \in 1 .. n : KeyIds(by, rows[i]) # ids
    PROVE  Mine(by, rows, n, ids) = <<>>
<1> DEFINE s == [i \in 1 .. n |-> rows[i]]
           t == Pick(s, {})
<1>1. Mine(by, rows, n, ids) = t
  <2>1. {i \in 1 .. n : KeyIds(by, rows[i]) = ids} = {}
    OBVIOUS
  <2> QED BY <2>1 DEF Mine
<1>2. t \in Seq(Range(s)) /\ \A i \in DOMAIN t : FALSE
  <2>1. s \in Seq(Range(s))
    BY DEF Range
  <2> HIDE DEF s
  <2>2. t \in Seq(Range(s)) /\ \A i \in DOMAIN t : \E k \in {} \cap DOMAIN s : t[i] = s[k]
    BY <2>1, PickLen
  <2> QED BY <2>2
<1> HIDE DEF s, t
<1>3. Len(t) = 0
  BY <1>2
<1>4. t = <<>>
  BY <1>2, <1>3
<1> QED BY <1>1, <1>4

\* A column up to n looks at the first n rows only.
LEMMA ColPrefix ==
    ASSUME NEW a, NEW M, NEW N, NEW n, \A i \in 1 .. n : N[i] = M[i], NEW x, ColTo(a, M, n, x)
    PROVE  ColTo(a, N, n, x)
<1>1. \A i \in 1 .. n : MetOf(N, a, i) = MetOf(M, a, i)
  BY DEF MetOf
<1>2. MetsTo(N, a, n) = MetsTo(M, a, n)
  BY <1>1 DEF MetsTo
<1>3. IdsTo(N, a, n) = IdsTo(M, a, n)
  BY DEF IdsTo
<1> QED BY <1>1, <1>2, <1>3 DEF ColTo


Grp(by, aggs) == [ids : [DOMAIN by -> Nat], cols : [DOMAIN aggs -> Int], cnt : Nat]

\* A column of a group after the rows M, whatever bitmap it would have.
AccTo(a, M, acc) == \E bm : ColTo(a, M, Len(M), [acc |-> acc, bm |-> bm])

\* A group after its rows, M.
GroupIs(aggs, M, grp) ==
    /\ grp.cnt = Len(M) /\ M # <<>>
    /\ \A j \in DOMAIN aggs : AccTo(aggs[j], M, grp.cols[j])

\* The triples seen of column j and group g are the ids of the group's rows M.
SeenIs(a, j, g, M, seen) == \A id : dkey(j, g, id) \in seen <=> id \in IdsTo(M, a, Len(M))

LEMMA NextColIs ==
    ASSUME NEW a, aggOK(a), NEW M \in Seq(ColRow), M # <<>>, NEW row \in ColRow,
           NEW x \in Int, AccTo(a, M, x), NEW j, NEW g, NEW seen,
           a.op = "distinct" => SeenIs(a, j, g, M, seen)
    PROVE  NextCol(a, j, g, row, x, seen) \in Int /\ AccTo(a, Append(M, row), NextCol(a, j, g, row, x, seen))
<1> DEFINE n == Len(M)
           N == Append(M, row)
           y == NextCol(a, j, g, row, x, seen)
           m == Metric[row.met][a.metric]
           id == row.ids[a.dim]
<1>1. N \in Seq(ColRow) /\ n \in Nat /\ Len(N) = n + 1 /\ N[n + 1] = row /\ n # 0 /\ (\A i \in 1 .. n : N[i] = M[i])
  OBVIOUS
<1>2. PICK bm : ColTo(a, M, n, [acc |-> x, bm |-> bm])
  BY DEF AccTo
<1> DEFINE X == [acc |-> x, bm |-> bm]
           Y == foldAgg(a, X, row, FALSE)
<1> HIDE DEF N, n
<1>3. ColTo(a, N, n + 1, Y)
  <2> HIDE DEF X
  <2>1. ColTo(a, N, n, X)
    BY <1>1, <1>2, ColPrefix DEF X
  <2>2. n \in 0 .. Len(N) - 1 /\ (n + 1 = 1) = FALSE
    BY <1>1
  <2>3. ColTo(a, N, n + 1, foldAgg(a, X, N[n + 1], n + 1 = 1))
    BY <1>1, <2>1, <2>2, ColStep
  <2> QED BY <1>1, <2>2, <2>3
<1>4. a.op \in {"sum", "avg", "min", "max"} => m \in Int
  <2>1. row.met \in Payloads
    BY DEF ColRow
  <2>2. a.op \in {"sum", "avg", "min", "max"} => a.metric \in Metrics
    BY DEF aggOK
  <2> QED BY <2>1, <2>2, QueryAssumption
<1>5. X.acc = x /\ X.bm = bm
  OBVIOUS
<1>6. a.op \in {"sum", "count", "min", "max", "avg", "distinct"}
  BY DEF aggOK, AggOps
<1>7. y \in Int /\ \E b : Y = [acc |-> y, bm |-> b]
  <2>1. CASE a.op = "distinct"
    <3>1. bm = IdsTo(M, a, n)
      BY <1>2, <2>1 DEF ColTo
    <3>2. dkey(j, g, id) \in seen <=> id \in bm
      BY <2>1, <3>1 DEF SeenIs, n
    <3>3. y = IF id \in bm THEN x ELSE x + 1
      BY <2>1, <3>2 DEF NextCol
    <3>4. Y = IF id \in bm THEN X ELSE [acc |-> x + 1, bm |-> bm \cup {id}]
      BY <2>1 DEF foldAgg
    <3> HIDE DEF y, Y, id
    <3>5. y \in Int
      BY <3>3
    <3>6. Y = [acc |-> y, bm |-> bm \cup {id}]
      BY <3>3, <3>4
    <3> QED BY <3>5, <3>6
  <2>2. CASE a.op = "count"
    <3>1. Y = X /\ y = x
      BY <2>2 DEF foldAgg, NextCol
    <3> QED BY <3>1
  <2>3. CASE a.op \in {"sum", "avg"}
    <3>1. Y = [acc |-> x + m, bm |-> bm]
      BY <2>3 DEF foldAgg
    <3>2. y = x + m
      BY <2>3 DEF foldAgg, NextCol
    <3> HIDE DEF y, Y
    <3>3. y \in Int
      BY <1>4, <2>3, <3>2
    <3>4. Y = [acc |-> y, bm |-> bm]
      BY <3>1, <3>2
    <3> QED BY <3>3, <3>4
  <2>4. CASE a.op = "min"
    <3>1. Y = [acc |-> IF m < x THEN m ELSE x, bm |-> bm]
      BY <2>4 DEF foldAgg
    <3>2. y = IF m < x THEN m ELSE x
      BY <2>4 DEF foldAgg, NextCol
    <3> HIDE DEF y, Y
    <3> QED BY <1>4, <2>4, <3>1, <3>2
  <2>5. CASE a.op = "max"
    <3>1. Y = [acc |-> IF m > x THEN m ELSE x, bm |-> bm]
      BY <2>5 DEF foldAgg
    <3>2. y = IF m > x THEN m ELSE x
      BY <2>5 DEF foldAgg, NextCol
    <3> HIDE DEF y, Y
    <3> QED BY <1>4, <2>5, <3>1, <3>2
  <2> QED BY <1>6, <2>1, <2>2, <2>3, <2>4, <2>5
<1> HIDE DEF y, Y
<1>8. AccTo(a, N, y)
  BY <1>1, <1>3, <1>7 DEF AccTo
<1> QED BY <1>7, <1>8 DEF N, y

\* The columns of a group's first row.
OpenCol(a, row) ==
    IF a.op = "distinct" THEN 1 ELSE IF a.op = "count" THEN 0 ELSE Metric[row.met][a.metric]

LEMMA OpenColIs ==
    ASSUME NEW a, aggOK(a), NEW row \in ColRow
    PROVE  OpenCol(a, row) \in Int /\ AccTo(a, <<row>>, OpenCol(a, row))
<1> DEFINE N == <<row>>
           y == OpenCol(a, row)
           m == Metric[row.met][a.metric]
           X == [acc |-> 0, bm |-> {}]
           Y == foldAgg(a, X, row, TRUE)
<1>1. N \in Seq(ColRow) /\ Len(N) = 1 /\ N[1] = row
  OBVIOUS
<1> HIDE DEF N
<1>2. ColTo(a, N, 1, Y)
  <2>1. ColTo(a, N, 0, X)
    BY ColStart
  <2>2. 0 \in 0 .. Len(N) - 1 /\ 0 + 1 = 1
    BY <1>1
  <2> HIDE DEF X
  <2>3. ColTo(a, N, 0 + 1, foldAgg(a, X, N[0 + 1], 0 + 1 = 1))
    BY <1>1, <2>1, <2>2, ColStep
  <2> QED BY <1>1, <2>2, <2>3
<1>3. a.op \in {"sum", "avg", "min", "max"} => m \in Int
  <2>1. row.met \in Payloads
    BY DEF ColRow
  <2>2. a.op \in {"sum", "avg", "min", "max"} => a.metric \in Metrics
    BY DEF aggOK
  <2> QED BY <2>1, <2>2, QueryAssumption
<1>4. a.op \in {"sum", "count", "min", "max", "avg", "distinct"}
  BY DEF aggOK, AggOps
<1>5. y \in Int /\ \E b : Y = [acc |-> y, bm |-> b]
  <2>1. CASE a.op = "distinct"
    <3>1. Y = [acc |-> 0 + 1, bm |-> {} \cup {row.ids[a.dim]}]
      BY <2>1 DEF foldAgg
    <3>2. y = 1
      BY <2>1 DEF OpenCol
    <3> HIDE DEF y, Y
    <3>3. y \in Int /\ Y = [acc |-> y, bm |-> {} \cup {row.ids[a.dim]}]
      BY <3>1, <3>2
    <3> QED BY <3>3
  <2>2. CASE a.op = "count"
    <3>1. Y = [acc |-> 0, bm |-> {}] /\ y = 0
      BY <2>2 DEF foldAgg, OpenCol
    <3> HIDE DEF y, Y
    <3>2. y \in Int /\ Y = [acc |-> y, bm |-> {}]
      BY <3>1
    <3> QED BY <3>2
  <2>3. CASE a.op \in {"sum", "avg"}
    <3>1. Y = [acc |-> 0 + m, bm |-> {}] /\ y = m
      BY <2>3 DEF foldAgg, OpenCol
    <3> HIDE DEF y, Y
    <3>2. y \in Int
      BY <1>3, <2>3, <3>1
    <3>3. Y = [acc |-> y, bm |-> {}]
      BY <1>3, <2>3, <3>1
    <3> QED BY <3>2, <3>3
  <2>4. CASE a.op \in {"min", "max"}
    <3>1. Y = [acc |-> m, bm |-> {}] /\ y = m
      BY <2>4 DEF foldAgg, OpenCol
    <3> HIDE DEF y, Y
    <3> QED BY <1>3, <2>4, <3>1
  <2> QED BY <1>4, <2>1, <2>2, <2>3, <2>4
<1> HIDE DEF y, Y
<1>6. AccTo(a, N, y)
  BY <1>1, <1>2, <1>5 DEF AccTo
<1> QED BY <1>5, <1>6 DEF N, y


\* The groups after n rows: one for each key, and each of its rows.
GroupState(by, aggs, rows, n, groups, seen) ==
    /\ groups \in Seq(Grp(by, aggs))
    /\ \A g, h \in DOMAIN groups : groups[g].ids = groups[h].ids => g = h
    /\ \A i \in 1 .. n : \E g \in DOMAIN groups : groups[g].ids = KeyIds(by, rows[i])
    /\ \A g \in DOMAIN groups : GroupIs(aggs, Mine(by, rows, n, groups[g].ids), groups[g])
    /\ \A g \in DOMAIN groups : \A j \in DistinctCols(aggs) :
          SeenIs(aggs[j], j, g, Mine(by, rows, n, groups[g].ids), seen)
    /\ \A j \in DistinctCols(aggs), g \in Nat : \A id : dkey(j, g, id) \in seen => g \in DOMAIN groups

\* Group g gets one more row, its first if g is new.
Touches(by, aggs, rows, n, groups, g, new) ==
    LET row == rows[n + 1]
        ids == KeyIds(by, row)
    IN  /\ g \in 1 .. Len(groups) + 1
        /\ new \in Seq(Grp(by, aggs)) /\ DOMAIN new = DOMAIN groups \cup {g}
        /\ \A h \in DOMAIN groups : h # g => new[h] = groups[h]
        /\ new[g].ids = ids
        /\ g \in DOMAIN groups => groups[g].ids = ids
        /\ g \notin DOMAIN groups => \A h \in DOMAIN groups : groups[h].ids # ids
        /\ GroupIs(aggs, Append(Mine(by, rows, n, ids), row), new[g])

\* The triples of a row of group g.
KeysAre(aggs, g, row) ==
    \A j \in DistinctCols(aggs) : \A h, id :
        dkey(j, h, id) \in RowKeys(aggs, g, row, Len(aggs)) <=> h = g /\ id = row.ids[aggs[j].dim]

LEMMA RowKeysHas ==
    ASSUME NEW aggs, FewCols(aggs), NEW g, NEW row
    PROVE  KeysAre(aggs, g, row)
<1>1. DistinctCols(aggs) \subseteq DOMAIN aggs /\ \A i \in DOMAIN aggs : i \in Nat /\ i <= Len(aggs)
  BY DEF DistinctCols, FewCols
<1>2. RowKeys(aggs, g, row, Len(aggs)) = {dkey(i, g, row.ids[aggs[i].dim]) : i \in DistinctCols(aggs)}
  BY <1>1 DEF RowKeys
<1>3. ASSUME NEW j \in DistinctCols(aggs), NEW h, NEW id,
             NEW i \in DistinctCols(aggs), dkey(j, h, id) = dkey(i, g, row.ids[aggs[i].dim])
      PROVE  h = g /\ id = row.ids[aggs[j].dim]
  <2>1. dkey(j, h, id) = <<j - 1, h, id>>
    BY <1>1, DkeyIs
  <2>2. dkey(i, g, row.ids[aggs[i].dim]) = <<i - 1, g, row.ids[aggs[i].dim]>>
    BY <1>1, DkeyIs
  <2> DEFINE k == row.ids[aggs[i].dim]
  <2>3. j - 1 = i - 1 /\ h = g /\ id = k
    <3>1. <<j - 1, h, id>> = <<i - 1, g, k>>
      BY <1>3, <2>1, <2>2
    <3> HIDE DEF k
    <3> QED BY ONLY <3>1
  <2>4. i = j
    BY <1>1, <2>3
  <2> QED BY <2>3, <2>4
<1> QED BY <1>2, <1>3 DEF KeysAre

LEMMA GroupsNext ==
    ASSUME NEW by, NEW aggs, FewCols(aggs), NEW rows \in Seq(ColRow), NEW n \in 0 .. Len(rows) - 1,
           NEW groups, NEW seen, GroupState(by, aggs, rows, n, groups, seen),
           NEW g, NEW new, Touches(by, aggs, rows, n, groups, g, new)
    PROVE  GroupState(by, aggs, rows, n + 1, new, seen \cup RowKeys(aggs, g, rows[n + 1], Len(aggs)))
<1> DEFINE row == rows[n + 1]
           ids == KeyIds(by, row)
           more == seen \cup RowKeys(aggs, g, row, Len(aggs))
           M(k) == Mine(by, rows, n, k)
           N(k) == Mine(by, rows, n + 1, k)
<1>1. /\ g \in 1 .. Len(groups) + 1
      /\ new \in Seq(Grp(by, aggs)) /\ DOMAIN new = DOMAIN groups \cup {g}
      /\ \A h \in DOMAIN groups : h # g => new[h] = groups[h]
      /\ new[g].ids = ids
      /\ g \in DOMAIN groups => groups[g].ids = ids
      /\ g \notin DOMAIN groups => \A h \in DOMAIN groups : groups[h].ids # ids
      /\ GroupIs(aggs, Append(M(ids), row), new[g])
  BY DEF Touches
<1>2. /\ groups \in Seq(Grp(by, aggs))
      /\ \A x, h \in DOMAIN groups : groups[x].ids = groups[h].ids => x = h
      /\ \A i \in 1 .. n : \E x \in DOMAIN groups : groups[x].ids = KeyIds(by, rows[i])
      /\ \A x \in DOMAIN groups : GroupIs(aggs, M(groups[x].ids), groups[x])
      /\ \A x \in DOMAIN groups : \A j \in DistinctCols(aggs) : SeenIs(aggs[j], j, x, M(groups[x].ids), seen)
      /\ \A j \in DistinctCols(aggs), x \in Nat : \A id : dkey(j, x, id) \in seen => x \in DOMAIN groups
  BY DEF GroupState
<1>3. \A k : M(k) \in Seq(ColRow) /\ N(k) = IF ids = k THEN Append(M(k), row) ELSE M(k)
  BY MineNext
<1>4. n \in Nat /\ \A i \in 1 .. n + 1 : i \in 1 .. n \/ i = n + 1
  OBVIOUS
<1>5. \A h \in DOMAIN groups : h # g => groups[h].ids # ids
  BY <1>1, <1>2
<1>6. N(ids) = Append(M(ids), row) /\ \A h \in DOMAIN groups : h # g => N(groups[h].ids) = M(groups[h].ids)
  BY <1>3, <1>5
<1>7. \A j \in DistinctCols(aggs) : \A h, id :
         dkey(j, h, id) \in more <=> dkey(j, h, id) \in seen \/ (h = g /\ id = row.ids[aggs[j].dim])
  <2> HIDE DEF row
  <2>1. KeysAre(aggs, g, row)
    BY RowKeysHas
  <2> QED BY <2>1 DEF KeysAre
<1>8. g \in DOMAIN groups \/ M(ids) = <<>>
  <2>1. ASSUME g \notin DOMAIN groups PROVE M(ids) = <<>>
    <3>1. \A i \in 1 .. n : KeyIds(by, rows[i]) # ids
      BY <1>1, <1>2, <2>1
    <3> QED BY <1>4, <3>1, MineNone
  <2> QED BY <2>1
<1>9. \A i \in 1 .. n + 1 : \E x \in DOMAIN new : new[x].ids = KeyIds(by, rows[i])
  BY <1>1, <1>2, <1>4
<1> HIDE DEF ids, row, more, M, N
<1>10. \A x, h \in DOMAIN new : new[x].ids = new[h].ids => x = h
  BY <1>1, <1>2, <1>5
<1>11. \A x \in DOMAIN new : GroupIs(aggs, N(new[x].ids), new[x])
  BY <1>1, <1>2, <1>6
<1>12. ASSUME NEW x \in DOMAIN new, NEW j \in DistinctCols(aggs)
       PROVE  SeenIs(aggs[j], j, x, N(new[x].ids), more)
  <2>1. CASE x # g
    <3>1. SeenIs(aggs[j], j, x, M(groups[x].ids), seen) /\ N(new[x].ids) = M(groups[x].ids)
      BY <1>1, <1>2, <1>6, <2>1
    <3> QED BY <1>7, <2>1, <3>1 DEF SeenIs
  <2>2. CASE x = g
    <3> DEFINE a == aggs[j]
               P == M(ids)
               Q == N(ids)
    <3>1. Q = Append(P, row) /\ P \in Seq(ColRow)
      BY <1>3, <1>6
    <3>2. IdsTo(Q, a, Len(Q)) = IdsTo(P, a, Len(P)) \cup {row.ids[a.dim]}
      <4> HIDE DEF P, Q, a
      <4>1. Len(P) \in Nat /\ Len(Q) = Len(P) + 1 /\ Q[Len(P) + 1] = row /\ \A i \in 1 .. Len(P) : Q[i] = P[i]
        BY <3>1
      <4>2. 1 .. Len(Q) = (1 .. Len(P)) \cup {Len(P) + 1}
        BY <4>1
      <4> QED BY <4>1, <4>2 DEF IdsTo
    <3>3. \A id : dkey(j, g, id) \in seen <=> id \in IdsTo(P, a, Len(P))
      <4>1. CASE g \in DOMAIN groups
        BY <1>1, <1>2, <4>1 DEF SeenIs
      <4>2. CASE g \notin DOMAIN groups
        <5>1. P = <<>> /\ g \in Nat
          BY <1>1, <1>2, <1>8, <4>2
        <5>2. IdsTo(P, a, Len(P)) = {}
          BY <5>1 DEF IdsTo
        <5>3. \A id : dkey(j, g, id) \notin seen
          BY <1>2, <4>2, <5>1
        <5> QED BY <5>2, <5>3
      <4> QED BY <4>1, <4>2
    <3> HIDE DEF P, Q, a
    <3>4. \A id : dkey(j, g, id) \in more <=> id \in IdsTo(Q, a, Len(Q))
      BY <1>7, <3>2, <3>3 DEF a
    <3> QED BY <1>1, <2>2, <3>4 DEF SeenIs, Q, a
  <2> QED BY <2>1, <2>2
<1>13. \A j \in DistinctCols(aggs), x \in Nat : \A id : dkey(j, x, id) \in more => x \in DOMAIN new
  BY <1>1, <1>2, <1>7
<1> QED BY <1>1, <1>9, <1>10, <1>11, <1>12, <1>13 DEF GroupState, N, more, row


LEMMA OpenIs ==
    ASSUME NEW aggs, FewCols(aggs), NEW g, NEW row, NEW seen
    PROVE  open(aggs, g, row, seen) = [cols |-> [j \in DOMAIN aggs |-> OpenCol(aggs[j], row)],
                                       seen |-> seen \cup RowKeys(aggs, g, row, Len(aggs))]
<1>1. {i \in DistinctCols(aggs) : i <= Len(aggs)} = {i \in DOMAIN aggs : aggs[i].op = "distinct"}
  <2>1. \A i \in DOMAIN aggs : i <= Len(aggs)
    BY DEF FewCols
  <2> QED BY <2>1 DEF DistinctCols
<1>2. RowKeys(aggs, g, row, Len(aggs))
      = {dkey(j, g, row.ids[aggs[j].dim]) : j \in {i \in DOMAIN aggs : aggs[i].op = "distinct"}}
  BY <1>1 DEF RowKeys
<1> QED BY <1>2 DEF open, OpenCol

\* The groups are those of one more row.
Regroups(by, aggs, rows, n, x) ==
    \E groups, seen : x = [groups |-> groups, seen |-> seen] /\ GroupState(by, aggs, rows, n, groups, seen)

LEMMA VisitOpens ==
    ASSUME NEW by \in Seq(Dims), NEW aggs, FewCols(aggs), NEW rows \in Seq(ColRow), NEW n \in 0 .. Len(rows) - 1,
           NEW groups, NEW seen, GroupState(by, aggs, rows, n, groups, seen),
           \A g \in DOMAIN groups : groups[g].ids # KeyIds(by, rows[n + 1])
    PROVE  Regroups(by, aggs, rows, n + 1, visit(by, aggs, [groups |-> groups, seen |-> seen], rows[n + 1]))
<1> DEFINE s == [groups |-> groups, seen |-> seen]
           row == rows[n + 1]
           ids == KeyIds(by, row)
           g == Len(groups) + 1
           more == seen \cup RowKeys(aggs, g, row, Len(aggs))
           cols == [j \in DOMAIN aggs |-> OpenCol(aggs[j], row)]
           e == [ids |-> ids, cols |-> cols, cnt |-> 1]
           new == Append(groups, e)
<1>1. row \in ColRow /\ n \in Nat
  BY ElementOf
<1>2. groups \in Seq(Grp(by, aggs)) /\ \A i \in 1 .. n : \E h \in DOMAIN groups : groups[h].ids = KeyIds(by, rows[i])
  BY DEF GroupState
<1>3. visit(by, aggs, s, row) = [groups |-> new, seen |-> more]
  <2>1. s.groups = groups /\ s.seen = seen
    OBVIOUS
  <2>2. {h \in DOMAIN groups : groups[h].ids = ids} = {}
    OBVIOUS
  <2> DEFINE o == open(aggs, g, row, seen)
  <2>3. o = [cols |-> cols, seen |-> more]
    <3> HIDE DEF row, g
    <3> QED BY OpenIs
  <2>4. visit(by, aggs, s, row)
        = [groups |-> Append(groups, [ids |-> ids, cols |-> o.cols, cnt |-> 1]), seen |-> o.seen]
    <3> HIDE DEF s, row
    <3>1. [i \in DOMAIN by |-> row.ids[by[i]]] = ids
      BY DEF KeyIds
    <3> QED BY <2>1, <2>2, <3>1 DEF visit
  <2> HIDE DEF s, row, cols, more, o
  <2>5. o.cols = cols /\ o.seen = more
    BY <2>3
  <2> QED BY <2>4, <2>5
<1>4. \A j \in DOMAIN aggs : aggOK(aggs[j])
  BY DEF FewCols, aggsOK
<1>5. Mine(by, rows, n, ids) = <<>>
  <2>1. \A i \in 1 .. n : KeyIds(by, rows[i]) # ids
    BY <1>2
  <2> HIDE DEF ids
  <2> QED BY <1>1, <2>1, MineNone
<1>6. e \in Grp(by, aggs) /\ GroupIs(aggs, <<row>>, e)
  <2> HIDE DEF row
  <2>1. \A j \in DOMAIN aggs : OpenCol(aggs[j], row) \in Int /\ AccTo(aggs[j], <<row>>, OpenCol(aggs[j], row))
    BY <1>1, <1>4, OpenColIs
  <2>2. ids \in [DOMAIN by -> Nat]
    <3>1. row.ids \in [Dims -> Nat] /\ \A i \in DOMAIN by : by[i] \in Dims
      BY <1>1 DEF ColRow
    <3> QED BY <3>1 DEF KeyIds
  <2>3. cols \in [DOMAIN aggs -> Int]
    BY <2>1
  <2>4. \A j \in DOMAIN aggs : cols[j] = OpenCol(aggs[j], row)
    OBVIOUS
  <2> HIDE DEF cols, ids
  <2>5. e.ids = ids /\ e.cols = cols /\ e.cnt = 1
    OBVIOUS
  <2>6. e \in Grp(by, aggs)
    BY <2>2, <2>3 DEF Grp
  <2>7. Len(<<row>>) = 1 /\ <<row>> # <<>>
    OBVIOUS
  <2> HIDE DEF e
  <2>8. GroupIs(aggs, <<row>>, e)
    BY <2>1, <2>4, <2>5, <2>7 DEF GroupIs
  <2> QED BY <2>6, <2>8
<1>7. e.ids = ids
  OBVIOUS
<1> HIDE DEF e, cols
<1>8. /\ new \in Seq(Grp(by, aggs)) /\ DOMAIN new = DOMAIN groups \cup {g} /\ new[g] = e
      /\ \A h \in DOMAIN groups : h # g /\ new[h] = groups[h]
      /\ g \in 1 .. Len(groups) + 1 /\ g \notin DOMAIN groups
  BY <1>2, <1>6
<1>9. Append(<<>>, row) = <<row>>
  OBVIOUS
<1> HIDE DEF new, g
<1>10. Touches(by, aggs, rows, n, groups, g, new)
  <2> HIDE DEF ids, row
  <2>1. GroupIs(aggs, Append(Mine(by, rows, n, ids), row), new[g])
    BY <1>5, <1>6, <1>8, <1>9
  <2>2. \A h \in DOMAIN groups : groups[h].ids # ids
    BY DEF ids, row
  <2>3. new[g].ids = ids
    BY <1>7, <1>8
  <2>4. g \in 1 .. Len(groups) + 1
    BY <1>8 DEF g
  <2> QED BY <1>8, <2>1, <2>2, <2>3, <2>4 DEF Touches, ids, row
<1>11. GroupState(by, aggs, rows, n + 1, new, more)
  BY <1>10, GroupsNext
<1> QED BY <1>3, <1>11 DEF Regroups


LEMMA VisitFolds ==
    ASSUME NEW by \in Seq(Dims), NEW aggs, FewCols(aggs), NEW rows \in Seq(ColRow), NEW n \in 0 .. Len(rows) - 1,
           NEW groups, NEW seen, GroupState(by, aggs, rows, n, groups, seen),
           NEW g \in DOMAIN groups, groups[g].ids = KeyIds(by, rows[n + 1])
    PROVE  Regroups(by, aggs, rows, n + 1, visit(by, aggs, [groups |-> groups, seen |-> seen], rows[n + 1]))
<1> DEFINE s == [groups |-> groups, seen |-> seen]
           row == rows[n + 1]
           ids == KeyIds(by, row)
           grp == groups[g]
           cols == grp.cols
           M == Mine(by, rows, n, ids)
           more == seen \cup RowKeys(aggs, g, row, Len(aggs))
           next == [j \in DOMAIN aggs |-> NextCol(aggs[j], j, g, row, cols[j], seen)]
           e == [ids |-> ids, cols |-> next, cnt |-> grp.cnt + 1]
           new == [groups EXCEPT ![g] = e]
<1>1. row \in ColRow /\ n \in Nat
  BY ElementOf
<1>2. /\ groups \in Seq(Grp(by, aggs))
      /\ \A h \in DOMAIN groups : groups[h].ids = groups[g].ids => h = g
      /\ GroupIs(aggs, Mine(by, rows, n, groups[g].ids), groups[g])
      /\ \A j \in DistinctCols(aggs) : SeenIs(aggs[j], j, g, Mine(by, rows, n, groups[g].ids), seen)
  BY DEF GroupState
<1>3. grp \in Grp(by, aggs) /\ grp.ids = ids /\ g \in Nat /\ g \in 1 .. Len(groups)
  BY <1>2, ElementOf
<1>4. /\ GroupIs(aggs, M, grp) /\ \A j \in DistinctCols(aggs) : SeenIs(aggs[j], j, g, M, seen)
      /\ \A h \in DOMAIN groups : groups[h].ids = ids => h = g
  BY <1>2, <1>3
<1>5. cols \in [DOMAIN aggs -> Int] /\ grp.cnt \in Nat /\ ids \in [DOMAIN by -> Nat]
  BY <1>3 DEF Grp
<1>6. grp = [ids |-> ids, cols |-> cols, cnt |-> grp.cnt]
  BY <1>3 DEF Grp
<1>7. visit(by, aggs, s, row) = [groups |-> new, seen |-> more]
  <2>1. s.groups = groups /\ s.seen = seen
    OBVIOUS
  <2>2. {h \in DOMAIN groups : groups[h].ids = ids} = {g} /\ Min({g}) = g
    BY <1>3, <1>4, MinOne
  <2> DEFINE o == fold(aggs, g, row, cols, seen)
  <2>3. o = [cols |-> next, seen |-> more]
    <3> HIDE DEF row, cols
    <3>1. FoldsTo(aggs, g, row, cols, seen)
      BY <1>5, FoldIsCols
    <3> QED BY <3>1 DEF FoldsTo, NextAll
  <2>4. visit(by, aggs, s, row)
        = [groups |-> [groups EXCEPT ![g].cols = o.cols, ![g].cnt = @ + 1], seen |-> o.seen]
    <3> HIDE DEF s, row
    <3>1. [i \in DOMAIN by |-> row.ids[by[i]]] = ids
      BY DEF KeyIds
    <3> QED BY <2>1, <2>2, <3>1 DEF visit
  <2> HIDE DEF s, row, next, more, o
  <2>5. o.cols = next /\ o.seen = more
    BY <2>3
  <2>6. [groups EXCEPT ![g].cols = next, ![g].cnt = @ + 1] = new
    <3>1. [groups EXCEPT ![g].cols = next, ![g].cnt = @ + 1] = [groups EXCEPT ![g] = [[grp EXCEPT !.cols = next] EXCEPT !.cnt = @ + 1]]
      BY <1>2
    <3> DEFINE c == grp.cnt
               k == cols
    <3>2. grp = [ids |-> ids, cols |-> k, cnt |-> c]
      BY <1>6
    <3> HIDE DEF grp, ids, k, c
    <3> DEFINE p == [grp EXCEPT !.cols = next]
    <3>3. p = [ids |-> ids, cols |-> next, cnt |-> c]
      BY <3>2
    <3> HIDE DEF p
    <3>4. [p EXCEPT !.cnt = @ + 1] = [ids |-> ids, cols |-> next, cnt |-> c + 1]
      BY <3>3
    <3> QED BY <3>1, <3>4 DEF c, p
  <2> QED BY <2>4, <2>5, <2>6
<1>8. M \in Seq(ColRow)
  <2> HIDE DEF ids
  <2> QED BY MineNext
<1>9. e \in Grp(by, aggs) /\ GroupIs(aggs, Append(M, row), e)
  <2> HIDE DEF M, row, ids, cols, grp
  <2>1. M # <<>> /\ grp.cnt = Len(M) /\ \A j \in DOMAIN aggs : AccTo(aggs[j], M, cols[j])
    BY <1>4 DEF GroupIs, cols
  <2>2. ASSUME NEW j \in DOMAIN aggs PROVE next[j] \in Int /\ AccTo(aggs[j], Append(M, row), next[j])
    <3>1. aggOK(aggs[j]) /\ cols[j] \in Int /\ AccTo(aggs[j], M, cols[j])
      BY <1>5, <2>1 DEF FewCols, aggsOK
    <3>2. aggs[j].op = "distinct" => SeenIs(aggs[j], j, g, M, seen)
      BY <1>4 DEF DistinctCols
    <3> DEFINE a == aggs[j]
               x == cols[j]
    <3> HIDE DEF a, x
    <3>3. NextCol(a, j, g, row, x, seen) \in Int /\ AccTo(a, Append(M, row), NextCol(a, j, g, row, x, seen))
      BY <1>1, <1>8, <2>1, <3>1, <3>2, NextColIs DEF a, x
    <3> QED BY <3>3 DEF a, x
  <2>3. next \in [DOMAIN aggs -> Int]
    BY <2>2
  <2> HIDE DEF next
  <2>4. e.ids = ids /\ e.cols = next /\ e.cnt = grp.cnt + 1
    OBVIOUS
  <2>5. e \in Grp(by, aggs)
    BY <1>5, <2>3 DEF Grp
  <2>6. Len(Append(M, row)) = Len(M) + 1 /\ Append(M, row) # <<>>
    BY <1>8
  <2> HIDE DEF e
  <2>7. GroupIs(aggs, Append(M, row), e)
    BY <2>1, <2>2, <2>4, <2>6 DEF GroupIs
  <2> QED BY <2>5, <2>7
<1>10. e.ids = ids
  OBVIOUS
<1> HIDE DEF e, next
<1>11. /\ new \in Seq(Grp(by, aggs)) /\ DOMAIN new = DOMAIN groups /\ new[g] = e
       /\ \A h \in DOMAIN groups : h # g => new[h] = groups[h]
  <2> HIDE DEF ids, M, grp, cols
  <2> QED BY <1>2, <1>9
<1>12. g \in 1 .. Len(groups) + 1
  BY <1>2, <1>3
<1> HIDE DEF new
<1>13. Touches(by, aggs, rows, n, groups, g, new)
  <2>1. GroupIs(aggs, Append(Mine(by, rows, n, ids), row), new[g])
    BY <1>9, <1>11
  <2>2. groups[g].ids = ids /\ new[g].ids = ids
    BY <1>3, <1>10, <1>11
  <2> HIDE DEF ids, row
  <2>3. DOMAIN new = DOMAIN groups \cup {g}
    BY <1>11
  <2> QED BY <1>11, <1>12, <2>1, <2>2, <2>3 DEF Touches, ids, row
<1>14. GroupState(by, aggs, rows, n + 1, new, more)
  BY <1>13, GroupsNext
<1> QED BY <1>7, <1>14 DEF Regroups


VisitOp(c, s, row) == visit(c.by, c.aggs, s, row)

VisitInv(c, rows, n, x) == Regroups(c.by, c.aggs, rows, n, x)

Visits == INSTANCE Loops WITH Op <- VisitOp, Inv <- VisitInv

GroupsOf(by, aggs, rows) ==
    FoldLeft(LAMBDA s, row : visit(by, aggs, s, row), [groups |-> <<>>, seen |-> {}], rows)

LEMMA GroupsOfIs ==
    ASSUME NEW by \in Seq(Dims), NEW aggs, FewCols(aggs), NEW rows \in Seq(ColRow)
    PROVE  Regroups(by, aggs, rows, Len(rows), GroupsOf(by, aggs, rows))
<1> DEFINE c == [by |-> by, aggs |-> aggs]
           N == Len(rows)
           x0 == [groups |-> <<>>, seen |-> {}]
<1>1. N \in Nat /\ DOMAIN rows = 1 .. N
  OBVIOUS
<1>2. GroupsOf(by, aggs, rows) = Visits!Fold(c, x0, rows)
  BY DEF GroupsOf, FoldLeft, MapThenFoldSet, Max, Visits!Fold, Visits!MapThenFoldSet, Visits!Top, VisitOp
<1>3. c.by = by /\ c.aggs = aggs
  OBVIOUS
<1> HIDE DEF c, N
<1>4. VisitInv(c, rows, 0, x0)
  <2> DEFINE e == <<>>
  <2>1. e \in Seq(Grp(by, aggs)) /\ DOMAIN e = {} /\ 1 .. 0 = {}
    OBVIOUS
  <2> HIDE DEF e
  <2>2. GroupState(by, aggs, rows, 0, e, {})
    BY <2>1 DEF GroupState
  <2>3. Regroups(by, aggs, rows, 0, [groups |-> e, seen |-> {}])
    BY <2>2 DEF Regroups
  <2> QED BY <1>3, <2>3 DEF VisitInv, e
<1>5. ASSUME NEW n \in 0 .. N - 1, NEW x, VisitInv(c, rows, n, x)
      PROVE  VisitInv(c, rows, n + 1, VisitOp(c, x, rows[n + 1]))
  <2>1. Regroups(by, aggs, rows, n, x)
    BY <1>3, <1>5 DEF VisitInv
  <2>2. PICK groups, seen : x = [groups |-> groups, seen |-> seen] /\ GroupState(by, aggs, rows, n, groups, seen)
    BY <2>1 DEF Regroups
  <2>3. Regroups(by, aggs, rows, n + 1, visit(by, aggs, [groups |-> groups, seen |-> seen], rows[n + 1]))
    <3>1. CASE \E g \in DOMAIN groups : groups[g].ids = KeyIds(by, rows[n + 1])
      BY <2>2, <3>1, VisitFolds DEF N
    <3>2. CASE \A g \in DOMAIN groups : groups[g].ids # KeyIds(by, rows[n + 1])
      BY <2>2, <3>2, VisitOpens DEF N
    <3> QED BY <3>1, <3>2
  <2> QED BY <1>3, <2>2, <2>3 DEF VisitInv, VisitOp
<1>6. VisitInv(c, rows, N, Visits!Fold(c, x0, rows))
  <2> HIDE DEF x0
  <2> QED BY <1>1, <1>4, <1>5, Visits!FoldInvariant
<1> QED BY <1>2, <1>3, <1>6 DEF VisitInv, N


-----------------------------------------------------------------------------
(* Group by: what the groups answer.                                          *)

Keys(by) == [DOMAIN by -> Spellings]

StringsOf(v, by, ids) == [i \in DOMAIN by |-> dimString(v, by[i], ids[i])]

\* The key of a row's group, as the strings of its ids.
LEMMA KeyIs ==
    ASSUME NEW v \in Views, NEW by \in Seq(Dims), NEW a, RowIn(v, a)
    PROVE  KeyOf(by, AbsRow(v, a)) = StringsOf(v, by, KeyIds(by, a)) /\ KeyOf(by, AbsRow(v, a)) \in Keys(by)
<1>1. ASSUME NEW i \in DOMAIN by
      PROVE  /\ AbsRow(v, a).dims[by[i]] = dimString(v, by[i], a.ids[by[i]])
             /\ dimString(v, by[i], a.ids[by[i]]) \in Spellings
  <2> DEFINE d == by[i]
  <2>1. d \in Dims
    BY ElementOf
  <2> HIDE DEF d
  <2>2. AbsRow(v, a).dims[d] = dimString(v, d, a.ids[d]) /\ a.ids[d] \in 0 .. idSpace(v, d) - 1
    BY <2>1, IdMeets
  <2>3. DictPair(v, d)
    BY <2>1, ViewsRep DEF RepOK
  <2>4. dimString(v, d, a.ids[d]) \in Spellings
    BY <2>2, <2>3, DimStrings
  <2> QED BY <2>2, <2>4 DEF d
<1>2. \A i \in DOMAIN by : KeyIds(by, a)[i] = a.ids[by[i]]
  BY DEF KeyIds
<1> QED BY <1>1, <1>2 DEF KeyOf, StringsOf, Keys

\* Rows have the same key if and only if they have the same ids.
LEMMA SameKey ==
    ASSUME NEW v \in Views, NEW by \in Seq(Dims), NEW a, RowIn(v, a), NEW b, RowIn(v, b)
    PROVE  KeyOf(by, AbsRow(v, a)) = KeyOf(by, AbsRow(v, b)) <=> KeyIds(by, a) = KeyIds(by, b)
<1>1. KeyIds(by, a) = KeyIds(by, b) => KeyOf(by, AbsRow(v, a)) = KeyOf(by, AbsRow(v, b))
  BY KeyIs
<1>2. ASSUME KeyOf(by, AbsRow(v, a)) = KeyOf(by, AbsRow(v, b)), NEW i \in DOMAIN by
      PROVE  a.ids[by[i]] = b.ids[by[i]]
  <2> DEFINE d == by[i]
  <2>1. d \in Dims
    BY ElementOf
  <2>2. AbsRow(v, a).dims[d] = AbsRow(v, b).dims[d]
    <3>1. KeyOf(by, AbsRow(v, a))[i] = AbsRow(v, a).dims[d] /\ KeyOf(by, AbsRow(v, b))[i] = AbsRow(v, b).dims[d]
      BY DEF KeyOf
    <3> QED BY <1>2, <3>1
  <2> HIDE DEF d
  <2>3. dimString(v, d, a.ids[d]) = dimString(v, d, b.ids[d])
        /\ a.ids[d] \in 0 .. idSpace(v, d) - 1 /\ b.ids[d] \in 0 .. idSpace(v, d) - 1
    BY <2>1, <2>2, IdMeets
  <2>4. DictPair(v, d)
    BY <2>1, ViewsRep DEF RepOK
  <2>5. \A x, y \in 0 .. idSpace(v, d) - 1 : dimString(v, d, x) = dimString(v, d, y) => x = y
    BY <2>4, DimStrings
  <2> QED BY <2>3, <2>5 DEF d
<1>3. KeyOf(by, AbsRow(v, a)) = KeyOf(by, AbsRow(v, b)) => KeyIds(by, a) = KeyIds(by, b)
  BY <1>2 DEF KeyIds
<1> QED BY <1>1, <1>3

\* The rows wanted that have a key.
Keyed(by, D, k) == {x \in D : KeyOf(by, x) = k}

LEMMA MineListed ==
    ASSUME NEW v \in Views, NEW by \in Seq(Dims), NEW M, NEW D, Listed(v, M, D), NEW i \in DOMAIN M
    PROVE  Listed(v, Mine(by, M, Len(M), KeyIds(by, M[i])), Keyed(by, D, KeyOf(by, AbsRow(v, M[i]))))
<1> DEFINE n == Len(M)
           ids == KeyIds(by, M[i])
           S == {j \in 1 .. n : KeyIds(by, M[j]) = ids}
           t == Pick(M, S)
           K == Keyed(by, D, KeyOf(by, AbsRow(v, M[i])))
<1>1. /\ n \in Nat /\ DOMAIN M = 1 .. n /\ M \in Seq(ColRow) /\ \A j \in 1 .. n : RowIn(v, M[j])
      /\ Lists(Stands(v, M), n, D) /\ \A x : x \in D <=> \E j \in 1 .. n : x = AbsRow(v, M[j])
  BY ListedIs DEF Listed
<1>2. Mine(by, M, n, ids) = t
  <2>1. [j \in 1 .. n |-> M[j]] = M
    BY <1>1
  <2> HIDE DEF n, ids
  <2> QED BY <2>1 DEF Mine
<1>3. \A j \in 1 .. n : j \in S <=> KeyOf(by, AbsRow(v, M[j])) = KeyOf(by, AbsRow(v, M[i]))
  <2> SUFFICES ASSUME NEW j \in 1 .. n
               PROVE  j \in S <=> KeyOf(by, AbsRow(v, M[j])) = KeyOf(by, AbsRow(v, M[i]))
    OBVIOUS
  <2>1. RowIn(v, M[j]) /\ RowIn(v, M[i])
    BY <1>1
  <2> DEFINE a == M[j]
             b == M[i]
  <2> HIDE DEF a, b
  <2>2. KeyOf(by, AbsRow(v, a)) = KeyOf(by, AbsRow(v, b)) <=> KeyIds(by, a) = KeyIds(by, b)
    BY <2>1, SameKey DEF a, b
  <2> QED BY <2>2 DEF a, b
<1>4. S \subseteq 1 .. n
  OBVIOUS
<1> HIDE DEF n, ids, S, t
<1>5. \A j, k \in S \cap (1 .. n) : AbsRow(v, M[j]) = AbsRow(v, M[k]) => j = k
  <2>1. \A j \in 1 .. n : Stands(v, M)[j] = AbsRow(v, M[j])
    BY <1>1 DEF Stands
  <2> QED BY <1>1, <2>1 DEF Lists
<1>6. Lists(Stands(v, t), Len(t), {AbsRow(v, M[j]) : j \in S \cap (1 .. n)})
  BY <1>1, <1>5, PickStands DEF t
<1>7. {AbsRow(v, M[j]) : j \in S \cap (1 .. n)} = K
  <2>1. \A x : x \in K <=> x \in D /\ KeyOf(by, x) = KeyOf(by, AbsRow(v, M[i]))
    BY DEF Keyed
  <2>2. \A x : x \in {AbsRow(v, M[j]) : j \in S \cap (1 .. n)} <=> \E j \in S : x = AbsRow(v, M[j])
    BY <1>4
  <2> HIDE DEF K
  <2>3. \A x : x \in K <=> \E j \in S : x = AbsRow(v, M[j])
    BY <1>1, <1>3, <1>4, <2>1
  <2> QED BY <2>2, <2>3
<1>8. t \in Seq(ColRow) /\ \A j \in DOMAIN t : RowIn(v, t[j])
  <2>1. t \in Seq(ColRow) /\ \A j \in DOMAIN t : \E k \in S \cap DOMAIN M : t[j] = M[k]
    <3>1. M \in Seq(ColRow)
      BY <1>1
    <3>2. t = Pick(M, S)
      BY DEF t
    <3> QED BY <3>1, <3>2, PickLen
  <2> QED BY <1>1, <2>1
<1> HIDE DEF K
<1>9. Listed(v, t, K)
  BY <1>6, <1>7, <1>8 DEF Listed
<1> QED BY <1>2, <1>9 DEF n, ids, K


\* What a query answers for a group, and what it should for a key.
OutRow(v, by, aggs, grp) ==
    [key |-> StringsOf(v, by, grp.ids),
     aggs |-> [j \in DOMAIN aggs |-> aggResult(aggs[j], grp.cols[j], grp.cnt)]]

KeyRow(by, aggs, D, k) == [key |-> k, aggs |-> [j \in DOMAIN aggs |-> Expected(aggs[j], Keyed(by, D, k))]]

LEMMA GroupAnswers ==
    ASSUME NEW v \in Views, NEW by \in Seq(Dims), NEW aggs, FewCols(aggs), NEW M, NEW D, Listed(v, M, D),
           NEW groups, NEW seen, GroupState(by, aggs, M, Len(M), groups, seen), NEW g \in DOMAIN groups
    PROVE  \E i \in DOMAIN M : /\ groups[g].ids = KeyIds(by, M[i])
                               /\ OutRow(v, by, aggs, groups[g]) = KeyRow(by, aggs, D, KeyOf(by, AbsRow(v, M[i])))
<1> DEFINE n == Len(M)
           grp == groups[g]
           t == Mine(by, M, n, grp.ids)
<1>1. n \in Nat /\ DOMAIN M = 1 .. n /\ \A i \in 1 .. n : RowIn(v, M[i])
  BY ListedIs DEF Listed
<1>2. GroupIs(aggs, t, grp)
  BY DEF GroupState
<1>3. grp.cnt = Len(t) /\ t # <<>> /\ \A j \in DOMAIN aggs : AccTo(aggs[j], t, grp.cols[j])
  BY <1>2 DEF GroupIs
<1>4. PICK i \in 1 .. n : KeyIds(by, M[i]) = grp.ids
  <2> HIDE DEF grp, n
  <2> QED BY <1>1, <1>3, MineNone
<1> DEFINE k == KeyOf(by, AbsRow(v, M[i]))
           K == Keyed(by, D, k)
<1>5. Listed(v, t, K)
  BY <1>1, <1>4, MineListed
<1>6. k = StringsOf(v, by, grp.ids)
  <2> DEFINE a == M[i]
  <2>1. RowIn(v, a)
    BY <1>1
  <2> HIDE DEF a
  <2>2. KeyOf(by, AbsRow(v, a)) = StringsOf(v, by, KeyIds(by, a))
    BY <2>1, KeyIs
  <2> QED BY <1>4, <2>2 DEF a
<1> HIDE DEF t, k, K, n
<1>7. \A j \in DOMAIN aggs : aggResult(aggs[j], grp.cols[j], grp.cnt) = Expected(aggs[j], K)
  <2> SUFFICES ASSUME NEW j \in DOMAIN aggs
               PROVE  aggResult(aggs[j], grp.cols[j], grp.cnt) = Expected(aggs[j], K)
    OBVIOUS
  <2> DEFINE a == aggs[j]
             acc == grp.cols[j]
  <2>1. aggOK(a)
    BY DEF FewCols, aggsOK
  <2>2. PICK bm : ColTo(a, t, Len(t), [acc |-> acc, bm |-> bm])
    BY <1>3 DEF AccTo
  <2> DEFINE x == [acc |-> acc, bm |-> bm]
  <2>3. x.acc = acc
    OBVIOUS
  <2> HIDE DEF a, acc, x
  <2>4. aggResult(a, x.acc, Len(t)) = Expected(a, K)
    BY <1>5, <2>1, <2>2, ColAnswer DEF x
  <2> QED BY <1>3, <2>3, <2>4 DEF a, acc
<1>8. OutRow(v, by, aggs, grp) = KeyRow(by, aggs, D, k)
  BY <1>6, <1>7 DEF OutRow, KeyRow, K
<1> QED BY <1>1, <1>4, <1>8 DEF k

\* The rows answered, in the order the groups were opened.
Outs(v, by, aggs, groups) == [g \in DOMAIN groups |-> OutRow(v, by, aggs, groups[g])]

LEMMA OutsAre ==
    ASSUME NEW v \in Views, NEW by \in Seq(Dims), NEW aggs, FewCols(aggs), NEW M, NEW D, Listed(v, M, D),
           NEW groups, NEW seen, GroupState(by, aggs, M, Len(M), groups, seen)
    PROVE  LET out == Outs(v, by, aggs, groups)
           IN  /\ Range(out) = {KeyRow(by, aggs, D, k) : k \in {KeyOf(by, x) : x \in D}}
               /\ \A g, h \in DOMAIN groups : out[g].key = out[h].key => g = h
               /\ \A g \in DOMAIN groups : out[g].key \in Keys(by)
<1> DEFINE n == Len(M)
           out == Outs(v, by, aggs, groups)
           K(i) == KeyOf(by, AbsRow(v, M[i]))
<1>1. /\ n \in Nat /\ DOMAIN M = 1 .. n /\ (\A i \in 1 .. n : RowIn(v, M[i]))
      /\ \A x : x \in D <=> \E i \in 1 .. n : x = AbsRow(v, M[i])
  BY ListedIs DEF Listed
<1>2. /\ \A g, h \in DOMAIN groups : groups[g].ids = groups[h].ids => g = h
      /\ \A i \in 1 .. n : \E g \in DOMAIN groups : groups[g].ids = KeyIds(by, M[i])
  BY DEF GroupState
<1>3. \A g \in DOMAIN groups : \E i \in 1 .. n : groups[g].ids = KeyIds(by, M[i]) /\ out[g] = KeyRow(by, aggs, D, K(i))
  BY <1>1, GroupAnswers DEF Outs
<1>4. \A i, j \in 1 .. n : K(i) = K(j) <=> KeyIds(by, M[i]) = KeyIds(by, M[j])
  <2> SUFFICES ASSUME NEW i \in 1 .. n, NEW j \in 1 .. n
               PROVE  K(i) = K(j) <=> KeyIds(by, M[i]) = KeyIds(by, M[j])
    OBVIOUS
  <2> DEFINE a == M[i]
             b == M[j]
  <2>1. RowIn(v, a) /\ RowIn(v, b)
    BY <1>1
  <2> HIDE DEF a, b
  <2>2. KeyOf(by, AbsRow(v, a)) = KeyOf(by, AbsRow(v, b)) <=> KeyIds(by, a) = KeyIds(by, b)
    BY <2>1, SameKey
  <2> QED BY <2>2 DEF a, b
<1>5. \A i \in 1 .. n : K(i) \in Keys(by)
  BY <1>1, KeyIs
<1>6. \A k : k \in {KeyOf(by, x) : x \in D} <=> \E i \in 1 .. n : k = K(i)
  <2>1. \A k : k \in {KeyOf(by, x) : x \in D} <=> \E x \in D : k = KeyOf(by, x)
    OBVIOUS
  <2> QED BY <1>1, <2>1
<1>7. \A k : KeyRow(by, aggs, D, k).key = k
  BY DEF KeyRow
<1>8. DOMAIN out = DOMAIN groups
  BY DEF Outs
<1> HIDE DEF out, K, n
<1>9. \A g, h \in DOMAIN groups : out[g].key = out[h].key => g = h
  BY <1>2, <1>3, <1>4, <1>7
<1>10. \A g \in DOMAIN groups : out[g].key \in Keys(by)
  BY <1>3, <1>5, <1>7
<1>11. \A x : x \in Range(out) <=> \E i \in 1 .. n : x = KeyRow(by, aggs, D, K(i))
  <2>1. ASSUME NEW i \in 1 .. n PROVE \E g \in DOMAIN groups : out[g] = KeyRow(by, aggs, D, K(i))
    <3>1. PICK g \in DOMAIN groups : groups[g].ids = KeyIds(by, M[i])
      BY <1>2
    <3>2. PICK j \in 1 .. n : groups[g].ids = KeyIds(by, M[j]) /\ out[g] = KeyRow(by, aggs, D, K(j))
      BY <1>3
    <3>3. K(i) = K(j)
      BY <1>4, <3>1, <3>2
    <3> QED BY <3>2, <3>3
  <2> QED BY <1>3, <1>8, <2>1 DEF Range
<1>12. Range(out) = {KeyRow(by, aggs, D, k) : k \in {KeyOf(by, x) : x \in D}}
  <2> DEFINE S == {KeyOf(by, x) : x \in D}
  <2> HIDE DEF S
  <2>1. \A k : k \in S <=> \E i \in 1 .. n : k = K(i)
    BY <1>6 DEF S
  <2>2. Range(out) = {KeyRow(by, aggs, D, k) : k \in S}
    BY <1>11, <2>1
  <2> QED BY <2>2 DEF S
<1> QED BY <1>9, <1>10, <1>12 DEF out


-----------------------------------------------------------------------------
(* Group by: the order of the answer.                                         *)

LEMMA KeyOrders ==
    ASSUME NEW by \in Seq(Dims), NEW a \in Keys(by), NEW b \in Keys(by)
    PROVE  /\ ~keyBefore(a, a)
           /\ a = b \/ keyBefore(a, b) \/ keyBefore(b, a)
           /\ \A c \in Keys(by) : keyBefore(a, b) /\ keyBefore(b, c) => keyBefore(a, c)
<1> DEFINE n == Len(by)
<1>1. n \in Nat /\ DOMAIN by = 1 .. n /\ DOMAIN a = 1 .. n /\ DOMAIN b = 1 .. n
  BY DEF Keys
<1>2. \A k \in Keys(by) : DOMAIN k = 1 .. n /\ \A i \in 1 .. n : k[i] \in Spellings /\ Rank[k[i]] \in Int
  <2>1. Rank \in [Spellings -> Int]
    BY QueryAssumption
  <2> QED BY <1>1, <2>1 DEF Keys
<1>3. \A x, y \in Spellings : Rank[x] = Rank[y] => x = y
  BY QueryAssumption DEF IsInjective
<1> HIDE DEF n
<1>4. ~keyBefore(a, a)
  <2>1. \A i \in 1 .. n : Rank[a[i]] \in Int
    BY <1>2
  <2>2. \A i \in DOMAIN a : ~(Rank[a[i]] < Rank[a[i]])
    BY <1>1, <2>1
  <2> QED BY <2>2 DEF keyBefore
<1>5. ASSUME a # b PROVE keyBefore(a, b) \/ keyBefore(b, a)
  <2> DEFINE T == {i \in 1 .. n : a[i] # b[i]}
  <2>1. T # {}
    <3>1. a = [i \in 1 .. n |-> a[i]] /\ b = [i \in 1 .. n |-> b[i]]
      BY <1>1 DEF Keys
    <3> QED BY <1>5, <3>1
  <2>2. PICK i \in T : \A k \in T : i <= k
    <3>1. T \in SUBSET Nat
      OBVIOUS
    <3> HIDE DEF T
    <3> QED BY <2>1, <3>1, LeastNatural
  <2>3. \A j \in 1 .. i - 1 : j \in 1 .. n /\ j \notin T
    BY <1>1, <2>2
  <2>4. \A j \in 1 .. i - 1 : a[j] = b[j] /\ b[j] = a[j]
    BY <2>3
  <2>5. Rank[a[i]] < Rank[b[i]] \/ Rank[b[i]] < Rank[a[i]]
    BY <1>2, <1>3
  <2>6. i \in DOMAIN a /\ i \in DOMAIN b
    BY <1>1
  <2> QED BY <2>4, <2>5, <2>6 DEF keyBefore
<1>6. ASSUME NEW c \in Keys(by), keyBefore(a, b), keyBefore(b, c) PROVE keyBefore(a, c)
  <2>1. PICK i \in 1 .. n : Rank[a[i]] < Rank[b[i]] /\ \A k \in 1 .. i - 1 : a[k] = b[k]
    BY <1>1, <1>6 DEF keyBefore
  <2>2. PICK j \in 1 .. n : Rank[b[j]] < Rank[c[j]] /\ \A k \in 1 .. j - 1 : b[k] = c[k]
    BY <1>1, <1>6 DEF keyBefore
  <2>3. Rank[a[i]] \in Int /\ Rank[b[i]] \in Int /\ Rank[c[i]] \in Int
        /\ Rank[a[j]] \in Int /\ Rank[b[j]] \in Int /\ Rank[c[j]] \in Int
    BY <1>2
  <2>4. CASE i <= j
    <3>1. Rank[a[i]] < Rank[c[i]]
      <4>1. CASE i = j
        BY <2>1, <2>2, <2>3, <4>1
      <4>2. CASE i # j
        <5>1. i \in 1 .. j - 1
          BY <2>4, <4>2
        <5> QED BY <2>1, <2>2, <5>1
      <4> QED BY <4>1, <4>2
    <3>2. \A k \in 1 .. i - 1 : a[k] = c[k]
      <4>1. \A k \in 1 .. i - 1 : k \in 1 .. j - 1
        BY <2>4
      <4> QED BY <2>1, <2>2, <4>1
    <3> QED BY <1>1, <3>1, <3>2 DEF keyBefore
  <2>5. CASE j < i
    <3>1. j \in 1 .. i - 1
      BY <2>5
    <3>2. Rank[a[j]] < Rank[c[j]]
      BY <2>1, <2>2, <3>1
    <3>3. \A k \in 1 .. j - 1 : a[k] = c[k]
      <4>1. \A k \in 1 .. j - 1 : k \in 1 .. i - 1
        BY <2>5
      <4> QED BY <2>1, <2>2, <4>1
    <3> QED BY <1>1, <3>2, <3>3 DEF keyBefore
  <2> QED BY <2>4, <2>5
<1> QED BY <1>4, <1>5, <1>6

\* Rows of an answer: finitely many, of different keys.
Answer(by, X) ==
    /\ IsFiniteSet(X) /\ \A x \in X : x.key \in Keys(by)
    /\ \A x, y \in X : x.key = y.key => x = y

\* How many rows go before x.
Place(X, x) == Cardinality({y \in X : keyBefore(y.key, x.key)})

LEMMA PlaceIs ==
    ASSUME NEW by \in Seq(Dims), NEW X, Answer(by, X), NEW x \in X, NEW y \in X
    PROVE  /\ Place(X, x) \in Nat /\ Place(X, y) \in Nat
           /\ keyBefore(x.key, y.key) <=> Place(X, x) < Place(X, y)
<1> DEFINE B(z) == {w \in X : keyBefore(w.key, z.key)}
<1>1. IsFiniteSet(X) /\ \A z \in X : z.key \in Keys(by)
  BY DEF Answer
<1>2. \A z \in X : IsFiniteSet(B(z)) /\ Cardinality(B(z)) \in Nat
  <2> SUFFICES ASSUME NEW z \in X PROVE IsFiniteSet(B(z)) /\ Cardinality(B(z)) \in Nat
    OBVIOUS
  <2>1. B(z) \in SUBSET X
    OBVIOUS
  <2> HIDE DEF B
  <2>2. IsFiniteSet(B(z))
    BY <1>1, <2>1, FS_Subset
  <2> QED BY <2>2, FS_CardinalityType
<1>3. \A z \in X : Place(X, z) = Cardinality(B(z))
  BY DEF Place
<1>4. ASSUME NEW s \in X, NEW t \in X, keyBefore(s.key, t.key)
      PROVE  Cardinality(B(s)) < Cardinality(B(t))
  <2>1. B(s) \subseteq B(t)
    <3> SUFFICES ASSUME NEW w \in X, keyBefore(w.key, s.key) PROVE keyBefore(w.key, t.key)
      OBVIOUS
    <3>1. w.key \in Keys(by) /\ s.key \in Keys(by) /\ t.key \in Keys(by)
      BY <1>1
    <3> QED BY <1>4, <3>1, KeyOrders
  <2>2. s \in B(t) /\ s \notin B(s)
    BY <1>1, <1>4, KeyOrders
  <2> HIDE DEF B
  <2>3. Cardinality(B(s)) <= Cardinality(B(t)) /\ Cardinality(B(s)) # Cardinality(B(t))
    BY <1>2, <2>1, <2>2, FS_Subset
  <2> QED BY <1>2, <2>3
<1> HIDE DEF B
<1>5. keyBefore(x.key, y.key) => Place(X, x) < Place(X, y)
  BY <1>3, <1>4
<1>6. ASSUME ~keyBefore(x.key, y.key) PROVE ~(Place(X, x) < Place(X, y))
  <2>1. x.key \in Keys(by) /\ y.key \in Keys(by)
    BY <1>1
  <2>2. x.key = y.key \/ keyBefore(y.key, x.key)
    BY <1>6, <2>1, KeyOrders
  <2>3. CASE x.key = y.key
    <3>1. Place(X, x) = Place(X, y)
      BY <2>3 DEF Place
    <3> QED BY <1>2, <1>3, <3>1
  <2>4. CASE keyBefore(y.key, x.key)
    <3>1. Place(X, y) < Place(X, x)
      BY <1>3, <1>4, <2>4
    <3> QED BY <1>2, <1>3, <3>1
  <2> QED BY <2>2, <2>3, <2>4
<1> QED BY <1>2, <1>3, <1>5, <1>6


InsertRow(c, t, x) == Insert(t, x, LAMBDA a, b : keyBefore(a.key, b.key))

RowOrders == INSTANCE Loops WITH Op <- InsertRow, Inv <- SortTo

LEMMA SortedRows ==
    ASSUME NEW by \in Seq(Dims), NEW s, s \in Seq(Range(s)), \A g \in DOMAIN s : s[g].key \in Keys(by),
           \A g, h \in DOMAIN s : s[g].key = s[h].key => g = h
    PROVE  LET t == Sorted(s, LAMBDA a, b : keyBefore(a.key, b.key))
           IN  /\ Range(t) = Range(s)
               /\ \A g \in 1 .. Len(t) - 1 : keyBefore(t[g].key, t[g + 1].key)
<1> DEFINE X == Range(s)
           N == Len(s)
           f == [x \in X |-> Place(X, x)]
           c == [X |-> X, f |-> f]
           t == Sorted(s, LAMBDA a, b : keyBefore(a.key, b.key))
<1>1. N \in Nat /\ DOMAIN s = 1 .. N /\ s \in Seq(X) /\ \A i \in 1 .. N : s[i] \in X
  <2>1. s \in Seq(X)
    OBVIOUS
  <2> HIDE DEF X
  <2> QED BY <2>1
<1>2. IsFiniteSet(X) /\ Cardinality(X) = N
  <2>1. \A i, j \in 1 .. N : s[i] = s[j] => i = j
    BY <1>1
  <2>2. X = {s[i] : i \in 1 .. N}
    BY <1>1 DEF Range
  <2>3. Lists(s, N, X)
    BY <1>1, <2>1, <2>2 DEF Lists
  <2> HIDE DEF X, N
  <2> QED BY <1>1, <2>3, ListSize
<1>3. Answer(by, X)
  <2>1. \A x \in X : \E i \in DOMAIN s : s[i] = x
    BY DEF Range
  <2> HIDE DEF X
  <2>2. \A x \in X : x.key \in Keys(by)
    BY <2>1
  <2>3. \A x, y \in X : x.key = y.key => x = y
    BY <2>1
  <2> QED BY <1>2, <2>2, <2>3 DEF Answer
<1>4. t = RowOrders!Fold(c, <<>>, s)
  BY DEF Sorted, FoldLeft, MapThenFoldSet, Max, RowOrders!Fold, RowOrders!MapThenFoldSet, RowOrders!Top, InsertRow
<1> HIDE DEF X, N, t
<1>5. f \in [X -> Int] /\ \A x \in X : f[x] = Place(X, x)
  BY <1>3, PlaceIs
<1>6. \A x, y \in X : keyBefore(x.key, y.key) <=> f[x] < f[y]
  BY <1>3, <1>5, PlaceIs
<1> HIDE DEF f
<1>7. SortTo(c, s, 0, <<>>)
  BY SortStart
<1>8. ASSUME NEW n \in 0 .. N - 1, NEW u, SortTo(c, s, n, u)
      PROVE  SortTo(c, s, n + 1, InsertRow(c, u, s[n + 1]))
  <2> DEFINE T == {i \in DOMAIN u : ~keyBefore(s[n + 1].key, u[i].key)}
  <2>1. InsertRow(c, u, s[n + 1]) = InsertAt(u, Cardinality(T) + 1, s[n + 1])
    BY DEF InsertRow, Insert
  <2>2. u \in Seq(X) /\ s[n + 1] \in X /\ n \in 0 .. Len(s) - 1
    BY <1>1, <1>8 DEF SortTo, N
  <2>3. T \in SUBSET DOMAIN u /\ \A i \in DOMAIN u : i \in T <=> f[u[i]] <= f[s[n + 1]]
    <3>1. \A i \in DOMAIN u : u[i] \in X /\ f[u[i]] \in Int /\ f[s[n + 1]] \in Int
      BY <1>5, <2>2, ElementOf
    <3>2. \A i \in DOMAIN u : keyBefore(s[n + 1].key, u[i].key) <=> f[s[n + 1]] < f[u[i]]
      BY <1>6, <2>2, <3>1
    <3> QED BY <3>1, <3>2
  <2> HIDE DEF T
  <2>4. s \in Seq(X) /\ f \in [X -> Int]
    BY <1>1, <1>5
  <2> DEFINE w == InsertAt(u, Cardinality(T) + 1, s[n + 1])
  <2>5. SortTo(c, s, n + 1, w)
    BY <1>8, <2>2, <2>3, <2>4, SortStep
  <2> QED BY <2>1, <2>5
<1>9. SortTo(c, s, N, t)
  <2> HIDE DEF c
  <2> QED BY <1>1, <1>4, <1>7, <1>8, RowOrders!FoldInvariant
<1>10. t \in Seq(X) /\ Len(t) = N /\ Ascends(f, t) /\ Range(t) = {s[i] : i \in 1 .. N}
  BY <1>9 DEF SortTo
<1>11. Range(t) = X
  BY <1>1, <1>10 DEF Range, X
<1>12. \A i, j \in 1 .. N : t[i] = t[j] => i = j
  <2> DEFINE I == 1 .. N
  <2>1. IsFiniteSet(I) /\ Cardinality(I) = N
    BY <1>1, FS_Interval
  <2>2. DOMAIN t = I /\ \A i \in I : t[i] \in X
    BY <1>10
  <2>3. t \in [I -> X] /\ \A x \in X : \E i \in I : t[i] = x
    BY <1>10, <1>11, <2>2 DEF Range
  <2>4. t \in Surjection(I, X)
    BY <2>3 DEF Surjection
  <2> HIDE DEF I
  <2>5. t \in Injection(I, X)
    BY <1>2, <2>1, <2>4, FS_SurjSameCardinalityImpliesInj
  <2> QED BY <2>5 DEF Injection, IsInjective, I
<1>13. ASSUME NEW g \in 1 .. Len(t) - 1 PROVE keyBefore(t[g].key, t[g + 1].key)
  <2>1. g \in 1 .. N /\ g + 1 \in 1 .. N /\ g # g + 1 /\ g <= g + 1 /\ DOMAIN t = 1 .. N
    BY <1>1, <1>10
  <2> DEFINE x == t[g]
             y == t[g + 1]
  <2>2. x \in X /\ y \in X /\ x # y /\ f[x] <= f[y]
    BY <1>10, <1>12, <2>1, ElementOf DEF Ascends
  <2> HIDE DEF x, y
  <2>3. x.key \in Keys(by) /\ y.key \in Keys(by) /\ x.key # y.key
    BY <1>3, <2>2 DEF Answer
  <2>4. ~keyBefore(y.key, x.key)
    BY <1>5, <1>6, <2>2
  <2>5. keyBefore(x.key, y.key)
    BY <2>3, <2>4, KeyOrders
  <2> QED BY <2>5 DEF x, y
<1> QED BY <1>11, <1>13 DEF t, X


-----------------------------------------------------------------------------
(* Group by: every call.                                                      *)

\* Rows answer the rows wanted, D, group by group, ascending by key.
ByKey(by, aggs, D, t) ==
    /\ Range(t) = ExpectedGroups(by, aggs, D)
    /\ \A g \in 1 .. Len(t) - 1 : keyBefore(t[g].key, t[g + 1].key)

LEMMA ExpectedIs ==
    ASSUME NEW by, NEW aggs, NEW D
    PROVE  ExpectedGroups(by, aggs, D) = {KeyRow(by, aggs, D, k) : k \in {KeyOf(by, x) : x \in D}}
BY DEF ExpectedGroups, KeyRow, Keyed, KeyOf

LEMMA GroupByAnswers ==
    ASSUME NEW v \in Views, NEW by \in Seq(Dims), NEW aggs, FewCols(aggs), NEW M, NEW D, Listed(v, M, D)
    PROVE  ByKey(by, aggs, D, groupBy(v, by, aggs, M))
<1>1. M \in Seq(ColRow)
  BY DEF Listed
<1>2. PICK groups, seen : /\ GroupsOf(by, aggs, M) = [groups |-> groups, seen |-> seen]
                          /\ GroupState(by, aggs, M, Len(M), groups, seen)
  BY <1>1, GroupsOfIs DEF Regroups
<1> DEFINE out == Outs(v, by, aggs, groups)
           t == Sorted(out, LAMBDA a, b : keyBefore(a.key, b.key))
<1>3. GroupsOf(by, aggs, M).groups = groups
  BY <1>2
<1>4. groupBy(v, by, aggs, M) = t
  BY <1>3 DEF groupBy, GroupsOf, Outs, OutRow, StringsOf
<1>5. /\ Range(out) = {KeyRow(by, aggs, D, k) : k \in {KeyOf(by, x) : x \in D}}
      /\ \A g, h \in DOMAIN groups : out[g].key = out[h].key => g = h
      /\ \A g \in DOMAIN groups : out[g].key \in Keys(by)
  BY <1>2, OutsAre
<1>6. out \in Seq(Range(out)) /\ DOMAIN out = DOMAIN groups
  <2> DEFINE N == Len(groups)
  <2>1. N \in Nat /\ DOMAIN groups = 1 .. N
    BY <1>2 DEF GroupState
  <2>2. out = [g \in 1 .. N |-> OutRow(v, by, aggs, groups[g])]
    BY <2>1 DEF Outs
  <2> HIDE DEF N, out
  <2>3. DOMAIN out = 1 .. N /\ \A g \in 1 .. N : out[g] \in Range(out)
    BY <2>2 DEF Range
  <2>4. out \in Seq(Range(out))
    <3> DEFINE R == Range(out)
    <3> HIDE DEF R
    <3>1. \A g \in 1 .. N : OutRow(v, by, aggs, groups[g]) \in R
      BY <2>2, <2>3 DEF R
    <3>2. out \in Seq(R)
      BY <2>1, <2>2, <3>1
    <3> QED BY <3>2 DEF R
  <2> QED BY <2>1, <2>3, <2>4
<1> HIDE DEF out
<1>7. Range(t) = Range(out) /\ \A g \in 1 .. Len(t) - 1 : keyBefore(t[g].key, t[g + 1].key)
  BY <1>5, <1>6, SortedRows
<1> HIDE DEF t
<1> QED BY <1>4, <1>5, <1>7, ExpectedIs DEF ByKey

LEMMA RunGroups ==
    ASSUME NEW q \in Queries, Len(q.aggs) <= 2^8, q.kind = "by", NEW v \in Views, NEW now \in Time,
           NEW s, Serves(s, measureShape(q))
    PROVE  LET r == run(s, q, v, now)
           IN  ~r.err /\ ~r.over => ByKey(q.by, q.aggs, Selected(v, q.groups, now), r.value)
<1> DEFINE plans == PlansOf(s, q, v)
           r == runPlans(s, q, v, now, plans)
           M == matched(v, plans, now)
           D == Selected(v, q.groups, now)
<1>1. run(s, q, v, now) = r
  BY DEF run, PlansOf
<1>2. r.err = (~Accepted(q) \/ planFails(q.groups, plans))
  BY DEF runPlans
<1>3. ~r.err /\ ~r.over => r.value = groupBy(v, q.by, q.aggs, M)
  BY DEF runPlans
<1>4. ~r.err => Accepted(q) /\ ~planFails(q.groups, plans)
  <2> HIDE DEF r, plans
  <2> QED BY <1>2
<1>5. ~r.err => Planned(v, q.groups, plans)
  BY <1>4, PlansPlanned
<1> HIDE DEF r, plans
<1>6. ~r.err => Listed(v, M, D)
  BY <1>5, MatchedIs DEF Listed
<1> HIDE DEF M, D
<1>7. ASSUME ~r.err, ~r.over PROVE ByKey(q.by, q.aggs, D, r.value)
  <2> DEFINE by == q.by
  <2>1. aggsOK(q.aggs) /\ byOK(q.by)
    BY <1>4, <1>7 DEF Accepted
  <2>2. by \in Seq(Dims)
    <3>1. by \in Seq(Dims \cup Spellings) /\ Range(by) \subseteq Dims
      BY <2>1, CallsAssumption DEF byOK
    <3> HIDE DEF by
    <3>2. Len(by) \in Nat /\ by = [i \in 1 .. Len(by) |-> by[i]] /\ \A i \in 1 .. Len(by) : by[i] \in Dims
      BY <3>1 DEF Range
    <3> QED BY <3>2
  <2>3. FewCols(q.aggs)
    BY <2>1, CallsAssumption DEF FewCols
  <2> QED BY <1>3, <1>6, <1>7, <2>2, <2>3, GroupByAnswers
<1> QED BY <1>1, <1>7 DEF D

LEMMA CallGroups ==
    ASSUME QueryInv, NEW q \in Queries, Len(q.aggs) <= 2^8, NEW now \in Clocks, Call(q, now)
    PROVE  GroupsExact'
<1> DEFINE sh == measureShape(q)
<1>1. view \in Views /\ (\A s \in pool : Clean(s)) /\ sh \in Shapes /\ now \in Time
  BY ShapeIs, CallsAssumption DEF QueryInv
<1>2. PICK l \in leases(sh) :
        /\ last' = {[query |-> q, now |-> now, onStack |-> l.onStack, cap |-> l.s.cap,
                     err |-> run(l.s, q, view, now).err, over |-> run(l.s, q, view, now).over,
                     lengths |-> run(l.s, q, view, now).lengths,
                     visited |-> run(l.s, q, view, now).visited, value |-> run(l.s, q, view, now).value]}
        /\ UNCHANGED view
  BY DEF Call
<1> DEFINE s == l.s
           r == run(s, q, view, now)
<1>3. Serves(s, sh)
  <2> HIDE DEF sh
  <2> QED BY <1>1, LeasesServe
<1>4. q.kind = "by" /\ ~r.err /\ ~r.over => ByKey(q.by, q.aggs, Selected(view, q.groups, now), r.value)
  BY <1>1, <1>3, RunGroups
<1> HIDE DEF r, s, sh
<1> DEFINE c == [query |-> q, now |-> now, onStack |-> l.onStack, cap |-> s.cap,
                 err |-> r.err, over |-> r.over, lengths |-> r.lengths,
                 visited |-> r.visited, value |-> r.value]
<1>5. last' = {c} /\ view' = view
  BY <1>2 DEF r, s
<1>6. c.query = q /\ c.now = now /\ c.err = r.err /\ c.over = r.over /\ c.value = r.value
  OBVIOUS
<1> HIDE DEF c
<1> QED BY <1>4, <1>5, <1>6 DEF GroupsExact, ByKey, Wanted

\* A group-by answers with one row for each key among the rows wanted, holding
\* the aggregates of exactly the rows of that key, and strictly ascending by the
\* strings of the keys: however rows of a group are spread over base and delta,
\* and whatever order their ids come in.  It holds of queries of at most 2^8
\* columns, which is what keeps the seen triples of distinct columns apart, their
\* column being kept in a uint8: beyond that DistinctPerColumn fails.
THEOREM GroupsAlwaysExact == ASSUME \A q \in Queries : Len(q.aggs) <= 2^8 PROVE Spec => []GroupsExact
<1>1. Init => GroupsExact
  BY DEF Init, GroupsExact
<1>2. QueryInv /\ GroupsExact /\ [Next]_vars => GroupsExact'
  <2> SUFFICES ASSUME QueryInv, GroupsExact, [Next]_vars PROVE GroupsExact'
    OBVIOUS
  <2>1. ASSUME NEW q \in Queries, NEW now \in Clocks, Call(q, now) PROVE GroupsExact'
    BY <2>1, CallGroups
  <2>2. CASE Return
    BY <2>2 DEF Return, GroupsExact
  <2>3. CASE Evict
    BY <2>3 DEF Evict, GroupsExact
  <2>4. CASE Publish
    BY <2>4 DEF Publish, GroupsExact
  <2>5. CASE UNCHANGED vars
    BY <2>5 DEF vars, GroupsExact, Wanted
  <2> QED BY <2>1, <2>2, <2>3, <2>4, <2>5 DEF Next
<1> QED BY <1>1, <1>2, QueryInvariant, PTL DEF Spec


\* Equal columns of a group-by of at most 2^8 columns hold equal values
\* (groupby.go narrows a column to a uint8): no counterexample to
\* DistinctPerColumn has fewer than 2^8 + 1 columns.
THEOREM FewColumnsDistinct == ASSUME \A q \in Queries : Len(q.aggs) <= 2^8 PROVE Spec => []DistinctPerColumn
<1>1. GroupsExact => DistinctPerColumn
  <2> SUFFICES ASSUME GroupsExact, NEW c \in last, c.query.kind = "by", ~c.err, ~c.over,
                      NEW g \in DOMAIN c.value, NEW i \in DOMAIN c.query.aggs, NEW j \in DOMAIN c.query.aggs,
                      c.query.aggs[i] = c.query.aggs[j]
               PROVE  c.value[g].aggs[i] = c.value[g].aggs[j]
    BY DEF DistinctPerColumn
  <2> DEFINE q == c.query
             D == Wanted(c)
             row == c.value[g]
  <2>1. Range(c.value) = {KeyRow(q.by, q.aggs, D, k) : k \in {KeyOf(q.by, x) : x \in D}}
    BY ExpectedIs DEF GroupsExact
  <2>2. row \in Range(c.value)
    BY DEF Range
  <2> HIDE DEF D, row
  <2>3. PICK k : row = KeyRow(q.by, q.aggs, D, k)
    BY <2>1, <2>2
  <2>4. row.aggs = [n \in DOMAIN q.aggs |-> Expected(q.aggs[n], Keyed(q.by, D, k))]
    BY <2>3 DEF KeyRow
  <2> QED BY <2>4 DEF row
<1> QED BY <1>1, GroupsAlwaysExact, PTL
=============================================================================
