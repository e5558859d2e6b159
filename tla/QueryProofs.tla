----------------------------- MODULE QueryProofs -----------------------------
(* The query path for every table, every query and every size of scratch:     *)
(* the pool keeps no query's data, the scan budget counts what the sweep      *)
(* visits, and no slice of a scratch outgrows its capacity.                   *)
EXTENDS QueryLemmas

-----------------------------------------------------------------------------
(* What a call leaves in the pool.                                            *)

LEMMA ReleasedClean ==
    ASSUME NEW s, Clean(s), NEW q \in Queries, NEW v, NEW now, NEW plans,
           NEW x \in released(runPlans(s, q, v, now, plans).scratch, resolved(q))
    PROVE  Clean(x)
<1>1. PICK cap, acc0, bms0 : s = [cap |-> cap, acc |-> acc0, bms |-> bms0]
  BY DEF Clean, IsScratch
<1>2. /\ cap \in [Parts -> Nat] /\ DOMAIN acc0 = 1 .. cap["aggs"] /\ DOMAIN bms0 = 1 .. cap["aggs"]
      /\ \A j \in DOMAIN bms0 : bms0[j] = <<>>
  BY <1>1 DEF Clean
<1> DEFINE bms == bitmaps(s, q)
           t == runPlans(s, q, v, now, plans).scratch
           n == Len(q.aggs)
<1>3. n \in Nat
  BY CallsAssumption
<1>4. DOMAIN bms = DOMAIN bms0 /\ \A j \in DOMAIN bms0 : resolved(q) = 0 \/ j > n => bms[j] = <<>>
  <2>1. CASE q.kind # "aggs" \/ ~aggsOK(q.aggs)
    BY <1>1, <1>2, <2>1 DEF bitmaps
  <2>2. CASE ~(q.kind # "aggs" \/ ~aggsOK(q.aggs))
    <3>1. n # 0 /\ resolved(q) = n
      BY <2>2, CallsAssumption DEF resolved, aggsOK
    <3> QED BY <1>1, <1>2, <2>2, <3>1 DEF bitmaps
  <2> QED BY <2>1, <2>2
<1>5. resolved(q) \in {0, n}
  BY DEF resolved
<1>6. \E acc1, bms1 : /\ t = [cap |-> cap, acc |-> acc1, bms |-> bms1]
                      /\ DOMAIN acc1 = DOMAIN acc0 /\ DOMAIN bms1 = DOMAIN bms0
                      /\ \A j \in DOMAIN bms0 : bms[j] = <<>> => bms1[j] = <<>>
  <2> DEFINE err == ~Accepted(q) \/ planFails(q.groups, plans)
             over == ~err /\ overBudget(v, plans)
             rows == matched(v, plans, now)
             acc == zeroed(s.acc, Len(q.aggs))
             start == [j \in DOMAIN q.aggs |-> [acc |-> acc[j], bm |-> IF bms[j] = <<>> THEN {} ELSE bms[j][1]]]
             cols == foldAggs(q.aggs, start, rows)
             folds == q.kind = "aggs" /\ ~err /\ ~over
             acc1 == IF folds THEN [j \in DOMAIN acc |-> IF j > Len(cols) THEN acc[j] ELSE cols[j].acc] ELSE acc0
             bms1 == IF folds THEN [j \in DOMAIN bms |-> IF bms[j] # <<>> /\ j <= Len(cols)
                                                          THEN <<cols[j].bm>> ELSE bms[j]]
                     ELSE bms
  <2>1. t = [s EXCEPT !.acc = IF folds THEN [j \in DOMAIN acc |-> IF j > Len(cols) THEN acc[j] ELSE cols[j].acc] ELSE @,
             !.bms = bms1]
    BY DEF runPlans
  <2>0. DOMAIN acc = DOMAIN acc0
    BY <1>1 DEF zeroed
  <2> HIDE DEF t, err, over, rows, acc, start, cols
  <2>2. t = [cap |-> cap, acc |-> acc1, bms |-> bms1]
    BY <1>1, <2>1
  <2> HIDE DEF bms
  <2>3. DOMAIN acc1 = DOMAIN acc0
    BY <2>0
  <2>4. DOMAIN bms1 = DOMAIN bms0 /\ \A j \in DOMAIN bms0 : bms[j] = <<>> => bms1[j] = <<>>
    BY <1>4
  <2> QED BY <2>2, <2>3, <2>4
<1>7. PICK acc1, bms1 : /\ t = [cap |-> cap, acc |-> acc1, bms |-> bms1]
                        /\ DOMAIN acc1 = DOMAIN acc0 /\ DOMAIN bms1 = DOMAIN bms0
                        /\ \A j \in DOMAIN bms0 : bms[j] = <<>> => bms1[j] = <<>>
  BY <1>6
<1> DEFINE bms2 == [j \in DOMAIN bms1 |-> IF j <= resolved(q) THEN <<>> ELSE bms1[j]]
<1> HIDE DEF t, bms, n
<1>8. x = [t EXCEPT !.bms = [j \in DOMAIN t.bms |-> IF j <= resolved(q) THEN <<>> ELSE t.bms[j]]]
  BY DEF released, unpinned, t
<1>9. x = [cap |-> cap, acc |-> acc1, bms |-> bms2]
  BY <1>7, <1>8
<1>10. ASSUME NEW j \in DOMAIN bms0 PROVE bms2[j] = <<>>
  <2>1. j \in Nat /\ resolved(q) \in Nat /\ cap["aggs"] \in Nat
    BY <1>2, <1>3, <1>5 DEF Parts
  <2>2. CASE j <= resolved(q)
    BY <1>7, <2>2
  <2>3. CASE ~(j <= resolved(q))
    BY <1>3, <1>4, <1>5, <1>7, <2>1, <2>3
  <2> QED BY <2>2, <2>3
<1> HIDE DEF bms2
<1>11. DOMAIN bms2 = DOMAIN bms0
  BY <1>7 DEF bms2
<1>12. x.cap = cap /\ x.acc = acc1 /\ x.bms = bms2
  BY <1>9
<1> QED BY <1>2, <1>7, <1>9, <1>10, <1>11, <1>12 DEF Clean, IsScratch

-----------------------------------------------------------------------------
(* What a call is given and what it does with it.                             *)

\* A scratch with room for a shape.
Serves(s, sh) ==
    /\ Clean(s)
    /\ \A p \in Parts \ {"ivs"} : sh[p] <= s.cap[p]
    /\ sh.plans <= s.cap["ivs"]

LEMMA LeasesServe ==
    ASSUME NEW sh \in Shapes, \A s \in pool : Clean(s), NEW l \in leases(sh)
    PROVE  Serves(l.s, sh)
<1>0. \A p \in Parts : sh[p] \in Nat
  BY ShapeAt
<1>1. CASE fits(sh)
  <2>1. l.s = newScratch(Fast)
    BY <1>1 DEF leases
  <2>2. Fast \in [Parts -> Nat] /\ Fast["plans"] <= Fast["ivs"] /\ "plans" \in Parts /\ "ivs" \in Parts
    BY ScratchAssumption DEF Parts
  <2>3. Clean(l.s) /\ l.s.cap = Fast
    BY <2>1, <2>2, NewScratchClean
  <2>4. \A p \in Parts \ {"ivs"} : sh[p] <= Fast[p]
    BY <1>1 DEF fits
  <2>5. sh.plans <= Fast["plans"]
    BY <2>4 DEF Parts
  <2>6. sh.plans <= Fast["ivs"]
    BY <1>0, <2>2, <2>5
  <2> QED BY <2>3, <2>4, <2>6 DEF Serves
<1>2. CASE ~fits(sh)
  <2> DEFINE none == newScratch([p \in Parts |-> 0])
  <2>1. PICK s \in pool \cup {x \in {none} : Cardinality(pool) < MaxPool} :
           l = [onStack |-> FALSE, from |-> {s}, s |-> grow(s, sh)]
    BY <1>2 DEF leases
  <2>2. Clean(none)
    <3>1. [p \in Parts |-> 0] \in [Parts -> Nat]
      OBVIOUS
    <3> QED BY <3>1, NewScratchClean
  <2> HIDE DEF none
  <2>3. Clean(s)
    BY <2>1, <2>2
  <2>4. Clean(grow(s, sh)) /\ \A p \in Parts : grow(s, sh).cap[p] >= Needs(sh)[p]
    BY <2>3, GrowClean
  <2>5. l.s = grow(s, sh)
    BY <2>1
  <2> DEFINE cap == grow(s, sh).cap
  <2>6. cap \in [Parts -> Nat] /\ \A p \in Parts : cap[p] >= Needs(sh)[p]
    BY <2>4 DEF Clean
  <2>7. /\ \A p \in Parts \ {"ivs"} : Needs(sh)[p] = sh[p]
        /\ Needs(sh)["ivs"] >= sh.plans /\ \A p \in Parts : Needs(sh)[p] \in Nat
    BY ShapeAt
  <2> HIDE DEF cap
  <2>8. \A p \in Parts \ {"ivs"} : sh[p] <= cap[p]
    BY <1>0, <2>6, <2>7
  <2>9. sh.plans <= cap["ivs"]
    <3>1. "ivs" \in Parts /\ "plans" \in Parts
      BY DEF Parts
    <3>2. sh.plans \in Nat /\ Needs(sh)["ivs"] \in Nat /\ cap["ivs"] \in Nat /\ cap["ivs"] >= Needs(sh)["ivs"]
      BY <1>0, <2>6, <2>7, <3>1
    <3> QED BY <2>7, <3>2
  <2> QED BY <2>4, <2>5, <2>8, <2>9 DEF Serves, cap
<1> QED BY <1>1, <1>2

\* The plans a call is run with.
PlansOf(s, q, v) == IF Accepted(q) THEN planAll(v, q.groups, s.cap["ivs"]) ELSE <<>>

LEMMA PlansOfWithin ==
    ASSUME NEW q \in Queries, NEW v \in Views, NEW s, Serves(s, measureShape(q))
    PROVE  /\ s.cap["ivs"] \in Nat /\ q.groups \in Seq(Seq(Conds))
           /\ \E n \in 0 .. Len(q.groups) : PlansWithin(v, q.groups, s.cap["ivs"], PlansOf(s, q, v), n)
<1> DEFINE cap == s.cap["ivs"]
           groups == q.groups
<1>1. groups \in Seq(Seq(Conds))
  BY CallsAssumption
<1>2. cap \in Nat
  BY DEF Serves, Clean, Parts
<1>3. Len(groups) <= cap
  BY ShapeIs DEF Serves
<1> HIDE DEF cap, groups
<1>4. Len(groups) \in Nat /\ cap \in Int
  BY <1>1, <1>2
<1>5. PlansWithin(v, groups, cap, planAll(v, groups, cap), Len(groups))
  BY <1>1, <1>3, <1>4, PlanAllIs
<1>6. PlansWithin(v, groups, cap, <<>>, 0)
  BY <1>1, <1>3, <1>4, NoPlans
<1> QED BY <1>1, <1>2, <1>4, <1>5, <1>6 DEF PlansOf, cap, groups

\* No slice is extended beyond its capacity.
LEMMA RunFits ==
    ASSUME NEW q \in Queries, NEW v \in Views, NEW s, Serves(s, measureShape(q)), NEW p \in Parts
    PROVE  lengths(q, PlansOf(s, q, v))[p] <= s.cap[p]
<1> DEFINE cap == s.cap["ivs"]
           groups == q.groups
           plans == PlansOf(s, q, v)
<1>1. /\ cap \in Nat /\ groups \in Seq(Seq(Conds))
      /\ \E n \in 0 .. Len(groups) : PlansWithin(v, groups, cap, plans, n)
  BY PlansOfWithin
<1> HIDE DEF plans, cap, groups
<1>2. PICK n \in 0 .. Len(groups) : PlansWithin(v, groups, cap, plans, n)
  BY <1>1
<1>3. lengths(q, plans) =
        [plans |-> Len(groups), ivs |-> Len(intervals(plans)), conds |-> TotalTakes(plans, "conds"),
         inWins |-> TotalTakes(plans, "inWins"), inPool |-> TotalTakes(plans, "inPool"),
         rWins |-> TotalTakes(plans, "rWins"), aggs |-> Len(q.aggs)]
  BY DEF lengths, TotalTakes, groups
<1>4. CASE p = "ivs"
  <2>1. plans \in Seq(PlanSet(v)) /\ Len(plans) <= n /\ Len(intervals(plans)) <= cap - (Len(groups) - Len(plans))
    BY <1>2 DEF PlansWithin
  <2>2. Len(intervals(plans)) \in Nat /\ Len(plans) \in Nat /\ Len(groups) \in Nat
    BY <1>1, <2>1, IntervalsOf
  <2>3. Len(intervals(plans)) <= cap
    BY <1>1, <2>1, <2>2
  <2> QED BY <1>3, <1>4, <2>3 DEF cap, plans
<1>5. CASE p \in CondParts
  <2>1. lengths(q, plans)[p] = TotalTakes(plans, p)
    BY <1>3, <1>5 DEF CondParts
  <2>2. TotalTakes(plans, p) \in Nat /\ TotalNeeds(groups, p) \in Nat /\ TotalTakes(plans, p) <= TotalNeeds(groups, p)
    BY <1>1, <1>2, <1>5, TotalsIn
  <2>3. measureShape(q)[p] = TotalNeeds(groups, p)
    BY <1>5, ShapeIs DEF groups
  <2>4. measureShape(q)[p] <= s.cap[p] /\ s.cap[p] \in Nat
    BY <1>5 DEF CondParts, Parts, Serves, Clean
  <2> QED BY <2>1, <2>2, <2>3, <2>4 DEF plans
<1>6. CASE p \in {"plans", "aggs"}
  <2>1. measureShape(q)[p] <= s.cap[p]
    BY <1>6 DEF Parts, Serves
  <2>2. measureShape(q).plans = Len(groups) /\ measureShape(q).aggs = Len(q.aggs)
    BY ShapeIs DEF groups
  <2> QED BY <1>3, <1>6, <2>1, <2>2 DEF plans
<1> QED BY <1>4, <1>5, <1>6 DEF plans, Parts, CondParts

\* A query that is not refused as wrong is over budget if and only if its sweep is.
LEMMA RunBudget ==
    ASSUME NEW q \in Queries, NEW v \in Views, NEW s, Serves(s, measureShape(q)), NEW now,
           ~run(s, q, v, now).err, MaxScanRows > 0
    PROVE  run(s, q, v, now).over <=> run(s, q, v, now).visited > MaxScanRows
<1> DEFINE plans == PlansOf(s, q, v)
           r == run(s, q, v, now)
           n == Len(sweep(sortedIvs(plans)))
<1>1. r = runPlans(s, q, v, now, plans)
  BY DEF run, PlansOf
<1>2. plans \in Seq(PlanSet(v))
  <2>1. \E m \in 0 .. Len(q.groups) : PlansWithin(v, q.groups, s.cap["ivs"], plans, m)
    BY PlansOfWithin
  <2> QED BY <2>1 DEF PlansWithin
<1> HIDE DEF plans
<1>3. r.over <=> overBudget(v, plans)
  <2> DEFINE err == ~Accepted(q) \/ planFails(q.groups, plans)
  <2>1. runPlans(s, q, v, now, plans).err = err
    BY DEF runPlans
  <2>2. runPlans(s, q, v, now, plans).over = (~err /\ overBudget(v, plans))
    BY DEF runPlans
  <2>3. ~err
    BY <1>1, <2>1
  <2> HIDE DEF err
  <2> QED BY <1>1, <2>2, <2>3
<1>4. r.visited = n + Len(v.delta.rows)
  <2>1. runPlans(s, q, v, now, plans).visited = n + Len(v.delta.rows)
    BY DEF runPlans
  <2> HIDE DEF r, n
  <2> QED BY <1>1, <2>1
<1>5. scanRows(v, plans) = Len(v.delta.rows) + n
  BY <1>2, BudgetIs
<1>6. n + Len(v.delta.rows) = Len(v.delta.rows) + n
  <2>1. Len(v.delta.rows) \in Nat
    BY ViewsAssumption DEF ReadsRight, IsColumns
  <2>2. n \in Int
    OBVIOUS
  <2> QED BY <2>1, <2>2
<1> QED BY <1>3, <1>4, <1>5, <1>6 DEF overBudget

-----------------------------------------------------------------------------
(* Every call, over every view and after every history of the pool.           *)

\* The inductive invariant: what the call in hand did cannot be told from the
\* pool and the view it ran on unless the pool was clean when it began.
QueryInv ==
    /\ view \in Views
    /\ \A s \in pool : Clean(s)
    /\ BudgetBoundsScan
    /\ NeverGrows

LEMMA CallKeeps ==
    ASSUME QueryInv, NEW q \in Queries, NEW now \in Clocks, Call(q, now)
    PROVE  QueryInv'
<1> DEFINE sh == measureShape(q)
<1>1. view \in Views /\ (\A s \in pool : Clean(s)) /\ sh \in Shapes
  BY ShapeIs DEF QueryInv
<1>2. PICK l \in leases(sh) :
        /\ pool' = IF l.onStack THEN pool
                   ELSE (pool \ l.from) \cup released(run(l.s, q, view, now).scratch, resolved(q))
        /\ last' = {[query |-> q, now |-> now, onStack |-> l.onStack, cap |-> l.s.cap,
                     err |-> run(l.s, q, view, now).err, over |-> run(l.s, q, view, now).over,
                     lengths |-> run(l.s, q, view, now).lengths,
                     visited |-> run(l.s, q, view, now).visited, value |-> run(l.s, q, view, now).value]}
        /\ UNCHANGED view
  BY DEF Call
<1> DEFINE s == l.s
           r == run(s, q, view, now)
           plans == PlansOf(s, q, view)
<1>3. Serves(s, sh)
  <2> HIDE DEF sh
  <2> QED BY <1>1, LeasesServe
<1>4. r = runPlans(s, q, view, now, plans)
  BY DEF run, PlansOf
<1>5. r.lengths = lengths(q, plans)
  <2> HIDE DEF s, plans
  <2>1. runPlans(s, q, view, now, plans).lengths = lengths(q, plans)
    BY DEF runPlans
  <2> HIDE DEF r
  <2> QED BY <1>4, <2>1
<1>6. \A p \in Parts : r.lengths[p] <= s.cap[p]
  BY <1>1, <1>3, <1>5, RunFits
<1>7. ~r.err /\ MaxScanRows > 0 => (r.over <=> r.visited > MaxScanRows)
  BY <1>1, <1>3, RunBudget
<1>8. \A x \in released(r.scratch, resolved(q)) : Clean(x)
  BY <1>3, <1>4, ReleasedClean DEF Serves
<1> HIDE DEF r, plans, s, sh
<1>9. view' \in Views /\ \A x \in pool' : Clean(x)
  BY <1>1, <1>2, <1>8 DEF r, s
<1> DEFINE c == [query |-> q, now |-> now, onStack |-> l.onStack, cap |-> s.cap,
                 err |-> r.err, over |-> r.over, lengths |-> r.lengths,
                 visited |-> r.visited, value |-> r.value]
<1>10. last' = {c}
  BY <1>2 DEF r, s
<1>11. /\ c.cap = s.cap /\ c.err = r.err /\ c.over = r.over
       /\ c.lengths = r.lengths /\ c.visited = r.visited
  OBVIOUS
<1> HIDE DEF c
<1>12. BudgetBoundsScan'
  BY <1>7, <1>10, <1>11 DEF BudgetBoundsScan
<1>13. NeverGrows'
  BY <1>6, <1>10, <1>11 DEF NeverGrows
<1> QED BY <1>9, <1>12, <1>13 DEF QueryInv

\* The invariant holds through any sequence of calls, evictions and published
\* views: every scratch of the pool is clean, and the call in hand was budgeted
\* and served as BudgetBoundsScan and NeverGrows say.
THEOREM QueryInvariant == Spec => []QueryInv
<1>1. Init => QueryInv
  BY DEF Init, QueryInv, BudgetBoundsScan, NeverGrows
<1>2. QueryInv /\ [Next]_vars => QueryInv'
  <2> SUFFICES ASSUME QueryInv, [Next]_vars PROVE QueryInv'
    OBVIOUS
  <2>1. ASSUME NEW q \in Queries, NEW now \in Clocks, Call(q, now) PROVE QueryInv'
    BY <2>1, CallKeeps
  <2>2. CASE Return
    BY <2>2 DEF Return, QueryInv, BudgetBoundsScan, NeverGrows
  <2>3. CASE Evict
    BY <2>3 DEF Evict, QueryInv, BudgetBoundsScan, NeverGrows
  <2>4. CASE Publish
    BY <2>4 DEF Publish, QueryInv, BudgetBoundsScan, NeverGrows
  <2>5. CASE UNCHANGED vars
    BY <2>5 DEF vars, QueryInv, BudgetBoundsScan, NeverGrows
  <2> QED BY <2>1, <2>2, <2>3, <2>4, <2>5 DEF Next
<1> QED BY <1>1, <1>2, PTL DEF Spec

\* The scan cost counted after planning (planGroups) is the number of rows the
\* sweep of queryGroups visits, so MaxScanRows refuses a query if and only if it
\* would visit more rows, however its intervals overlap.
THEOREM BudgetExact == Spec => []BudgetBoundsScan
<1>1. QueryInv => BudgetBoundsScan
  BY DEF QueryInv
<1> QED BY <1>1, QueryInvariant, PTL

\* The shape measured before a call bounds every slice of the scratch it is
\* given, on the stack or grown from the pool: no append of plan or planExpand
\* goes beyond a capacity, whatever the INs of the groups expand to.
THEOREM ScratchNeverGrows == Spec => []NeverGrows
<1>1. QueryInv => NeverGrows
  BY DEF QueryInv
<1> QED BY <1>1, QueryInvariant, PTL

\* release leaves no bitmap of a query in the scratch it puts back, whichever
\* way the query ended: answered, refused or failed.
THEOREM PoolPinsNothing == Spec => []PooledPinsNothing
<1>1. QueryInv => PooledPinsNothing
  BY DEF QueryInv, Clean, PooledPinsNothing
<1> QED BY <1>1, QueryInvariant, PTL

-----------------------------------------------------------------------------
(* On the stack no expansion starves another.                                 *)

LEMMA PickMore ==
    ASSUME NEW N \in Nat, NEW s, NEW t, DOMAIN s = 1 .. N, DOMAIN t = 1 .. N + 1,
           \A i \in 1 .. N : t[i] = s[i],
           NEW S, NEW U, \A i \in 1 .. N : i \in S <=> i \in U
    PROVE  Pick(t, U) = IF N + 1 \in U THEN Append(Pick(s, S), t[N + 1]) ELSE Pick(s, S)
<1> DEFINE c == [s |-> s, S |-> S]
           e == [s |-> t, S |-> U]
           q == [i \in DOMAIN s |-> i]
           r == [i \in DOMAIN t |-> i]
           a == Shorts!RunOf(c, <<>>, q, N)
           b == Shorts!RunOf(e, <<>>, q, N)
<1>1. Pick(s, S) = Shorts!Fold(c, <<>>, q) /\ Pick(t, U) = Shorts!Fold(e, <<>>, r)
  BY DEF Pick, FoldLeft, MapThenFoldSet, Max, Shorts!Fold, Shorts!MapThenFoldSet, Shorts!Top, PickOp
<1>2. /\ DOMAIN q = 1 .. N /\ DOMAIN r = 1 .. N + 1 /\ \A i \in 1 .. N : q[i] = i /\ r[i] = i
      /\ r[N + 1] = N + 1
  OBVIOUS
<1>3. c.s = s /\ c.S = S /\ e.s = t /\ e.S = U
  OBVIOUS
<1> HIDE DEF q, r, c, e
<1>4. Shorts!Fold(e, <<>>, r) = PickOp(e, Shorts!Fold(e, <<>>, q), r[N + 1])
  BY <1>2, Shorts!FoldExtended
<1>5. Shorts!IsRun(a, c, <<>>, q, N) /\ Shorts!Fold(c, <<>>, q) = a[N]
  BY <1>2, Shorts!FoldRun
<1>6. Shorts!IsRun(b, e, <<>>, q, N) /\ Shorts!Fold(e, <<>>, q) = b[N]
  BY <1>2, Shorts!FoldRun
<1> HIDE DEF a, b
<1> DEFINE T == {n \in 0 .. N : a[n] = b[n]}
<1>7. 0 \in T
  BY <1>5, <1>6 DEF Shorts!IsRun
<1>8. ASSUME NEW n \in 0 .. N - 1, n \in T PROVE n + 1 \in T
  <2>1. n + 1 \in 1 .. N /\ q[n + 1] = n + 1
    BY <1>2
  <2>2. a[n + 1] = PickOp(c, a[n], q[n + 1]) /\ b[n + 1] = PickOp(e, b[n], q[n + 1])
    BY <1>5, <1>6 DEF Shorts!IsRun
  <2>3. PickOp(c, a[n], n + 1) = PickOp(e, a[n], n + 1)
    BY <1>3, <2>1 DEF PickOp
  <2> QED BY <1>8, <2>1, <2>2, <2>3
<1>9. a[N] = b[N]
  <2> HIDE DEF T
  <2>1. N \in T
    BY <1>7, <1>8, UpTo
  <2> QED BY <2>1 DEF T
<1> QED BY <1>1, <1>2, <1>3, <1>4, <1>5, <1>6, <1>9 DEF PickOp

\* The conditions on a dimension after one more.
LEMMA EqsMore ==
    ASSUME NEW x \in Groups, NEW y \in Groups, NEW e \in [dim : Dims, id : Nat],
           y.conds = Append(x.conds, e), NEW d \in Dims
    PROVE  eqsOn(y, d) = IF e.dim = d THEN Append(eqsOn(x, d), e) ELSE eqsOn(x, d)
<1> DEFINE s == x.conds
           t == y.conds
           N == Len(s)
           S == {i \in DOMAIN s : s[i].dim = d}
           U == {i \in DOMAIN t : t[i].dim = d}
<1>0. s \in Seq([dim : Dims, id : Nat])
  BY DEF Groups
<1>1. /\ N \in Nat /\ DOMAIN s = 1 .. N /\ DOMAIN t = 1 .. N + 1 /\ t[N + 1] = e
      /\ \A i \in 1 .. N : t[i] = s[i]
  <2> HIDE DEF s
  <2> QED BY <1>0 DEF s
<1>2. eqsOn(x, d) = Pick(s, S) /\ eqsOn(y, d) = Pick(t, U)
  BY DEF eqsOn
<1> HIDE DEF s, t, N
<1>3. (\A i \in 1 .. N : i \in S <=> i \in U) /\ (N + 1 \in U <=> e.dim = d)
  BY <1>1
<1> HIDE DEF S, U
<1> QED BY <1>1, <1>2, <1>3, PickMore

LEMMA InsMore ==
    ASSUME NEW x \in Groups, NEW y \in Groups, NEW e \in [dim : Dims, ids : Seq(Nat)],
           y.ins = Append(x.ins, e), NEW d \in Dims
    PROVE  insOn(y, d) = IF e.dim = d THEN Append(insOn(x, d), e) ELSE insOn(x, d)
<1> DEFINE s == x.ins
           t == y.ins
           N == Len(s)
           S == {i \in DOMAIN s : s[i].dim = d}
           U == {i \in DOMAIN t : t[i].dim = d}
<1>0. s \in Seq([dim : Dims, ids : Seq(Nat)])
  BY DEF Groups
<1>1. /\ N \in Nat /\ DOMAIN s = 1 .. N /\ DOMAIN t = 1 .. N + 1 /\ t[N + 1] = e
      /\ \A i \in 1 .. N : t[i] = s[i]
  <2> HIDE DEF s
  <2> QED BY <1>0 DEF s
<1>2. insOn(x, d) = Pick(s, S) /\ insOn(y, d) = Pick(t, U)
  BY DEF insOn
<1> HIDE DEF s, t, N
<1>3. (\A i \in 1 .. N : i \in S <=> i \in U) /\ (N + 1 \in U <=> e.dim = d)
  BY <1>1
<1> HIDE DEF S, U
<1>4. Pick(t, U) = IF N + 1 \in U THEN Append(Pick(s, S), t[N + 1]) ELSE Pick(s, S)
  <2> HIDE <1>0
  <2>1. DOMAIN s = 1 .. N /\ DOMAIN t = 1 .. N + 1 /\ N \in Nat
    BY <1>1
  <2>2. \A i \in 1 .. N : t[i] = s[i]
    BY <1>1
  <2>3. \A i \in 1 .. N : i \in S <=> i \in U
    BY <1>3
  <2> QED BY ONLY <2>1, <2>2, <2>3, PickMore
<1>5. Pick(t, U) = IF e.dim = d THEN Append(Pick(s, S), e) ELSE Pick(s, S)
  BY <1>1, <1>3, <1>4
<1> QED BY <1>2, <1>5

\* How many ways a dimension has to go on with, as far as it bounds a plan.
Width(v, g, d) == IF candidates(v, g, d) = <<>> THEN 1 ELSE Len(candidates(v, g, d))

LEMMA WaysNat ==
    ASSUME NEW v \in Views, NEW g \in Groups, NEW d \in Dims
    PROVE  Width(v, g, d) \in Nat /\ Width(v, g, d) >= 1
<1> DEFINE s == candidates(v, g, d)
<1>1. s \in Seq(Nat)
  BY CandidatesIs
<1>2. Width(v, g, d) = IF s = <<>> THEN 1 ELSE Len(s)
  BY DEF Width
<1> HIDE DEF s
<1>3. Len(s) \in Nat /\ (s # <<>> => Len(s) >= 1)
  BY <1>1
<1> QED BY <1>2, <1>3

\* The same conditions on a dimension are the same candidates.
LEMMA SameWidth ==
    ASSUME NEW v, NEW x, NEW y, NEW d, eqsOn(x, d) = eqsOn(y, d), insOn(x, d) = insOn(y, d)
    PROVE  Width(v, x, d) = Width(v, y, d)
<1>1. candidates(v, x, d) = candidates(v, y, d)
  BY DEF candidates
<1> QED BY <1>1 DEF Width

LEMMA OnSame ==
    ASSUME NEW x, NEW y, NEW d
    PROVE  /\ y.conds = x.conds => eqsOn(y, d) = eqsOn(x, d)
           /\ y.ins = x.ins => insOn(y, d) = insOn(x, d)
BY DEF eqsOn, insOn

LEMMA EqWidth ==
    ASSUME NEW v \in Views, NEW x \in Groups, NEW y \in Groups, NEW e \in [dim : Dims, id : Nat],
           y.conds = Append(x.conds, e), y.ins = x.ins, NEW d \in Dims
    PROVE  Width(v, y, d) <= Width(v, x, d)
<1>1. Width(v, x, d) \in Nat /\ Width(v, x, d) >= 1 /\ Width(v, y, d) \in Nat
  BY WaysNat
<1>2. CASE e.dim = d
  <2>1. eqsOn(y, d) = Append(eqsOn(x, d), e)
    BY <1>2, EqsMore
  <2>2. eqsOn(x, d) \in Seq([dim : Dims, id : Nat])
    <3>1. x.conds \in Seq([dim : Dims, id : Nat])
      BY DEF Groups
    <3> QED BY <3>1, PickLen DEF eqsOn
  <2> DEFINE z == eqsOn(x, d)
  <2>3. Append(z, e) # <<>>
    <3>1. z \in Seq([dim : Dims, id : Nat])
      BY <2>2
    <3> HIDE DEF z
    <3> DEFINE q == Append(z, e)
    <3>2. Len(q) = Len(z) + 1 /\ Len(z) \in Nat
      BY <3>1
    <3> HIDE DEF q
    <3>3. q # <<>>
      BY <3>2
    <3> QED BY <3>3 DEF q
  <2>4. eqsOn(y, d) # <<>>
    BY <2>1, <2>3
  <2>5. Len(candidates(v, y, d)) = 1
    BY <2>4, CandidatesIs
  <2>6. Width(v, y, d) = 1
    BY <2>5 DEF Width
  <2> QED BY <1>1, <2>6
<1>3. CASE e.dim # d
  <2>1. eqsOn(y, d) = eqsOn(x, d)
    BY <1>3, EqsMore
  <2>2. insOn(y, d) = insOn(x, d)
    BY OnSame
  <2>3. Width(v, x, d) = Width(v, y, d)
    BY <2>1, <2>2, SameWidth
  <2> QED BY <1>1, <2>3
<1> QED BY <1>2, <1>3

LEMMA InWidth ==
    ASSUME NEW v \in Views, NEW x \in Groups, NEW y \in Groups, NEW e \in [dim : Dims, ids : Seq(Nat)],
           y.ins = Append(x.ins, e), y.conds = x.conds, NEW d \in Dims,
           NEW L \in Nat, L >= 1, Len(e.ids) <= L
    PROVE  IF e.dim = d THEN Width(v, y, d) <= Width(v, x, d) * L ELSE Width(v, y, d) = Width(v, x, d)
<1> DEFINE w == Width(v, x, d)
<1>1. w \in Nat /\ w >= 1 /\ Width(v, y, d) \in Nat
  BY WaysNat
<1>2. eqsOn(y, d) = eqsOn(x, d)
  BY OnSame
<1>3. CASE e.dim # d
  <2>1. insOn(y, d) = insOn(x, d)
    BY <1>3, InsMore
  <2> QED BY <1>2, <1>3, <2>1, SameWidth
<1>4. CASE e.dim = d
  <2>1. insOn(y, d) = Append(insOn(x, d), e)
    BY <1>4, InsMore
  <2> DEFINE z == insOn(x, d)
  <2>2. z \in Seq([dim : Dims, ids : Seq(Nat)])
    <3>1. x.ins \in Seq([dim : Dims, ids : Seq(Nat)])
      BY DEF Groups
    <3> QED BY <3>1, PickLen DEF insOn
  <2>3. w <= w * L /\ L <= w * L
    <3> HIDE DEF w
    <3> QED BY <1>1
  <2>4. CASE eqsOn(x, d) # <<>>
    <3>1. eqsOn(y, d) # <<>>
      BY <1>2, <2>4
    <3>2. Len(candidates(v, y, d)) = 1
      BY <3>1, CandidatesIs
    <3>3. Width(v, y, d) = 1
      BY <3>2 DEF Width
    <3>4. 1 <= w * L
      <4> HIDE DEF w
      <4> QED BY <1>1, <2>3
    <3> QED BY <1>4, <3>3, <3>4
  <2>5. CASE eqsOn(x, d) = <<>> /\ z # <<>>
    <3>1. Head(Append(z, e)) = Head(z) /\ Append(z, e) # <<>>
      <4> HIDE DEF z
      <4>1. Len(z) \in Nat /\ Len(z) # 0 /\ Len(Append(z, e)) = Len(z) + 1
        BY <2>2, <2>5
      <4>2. Append(z, e)[1] = z[1]
        BY <2>2, <4>1
      <4> QED BY <4>1, <4>2
    <3>2. candidates(v, y, d) = candidates(v, x, d)
      BY <1>2, <2>1, <2>5, <3>1 DEF candidates
    <3>3. Width(v, y, d) = w
      BY <3>2 DEF Width
    <3> QED BY <1>1, <1>4, <2>3, <3>3
  <2>6. CASE eqsOn(x, d) = <<>> /\ z = <<>>
    <3>1. insOn(y, d) = <<e>>
      BY <2>1, <2>6
    <3> DEFINE ids == e.ids
               n == Search(Len(ids), {i \in DOMAIN ids : ids[i] >= Len(v.base.dicts[d])}) - 1
    <3>2. Head(insOn(y, d)) = e /\ insOn(y, d) # <<>>
      BY <3>1
    <3>3. candidates(v, y, d) = SubSeq(ids, 1, n)
      BY <1>2, <2>6, <3>2 DEF candidates
    <3>4. ids \in Seq(Nat) /\ Len(ids) \in Nat
      OBVIOUS
    <3>5. n \in 0 .. Len(ids)
      <4> DEFINE U == {i \in DOMAIN ids : ids[i] >= Len(v.base.dicts[d])}
      <4>1. n = Search(Len(ids), U) - 1
        OBVIOUS
      <4> HIDE DEF U, n, ids
      <4>2. Search(Len(ids), U) \in 1 .. Len(ids) + 1
        BY <3>4, SearchEdge
      <4> QED BY <3>4, <4>1, <4>2
    <3> HIDE DEF n
    <3>6. Len(SubSeq(ids, 1, n)) = n
      <4> HIDE DEF ids
      <4> QED BY <3>4, <3>5
    <3>7. Width(v, y, d) <= L
      <4> HIDE DEF ids
      <4>1. n <= L /\ n \in Nat
        BY <3>4, <3>5 DEF ids
      <4> DEFINE u == SubSeq(ids, 1, n)
      <4>2. Width(v, y, d) = IF u = <<>> THEN 1 ELSE Len(u)
        BY <3>3 DEF Width
      <4> QED BY <3>6, <4>1, <4>2
    <3>8. Width(v, y, d) <= w * L
      <4> HIDE DEF w
      <4>1. w * L \in Nat
        BY <1>1
      <4> DEFINE u == Width(v, y, d)
      <4>2. u \in Nat /\ u <= L
        BY <3>7, WaysNat
      <4> HIDE DEF u
      <4>3. u <= w * L
        BY <2>3, <4>1, <4>2
      <4> QED BY <4>3 DEF u
    <3> QED BY <1>4, <3>8
  <2> QED BY <2>4, <2>5, <2>6
<1> QED BY <1>3, <1>4

\* D bounds the combinations of the index dimensions, taken one after the other.
IsWidest(v, g, D, a) ==
    /\ \A i \in 0 .. Cardinality(IndexDims) : a[i] \in Nat /\ 1 <= a[i] /\ a[i] <= D
    /\ \A i \in Prefix : a[i - 1] * Width(v, g, DimOrder[i]) <= a[i]

Widest(v, g, D) == \E a : IsWidest(v, g, D, a)

LEMMA Times ==
    ASSUME NEW a \in Nat, NEW w \in Nat, NEW u \in Nat, u <= w
    PROVE  a * w \in Nat /\ a * u \in Nat /\ a * u <= a * w /\ w * a \in Nat /\ u * a <= w * a
<1> DEFINE k == w - u
<1>1. k \in Nat /\ w = u + k
  OBVIOUS
<1> HIDE DEF k
<1>2. a * w = a * u + a * k /\ w * a = u * a + k * a
  BY <1>1
<1>3. a * u \in Nat /\ a * k \in Nat /\ u * a \in Nat /\ k * a \in Nat
  BY <1>1
<1> QED BY <1>2, <1>3

\* A bound of one group bounds another that has no more ways to go on.
LEMMA WidestKept ==
    ASSUME NEW v \in Views, NEW x \in Groups, NEW y \in Groups, NEW D \in Nat, NEW E \in Nat, D <= E,
           Widest(v, x, D), \A d \in Dims : Width(v, y, d) <= Width(v, x, d)
    PROVE  Widest(v, y, E)
<1>1. PICK a : IsWidest(v, x, D, a)
  BY DEF Widest
<1>2. ASSUME NEW i \in 0 .. Cardinality(IndexDims) PROVE a[i] \in Nat /\ 1 <= a[i] /\ a[i] <= E
  BY <1>1 DEF IsWidest
<1>3. ASSUME NEW i \in Prefix PROVE a[i - 1] * Width(v, y, DimOrder[i]) <= a[i]
  <2> DEFINE w == Width(v, x, DimOrder[i])
             u == Width(v, y, DimOrder[i])
             b == a[i - 1]
             c == a[i]
  <2>1. DimOrder[i] \in Dims /\ i - 1 \in 0 .. Cardinality(IndexDims) /\ i \in 0 .. Cardinality(IndexDims)
    BY PrefixOrder
  <2>2. u <= w /\ u \in Nat /\ w \in Nat
    BY <2>1, WaysNat
  <2>3. b * w <= c /\ b \in Nat /\ c \in Nat
    BY <1>1, <1>2, <2>1 DEF IsWidest
  <2> HIDE DEF w, u, b, c
  <2>4. b * u <= b * w /\ b * u \in Nat /\ b * w \in Nat
    BY <2>2, <2>3, Times
  <2>5. b * u <= c
    BY <2>3, <2>4
  <2> QED BY <2>5 DEF b, c, u
<1>4. IsWidest(v, y, E, a)
  BY <1>2, <1>3 DEF IsWidest
<1> QED BY <1>4 DEF Widest

\* An IN of L values on one dimension multiplies the bound by L at most.
LEMMA WidestTimes ==
    ASSUME NEW v \in Views, NEW x \in Groups, NEW y \in Groups, NEW D \in Nat, NEW L \in Nat, L >= 1,
           Widest(v, x, D), NEW e \in Dims,
           \A d \in Dims : IF d = e THEN Width(v, y, d) <= Width(v, x, d) * L
                           ELSE Width(v, y, d) = Width(v, x, d)
    PROVE  Widest(v, y, D * L)
<1> DEFINE N == Cardinality(IndexDims)
<1>1. PICK a : IsWidest(v, x, D, a)
  BY DEF Widest
<1>2. N \in Nat /\ Prefix = 1 .. N /\ \A i \in Prefix : DimOrder[i] \in Dims
  BY PrefixOrder
<1>3. PICK k \in 1 .. N + 1 : \A i \in Prefix : DimOrder[i] = e <=> i = k
  <2>1. CASE \E i \in Prefix : DimOrder[i] = e
    <3>1. PICK i \in Prefix : DimOrder[i] = e
      BY <2>1
    <3>2. i \in 1 .. N + 1 /\ \A j \in Prefix : DimOrder[j] = e <=> j = i
      BY <1>2, <3>1, IndexOrder
    <3> QED BY <3>2
  <2>2. CASE ~\E i \in Prefix : DimOrder[i] = e
    <3>1. N + 1 \in 1 .. N + 1 /\ \A i \in Prefix : i # N + 1
      BY <1>2
    <3> QED BY <2>2, <3>1
  <2> QED BY <2>1, <2>2
<1> DEFINE b == [i \in 0 .. N |-> IF i < k THEN a[i] ELSE a[i] * L]
<1>4. ASSUME NEW i \in 0 .. N PROVE a[i] \in Nat /\ 1 <= a[i] /\ a[i] <= D
  BY <1>1 DEF IsWidest
<1>5. ASSUME NEW i \in 0 .. N
      PROVE  /\ a[i] * L \in Nat /\ a[i] <= a[i] * L /\ a[i] * L <= D * L /\ D <= D * L
             /\ D * L \in Nat
  <2> DEFINE c == a[i]
  <2>1. c \in Nat /\ c <= D
    BY <1>4
  <2> HIDE DEF c
  <2>2. c * 1 <= c * L /\ c * L \in Nat /\ c * 1 = c
    BY <2>1, Times
  <2>3. D * 1 <= D * L /\ D * L \in Nat /\ D * 1 = D
    BY Times
  <2>4. c * L <= D * L
    BY <2>1, Times
  <2> QED BY <2>2, <2>3, <2>4 DEF c
<1> HIDE DEF N
<1>6. ASSUME NEW i \in 0 .. N PROVE b[i] \in Nat /\ 1 <= b[i] /\ b[i] <= D * L
  <2>1. b[i] = IF i < k THEN a[i] ELSE a[i] * L
    OBVIOUS
  <2>2. a[i] \in Nat /\ 1 <= a[i] /\ a[i] <= D
    BY <1>4
  <2> DEFINE c == a[i]
             f == c * L
             h == D * L
  <2>3. f \in Nat /\ c <= f /\ f <= h /\ D <= h /\ h \in Nat
    BY <1>5
  <2>4. b[i] = IF i < k THEN c ELSE f
    BY <2>1
  <2> HIDE DEF b, c, f, h
  <2>5. c \in Nat /\ 1 <= c /\ c <= D
    BY <2>2 DEF c
  <2>6. b[i] \in Nat /\ 1 <= b[i] /\ b[i] <= h
    BY <2>3, <2>4, <2>5
  <2> QED BY <2>6 DEF h
<1>7. ASSUME NEW i \in Prefix PROVE b[i - 1] * Width(v, y, DimOrder[i]) <= b[i]
  <2> DEFINE w == Width(v, x, DimOrder[i])
             u == Width(v, y, DimOrder[i])
             p == a[i - 1]
             c == a[i]
  <2>1. i \in 1 .. N /\ i - 1 \in 0 .. N /\ i \in 0 .. N /\ DimOrder[i] \in Dims
    BY <1>2
  <2>2. u \in Nat /\ w \in Nat
    BY <2>1, WaysNat
  <2>3. p * w <= c /\ p \in Nat /\ c \in Nat
    BY <1>1, <1>4, <2>1 DEF IsWidest
  <2>4. /\ b[i - 1] = IF i - 1 < k THEN p ELSE p * L
        /\ b[i] = IF i < k THEN c ELSE c * L
    BY <2>1
  <2>5. IF i = k THEN u <= w * L ELSE u = w
    BY <1>3, <2>1
  <2> HIDE DEF b, w, u, p, c
  <2>6. p * w \in Nat /\ (p * w) * L <= c * L
    <3>1. p * w \in Nat
      BY <2>2, <2>3
    <3> QED BY <2>3, <3>1, Times
  <2>7. CASE i < k
    <3>1. b[i - 1] = p /\ b[i] = c /\ u = w
      BY <1>3, <2>1, <2>4, <2>5, <2>7
    <3> QED BY <2>3, <3>1 DEF u
  <2>8. CASE i = k
    <3>1. b[i - 1] = p /\ b[i] = c * L /\ u <= w * L
      BY <1>3, <2>1, <2>4, <2>5, <2>8
    <3>2. w * L \in Nat
      BY <2>2
    <3>3. p * u <= p * (w * L)
      BY <2>2, <2>3, <3>1, <3>2, Times
    <3>4. p * (w * L) = (p * w) * L
      BY <2>2, <2>3
    <3>5. p * u \in Nat /\ p * (w * L) \in Nat /\ c * L \in Nat
      BY <2>2, <2>3, <3>2
    <3>6. p * u <= c * L
      BY <2>6, <3>3, <3>4, <3>5
    <3> QED BY <3>1, <3>6 DEF u
  <2>9. CASE i > k
    <3>1. b[i - 1] = p * L /\ b[i] = c * L /\ u = w
      BY <1>3, <2>1, <2>4, <2>5, <2>9
    <3>2. (p * L) * w = (p * w) * L
      BY <2>2, <2>3
    <3> QED BY <2>6, <3>1, <3>2 DEF u
  <2> QED BY <1>3, <2>1, <2>7, <2>8, <2>9
<1> HIDE DEF b
<1>8. IsWidest(v, y, D * L, b)
  BY <1>6, <1>7 DEF IsWidest, N
<1> QED BY <1>8 DEF Widest

\* A condition multiplies the bound of its group by the values of its IN, if any.
LEMMA WidestStep ==
    ASSUME NEW v \in Views, NEW x \in Groups, NEW c \in Conds, NEW D \in Nat, Widest(v, x, D)
    PROVE  Widest(v, resolve(v, x, c), IF c.in = <<>> THEN D ELSE D * Len(c.in))
<1> DEFINE y == resolve(v, x, c)
           L == IF c.in = <<>> THEN 1 ELSE Len(c.in)
           e == [dim |-> c.dim, ids |-> inIDs(v, c)]
           f == [dim |-> c.dim, id |-> TheId(idOf(v, c.dim, c.value))]
<1>1. y \in Groups /\ Resolved(v, x, c, y)
  BY ResolveTakes, ResolveIs
<1>2. L \in Nat /\ L >= 1
  <2> DEFINE s == c.in
  <2>1. s \in Seq(Spellings)
    BY DEF Conds
  <2>2. L = IF s = <<>> THEN 1 ELSE Len(s)
    OBVIOUS
  <2> HIDE DEF s, L
  <2>3. Len(s) \in Nat /\ (s # <<>> => Len(s) >= 1)
    BY <2>1
  <2> QED BY <2>2, <2>3
<1>3. D * L = IF c.in = <<>> THEN D ELSE D * Len(c.in)
  <2>1. D * 1 = D
    OBVIOUS
  <2> QED BY <2>1
<1>4. isIn(c) => L = Len(c.in)
  BY DEF isIn
<1>5. D <= D * L /\ D * L \in Nat
  <2> HIDE DEF L
  <2>1. D * 1 <= D * L /\ D * L \in Nat /\ D * 1 = D
    BY <1>2, Times
  <2> QED BY <2>1
<1> HIDE DEF y, L, e, f
<1>6. CASE y.conds = x.conds /\ y.ins = x.ins
  <2>1. ASSUME NEW d \in Dims PROVE Width(v, y, d) <= Width(v, x, d)
    <3>1. Width(v, x, d) = Width(v, y, d)
      BY <1>6, OnSame, SameWidth
    <3>2. Width(v, x, d) \in Nat
      BY WaysNat
    <3> QED BY <3>1, <3>2
  <2>2. Widest(v, y, D * L)
    BY <1>1, <1>5, <2>1, WidestKept
  <2> QED BY <1>3, <2>2 DEF y
<1>7. CASE isIn(c) /\ c.dim \in Dims /\ y = [x EXCEPT !.ins = Append(@, e)]
  <2>1. e \in [dim : Dims, ids : Seq(Nat)] /\ Len(e.ids) <= Len(c.in) /\ e.dim = c.dim
    BY <1>7, InIdsIs DEF e
  <2>2. y.ins = Append(x.ins, e) /\ y.conds = x.conds
    BY <1>7 DEF Groups
  <2>3. ASSUME NEW d \in Dims
        PROVE  IF d = c.dim THEN Width(v, y, d) <= Width(v, x, d) * L ELSE Width(v, y, d) = Width(v, x, d)
    <3>1. Len(e.ids) <= L
      BY <1>4, <1>7, <2>1
    <3>2. IF e.dim = d THEN Width(v, y, d) <= Width(v, x, d) * L ELSE Width(v, y, d) = Width(v, x, d)
      BY <1>1, <1>2, <2>1, <2>2, <3>1, InWidth
    <3> QED BY <2>1, <3>2
  <2>4. Widest(v, y, D * L)
    BY <1>1, <1>2, <1>7, <2>3, WidestTimes
  <2> QED BY <1>3, <2>4 DEF y
<1>8. CASE /\ c.range = {} /\ c.in = <<>> /\ c.dim \in Dims /\ idOf(v, c.dim, c.value) # {}
           /\ y = [x EXCEPT !.conds = Append(@, f)]
  <2>1. f \in [dim : Dims, id : Nat]
    BY <1>8, IdOfNat DEF f
  <2>2. y.conds = Append(x.conds, f) /\ y.ins = x.ins
    BY <1>8 DEF Groups
  <2>3. \A d \in Dims : Width(v, y, d) <= Width(v, x, d)
    BY <1>1, <2>1, <2>2, EqWidth
  <2>4. Widest(v, y, D * L)
    BY <1>1, <1>5, <2>3, WidestKept
  <2> QED BY <1>3, <2>4 DEF y
<1>9. CASE \/ y = x \/ y = [x EXCEPT !.err = TRUE] \/ y = [x EXCEPT !.dead = TRUE]
           \/ y = [x EXCEPT !.rngs = Append(@, c)]
  <2>1. y.conds = x.conds /\ y.ins = x.ins
    BY <1>9 DEF Groups
  <2> QED BY <1>6, <2>1
<1> QED BY <1>1, <1>7, <1>8, <1>9 DEF Resolved, e, f

\* A group with no condition can be planned with one combination.
LEMMA WidestFirst ==
    ASSUME NEW v \in Views, NEW g \in Groups, g.ins = <<>>
    PROVE  Widest(v, g, 1)
<1>1. ASSUME NEW d \in Dims PROVE Width(v, g, d) = 1
  <2>1. insOn(g, d) = <<>>
    <3> DEFINE s == g.ins
               S == {i \in DOMAIN s : s[i].dim = d}
    <3>1. s \in Seq(Nat) /\ Len(s) = 0
      OBVIOUS
    <3>2. insOn(g, d) = Pick(s, S)
      BY DEF insOn
    <3> HIDE DEF s, S
    <3>3. Pick(s, S) \in Seq(Nat) /\ Len(Pick(s, S)) <= Len(s)
      BY <3>1, PickLen
    <3> QED BY <3>1, <3>2, <3>3
  <2>2. CASE eqsOn(g, d) # <<>>
    <3>1. Len(candidates(v, g, d)) = 1
      BY <2>2, CandidatesIs
    <3> QED BY <3>1 DEF Width
  <2>3. CASE eqsOn(g, d) = <<>>
    BY <2>1, <2>3 DEF Width, candidates
  <2> QED BY <2>2, <2>3
<1> DEFINE a == [i \in 0 .. Cardinality(IndexDims) |-> 1]
<1>2. \A i \in Prefix : DimOrder[i] \in Dims /\ i \in 0 .. Cardinality(IndexDims) /\ i - 1 \in 0 .. Cardinality(IndexDims)
  BY PrefixOrder
<1>3. IsWidest(v, g, 1, a)
  BY <1>1, <1>2 DEF IsWidest
<1> HIDE DEF a
<1> QED BY <1>3 DEF Widest

\* Once a demand is capped it stays so; until then it bounds the group.
LEMMA DemandBounds ==
    ASSUME NEW v \in Views, NEW g \in Seq(Conds)
    PROVE  groupIvDemand(g) >= IvDemandCap \/ Widest(v, GroupOf(v, g), groupIvDemand(g))
<1> DEFINE N == Len(g)
           a == Resolves!RunOf(v, unresolved, g, N)
           b == Demands!RunOf(0, 1, g, N)
<1>0. N \in Nat /\ DOMAIN g = 1 .. N /\ \A n \in 0 .. N - 1 : g[n + 1] \in Conds
  OBVIOUS
<1>1. GroupOf(v, g) = Resolves!Fold(v, unresolved, g)
  BY DEF GroupOf, FoldLeft, MapThenFoldSet, Max, Resolves!Fold, Resolves!MapThenFoldSet, Resolves!Top, ResolveOp
<1>2. groupIvDemand(g) = Demands!Fold(0, 1, g)
  BY DEF groupIvDemand, FoldLeft, MapThenFoldSet, Max, Demands!Fold, Demands!MapThenFoldSet, Demands!Top, DemandOp, Demand
<1> HIDE DEF N
<1>3. Resolves!IsRun(a, v, unresolved, g, N) /\ GroupOf(v, g) = a[N]
  BY <1>0, <1>1, Resolves!FoldRun
<1>4. Demands!IsRun(b, 0, 1, g, N) /\ groupIvDemand(g) = b[N]
  BY <1>0, <1>2, Demands!FoldRun
<1> HIDE DEF a, b
<1> DEFINE T == {n \in 0 .. N : /\ a[n] \in Groups /\ b[n] \in Nat /\ b[n] >= 1
                                /\ b[n] >= IvDemandCap \/ Widest(v, a[n], b[n])}
<1>5. 0 \in T
  <2>1. unresolved \in Groups /\ unresolved.ins = <<>>
    BY DEF unresolved, Groups
  <2>2. Widest(v, unresolved, 1)
    BY <2>1, WidestFirst
  <2> QED BY <1>0, <1>3, <1>4, <2>1, <2>2 DEF Resolves!IsRun, Demands!IsRun
<1>6. ASSUME NEW n \in 0 .. N - 1, n \in T PROVE n + 1 \in T
  <2> DEFINE c == g[n + 1]
             x == a[n]
             D == b[n]
             L == Len(c.in)
  <2>1. /\ x \in Groups /\ D \in Nat /\ D >= 1 /\ (D >= IvDemandCap \/ Widest(v, x, D))
        /\ c \in Conds /\ n + 1 \in 0 .. N
    BY <1>0, <1>6
  <2>2. a[n + 1] = resolve(v, x, c)
    BY <1>3 DEF Resolves!IsRun, ResolveOp
  <2>3. b[n + 1] = IF c.in = <<>> THEN D ELSE IF D > IvDemandCap \div L THEN IvDemandCap ELSE D * L
    BY <1>4 DEF Demands!IsRun, DemandOp, Demand
  <2>4. resolve(v, x, c) \in Groups
    BY <2>1, ResolveTakes
  <2>5. L \in Nat /\ (c.in # <<>> => L >= 1)
    <3> DEFINE s == c.in
    <3>1. s \in Seq(Spellings)
      BY <2>1 DEF Conds
    <3> HIDE DEF s
    <3>2. Len(s) \in Nat /\ (s # <<>> => Len(s) >= 1)
      BY <3>1
    <3> QED BY <3>2 DEF s
  <2>6. IvDemandCap \in Nat /\ IvDemandCap >= 1
    BY ScratchAssumption DEF Parts
  <2>7. Widest(v, x, D) => Widest(v, resolve(v, x, c), IF c.in = <<>> THEN D ELSE D * L)
    BY <2>1, WidestStep
  <2> HIDE DEF c, x, D, L, T
  <2>8. c.in # <<>> => D * L \in Nat /\ D <= D * L
    <3> SUFFICES ASSUME c.in # <<>> PROVE D * L \in Nat /\ D <= D * L
      OBVIOUS
    <3>1. D * 1 <= D * L /\ D * L \in Nat /\ D * 1 = D
      BY <2>1, <2>5, Times
    <3> QED BY <3>1
  <2> DEFINE E == b[n + 1]
  <2>9. /\ E \in Nat /\ E >= 1
        /\ E >= IvDemandCap \/ E = IF c.in = <<>> THEN D ELSE D * L
        /\ D >= IvDemandCap => E >= IvDemandCap
    <3> HIDE DEF E
    <3> DEFINE m == D * L
    <3>1. c.in # <<>> => m \in Nat /\ D <= m
      BY <2>8
    <3>2. E = IF c.in = <<>> THEN D ELSE IF D > IvDemandCap \div L THEN IvDemandCap ELSE m
      BY <2>3 DEF E
    <3> DEFINE h == IvDemandCap \div L
    <3> HIDE DEF m, h
    <3>3. E = D \/ E = IvDemandCap \/ (c.in # <<>> /\ E = m)
      BY <3>2 DEF h
    <3>4. E >= IvDemandCap \/ E = IF c.in = <<>> THEN D ELSE m
      <4>1. IvDemandCap >= IvDemandCap
        BY <2>6
      <4> QED BY <3>2, <4>1
    <3> QED BY <2>1, <2>6, <3>1, <3>3, <3>4 DEF m
  <2>10. E >= IvDemandCap \/ Widest(v, resolve(v, x, c), E)
    BY <2>1, <2>7, <2>9 DEF x, D
  <2> HIDE DEF E
  <2>11. n + 1 \in 0 .. N /\ a[n + 1] \in Groups /\ (E >= IvDemandCap \/ Widest(v, a[n + 1], E))
    BY <2>1, <2>2, <2>4, <2>10
  <2> QED BY <2>9, <2>11 DEF T, E
<1>7. N \in T
  <2> HIDE DEF T
  <2>1. \A n \in 0 .. N : n \in T
    BY <1>0, <1>5, <1>6, UpTo
  <2> QED BY <1>0, <2>1
<1> QED BY <1>3, <1>4, <1>7

\* The state of the prefix loop after n dimensions, with at most top combinations.
CoveringTo(top, x) ==
    \E k \in Nat, combos \in Seq(Seq(Nat)), stop \in BOOLEAN :
        x = [k |-> k, combos |-> combos, stop |-> stop] /\ Len(combos) <= top

\* Where the ways fit, the room beyond makes no difference to the next dimension.
LEMMA CoverSame ==
    ASSUME NEW v \in Views, NEW g \in Groups, NEW i \in Prefix, NEW x, NEW a \in Nat, NEW b \in Nat,
           CoveringTo(a, x), a * Width(v, g, DimOrder[i]) <= b,
           NEW r \in Int, NEW s \in Int, b <= r, b <= s
    PROVE  cover(v, g, r, x, i) = cover(v, g, s, x, i) /\ CoveringTo(b, cover(v, g, r, x, i))
<1>1. PICK k \in Nat, combos \in Seq(Seq(Nat)), stop \in BOOLEAN :
         x = [k |-> k, combos |-> combos, stop |-> stop] /\ Len(combos) <= a
  BY DEF CoveringTo
<1> DEFINE d == DimOrder[i]
           nRows == Len(v.base.rows)
           L == Len(candidates(v, g, d))
           n == Len(combos) * L
           w == widen(v, g, combos, d)
           W == Width(v, g, d)
           ends(room0) == eqsOn(g, d) = <<>> /\ (n = 0 \/ n * bitLen(nRows) > nRows \/ n > room0)
<1>2. d \in Dims /\ i \in Nat
  BY PrefixOrder
<1> DEFINE next(e) == IF stop \/ e THEN [k |-> k, combos |-> combos, stop |-> TRUE]
                      ELSE [k |-> i, combos |-> w, stop |-> stop]
<1>3. ASSUME NEW t \in Int PROVE cover(v, g, t, x, i) = next(ends(t))
  <2>1. x.stop = stop /\ x.combos = combos
    BY <1>1
  <2>2. cover(v, g, t, x, i) = IF stop \/ ends(t) THEN [x EXCEPT !.stop = TRUE]
                               ELSE [x EXCEPT !.k = i, !.combos = w]
    BY <2>1 DEF cover
  <2> HIDE DEF ends, w
  <2> QED BY <1>1, <2>2
<1>4. w \in Seq(Seq(Nat)) /\ Len(w) = n
  BY <1>2, WidenIs
<1>5. W \in Nat /\ W >= 1 /\ L \in Nat /\ Len(combos) \in Nat /\ (L # 0 => W = L)
  <2> DEFINE c == candidates(v, g, d)
  <2>1. c \in Seq(Nat)
    BY <1>2, CandidatesIs
  <2>2. W \in Nat /\ W >= 1
    BY <1>2, WaysNat
  <2>3. W = IF c = <<>> THEN 1 ELSE Len(c)
    BY DEF Width
  <2> HIDE DEF c, W
  <2>4. Len(c) \in Nat /\ (c = <<>> => Len(c) = 0)
    BY <2>1
  <2> QED BY <2>2, <2>3, <2>4 DEF c
<1>6. a <= b
  <2> HIDE DEF W
  <2>1. a * 1 <= a * W /\ a * W \in Nat /\ a * 1 = a
    BY <1>5, Times
  <2>2. a * W <= b
    BY DEF W
  <2> QED BY <2>1, <2>2
<1>7. L # 0 => n <= b
  <2> HIDE DEF W, L
  <2> SUFFICES ASSUME L # 0 PROVE n <= b
    OBVIOUS
  <2>1. W = L /\ n = Len(combos) * W
    BY <1>5
  <2>2. Len(combos) * W <= a * W /\ Len(combos) * W \in Nat /\ a * W \in Nat
    BY <1>1, <1>5, Times
  <2>3. a * W <= b
    BY DEF W
  <2> QED BY <2>1, <2>2, <2>3
<1>8. n \in Nat /\ (L = 0 => n = 0)
  <2> HIDE DEF L
  <2> QED BY <1>5
<1>9. L = 0 => eqsOn(g, d) = <<>>
  <2>1. d \in Dims
    BY <1>2
  <2>2. eqsOn(g, d) # <<>> => L = 1
    BY <2>1, CandidatesIs
  <2> QED BY <2>2
<1> HIDE DEF W, L, n, w, nRows, d
<1>10. ends(r) = ends(s)
  BY <1>7, <1>8
<1>11. cover(v, g, r, x, i) = next(ends(r)) /\ cover(v, g, s, x, i) = next(ends(r))
  BY <1>3, <1>10
<1>12. ~ends(r) => n <= b
  BY <1>7, <1>8, <1>9
<1> HIDE DEF ends
<1>13. CoveringTo(b, cover(v, g, r, x, i))
  <2>1. CASE stop \/ ends(r)
    <3>1. Len(combos) <= b
      BY <1>1, <1>5, <1>6
    <3> QED BY <1>11, <2>1, <3>1 DEF CoveringTo
  <2>2. CASE ~(stop \/ ends(r))
    <3>1. Len(w) <= b
      BY <1>4, <1>12, <2>2
    <3> QED BY <1>2, <1>4, <1>11, <2>2, <3>1 DEF CoveringTo
  <2> QED BY <2>1, <2>2
<1> QED BY <1>11, <1>13

\* A group is planned alike wherever its bound fits.
LEMMA PlanSame ==
    ASSUME NEW v \in Views, NEW g \in Groups, NEW D \in Nat, Widest(v, g, D),
           NEW r \in Int, NEW s \in Int, D <= r, D <= s
    PROVE  planOf(v, g, r) = planOf(v, g, s)
<1> DEFINE c == [v |-> v, g |-> g, slots |-> r]
           e == [v |-> v, g |-> g, slots |-> s]
           q == [i \in Prefix |-> i]
           N == Cardinality(IndexDims)
           x == Covers!RunOf(c, Uncovered, q, N)
           y == Covers!RunOf(e, Uncovered, q, N)
<1>0. N \in Nat /\ DOMAIN q = 1 .. N /\ Prefix = 1 .. N
  BY PrefixOrder
<1>1. covered(v, g, r) = Covers!Fold(c, Uncovered, q) /\ covered(v, g, s) = Covers!Fold(e, Uncovered, q)
  BY DEF covered, FoldLeft, MapThenFoldSet, Max, Covers!Fold, Covers!MapThenFoldSet, Covers!Top, CoverOp, Uncovered
<1>2. \A z, i : CoverOp(c, z, i) = cover(v, g, r, z, i) /\ CoverOp(e, z, i) = cover(v, g, s, z, i)
  BY DEF CoverOp
<1>3. PICK a : IsWidest(v, g, D, a)
  BY DEF Widest
<1>4. \A i \in 0 .. N : a[i] \in Nat /\ 1 <= a[i] /\ a[i] <= D
  BY <1>3 DEF IsWidest
<1>5. \A i \in 1 .. N : q[i] = i
  BY <1>0
<1> HIDE DEF c, e, q, N
<1>6. Covers!IsRun(x, c, Uncovered, q, N) /\ covered(v, g, r) = x[N]
  BY <1>0, <1>1, Covers!FoldRun
<1>7. Covers!IsRun(y, e, Uncovered, q, N) /\ covered(v, g, s) = y[N]
  BY <1>0, <1>1, Covers!FoldRun
<1> HIDE DEF x, y
<1> DEFINE T == {n \in 0 .. N : x[n] = y[n] /\ CoveringTo(a[n], x[n])}
<1>8. 0 \in T
  <2> DEFINE w == <<<<>>>>
  <2>1. w \in Seq(Seq(Nat)) /\ Len(w) = 1
    OBVIOUS
  <2>2. Uncovered = [k |-> 0, combos |-> w, stop |-> FALSE]
    BY DEF Uncovered
  <2> HIDE DEF w
  <2>3. Len(w) <= a[0] /\ 0 \in 0 .. N
    BY <1>0, <1>4, <2>1
  <2>4. CoveringTo(a[0], Uncovered)
    BY <2>1, <2>2, <2>3 DEF CoveringTo
  <2> QED BY <1>6, <1>7, <2>3, <2>4 DEF Covers!IsRun
<1>9. ASSUME NEW n \in 0 .. N - 1, n \in T PROVE n + 1 \in T
  <2> DEFINE i == n + 1
  <2>1. i \in Prefix /\ i - 1 = n /\ i \in 0 .. N /\ n \in 0 .. N /\ q[i] = i
    BY <1>0, <1>5
  <2>2. x[i] = cover(v, g, r, x[n], i) /\ y[i] = cover(v, g, s, y[n], i)
    BY <1>2, <1>6, <1>7, <2>1 DEF Covers!IsRun
  <2>3. x[n] = y[n] /\ CoveringTo(a[n], x[n])
    BY <1>9
  <2>4. a[n] * Width(v, g, DimOrder[i]) <= a[i]
    BY <1>3, <2>1 DEF IsWidest
  <2>5. a[n] \in Nat /\ a[i] \in Nat /\ a[i] <= r /\ a[i] <= s
    <3>1. a[i] \in Nat /\ a[i] <= D /\ a[n] \in Nat
      BY <1>4, <2>1
    <3> QED BY <3>1
  <2> HIDE DEF i
  <2>6. cover(v, g, r, x[n], i) = cover(v, g, s, x[n], i) /\ CoveringTo(a[i], cover(v, g, r, x[n], i))
    BY <2>1, <2>3, <2>4, <2>5, CoverSame
  <2> QED BY <2>1, <2>2, <2>3, <2>6 DEF i
<1>10. N \in T
  <2> HIDE DEF T
  <2>1. \A n \in 0 .. N : n \in T
    BY <1>0, <1>8, <1>9, UpTo
  <2> QED BY <1>0, <2>1
<1>11. covered(v, g, r) = covered(v, g, s)
  BY <1>6, <1>7, <1>10
<1> QED BY <1>11 DEF planOf

\* What a sum of demands, one at least for each group, leaves for the groups to come.
Owed(b, D, G, cap) ==
    /\ b[0] = 0 /\ \A n \in 0 .. G - 1 : b[n + 1] = b[n] + D[n + 1]
    /\ \A n \in 0 .. G : b[n] \in Nat /\ b[n] + (G - n) <= cap

LEMMA OwedIs ==
    ASSUME NEW G \in Nat, NEW D, DOMAIN D = 1 .. G, \A i \in 1 .. G : D[i] \in Nat /\ D[i] >= 1,
           NEW cap \in Nat, SumSeq(D) <= cap
    PROVE  \E b : Owed(b, D, G, cap)
<1> DEFINE b == Sums!RunOf(0, 0, D, G)
<1>1. Sums!IsRun(b, 0, 0, D, G) /\ SumSeq(D) = b[G]
  BY Sums!FoldRun, SumSeqFold
<1> HIDE DEF b
<1>2. b[0] = 0 /\ \A n \in 0 .. G - 1 : b[n + 1] = b[n] + D[n + 1]
  BY <1>1 DEF Sums!IsRun, AddOp
<1> DEFINE T == {n \in 0 .. G : b[n] \in Nat}
<1>3. \A n \in 0 .. G : b[n] \in Nat
  <2>1. 0 \in T
    BY <1>2
  <2>2. ASSUME NEW n \in 0 .. G - 1, n \in T PROVE n + 1 \in T
    <3>1. n + 1 \in 1 .. G /\ b[n] \in Nat /\ b[n + 1] = b[n] + D[n + 1]
      BY <1>2, <2>2
    <3>2. D[n + 1] \in Nat
      BY <3>1
    <3>3. b[n + 1] \in Nat
      BY <3>1, <3>2
    <3> QED BY <3>1, <3>3
  <2> HIDE DEF T
  <2>3. \A n \in 0 .. G : n \in T
    BY <2>1, <2>2, UpTo
  <2> QED BY <2>3 DEF T
<1> DEFINE U == {k \in 0 .. G : b[G - k] + k <= cap}
<1>4. \A k \in 0 .. G : b[G - k] + k <= cap
  <2>1. 0 \in U
    <3>1. G - 0 = G /\ b[G] \in Nat /\ b[G] <= cap
      BY <1>1, <1>3
    <3> QED BY <3>1
  <2>2. ASSUME NEW k \in 0 .. G - 1, k \in U PROVE k + 1 \in U
    <3> DEFINE n == G - (k + 1)
    <3>1. n \in 0 .. G - 1 /\ n \in 0 .. G /\ n + 1 = G - k /\ n + 1 \in 1 .. G /\ n + 1 \in 0 .. G
      OBVIOUS
    <3> HIDE DEF n
    <3>2. b[n + 1] = b[n] + D[n + 1] /\ b[n + 1] + k <= cap
      BY <1>2, <2>2, <3>1
    <3>3. b[n] \in Nat /\ D[n + 1] \in Nat /\ D[n + 1] >= 1
      BY <1>3, <3>1
    <3>4. b[n] + (k + 1) <= cap
      BY <3>2, <3>3
    <3> QED BY <3>4 DEF n
  <2> HIDE DEF U
  <2>3. \A k \in 0 .. G : k \in U
    BY <2>1, <2>2, UpTo
  <2> QED BY <2>3 DEF U
<1>5. ASSUME NEW n \in 0 .. G PROVE b[n] + (G - n) <= cap
  <2> DEFINE k == G - n
  <2>1. k \in 0 .. G /\ G - k = n
    OBVIOUS
  <2> HIDE DEF k
  <2>2. b[n] + k <= cap
    BY <1>4, <2>1
  <2> QED BY <2>2 DEF k
<1>6. Owed(b, D, G, cap)
  BY <1>2, <1>3, <1>5 DEF Owed
<1> QED BY <1>6

\* The plans so far took no more than their groups' demands.
Modest(b, plans) == Len(intervals(plans)) <= b[Len(plans)]

\* The next group is planned alike in cap and in more.
LEMMA PlanNextSame ==
    ASSUME NEW v \in Views, NEW groups \in Seq(Seq(Conds)), NEW cap \in Nat, NEW big \in Nat, cap <= big,
           NEW D, NEW b, Owed(b, D, Len(groups), cap),
           \A i \in DOMAIN groups : D[i] \in Nat /\ D[i] >= 1 /\ Widest(v, GroupOf(v, groups[i]), D[i]),
           NEW n \in 0 .. Len(groups) - 1, NEW plans, PlansWithin(v, groups, cap, plans, n), Modest(b, plans)
    PROVE  /\ planNext(v, groups, cap, plans, groups[n + 1]) = planNext(v, groups, big, plans, groups[n + 1])
           /\ Modest(b, planNext(v, groups, cap, plans, groups[n + 1]))
<1> DEFINE G == Len(groups)
           L == Len(intervals(plans))
<1>1. CASE Failed(plans)
  BY <1>1 DEF planNext, Failed
<1>2. CASE ~Failed(plans)
  <2> DEFINE g == GroupOf(v, groups[n + 1])
             r == room(cap, plans, groups)
             s == room(big, plans, groups)
             p == planOf(v, g, r)
             more == Append(plans, p)
             E == D[n + 1]
  <2>1. plans \in Seq(PlanSet(v)) /\ Len(plans) = n
    BY <1>2 DEF PlansWithin
  <2>2. L \in Nat /\ L <= b[n]
    BY <2>1, IntervalsOf DEF Modest
  <2>3. G \in Nat /\ n \in Nat /\ n < G /\ n + 1 \in DOMAIN groups /\ n + 1 \in 0 .. G /\ groups[n + 1] \in Seq(Conds)
    OBVIOUS
  <2>4. g \in Groups /\ E \in Nat /\ E >= 1 /\ Widest(v, g, E)
    BY <2>3, GroupTakes
  <2>5. b[n] \in Nat /\ b[n + 1] \in Nat /\ b[n + 1] = b[n] + E /\ b[n + 1] + (G - (n + 1)) <= cap
    BY <2>3 DEF Owed
  <2>6. r = cap - L - (G - n - 1) /\ s = big - L - (G - n - 1)
    BY <2>1 DEF room
  <2>7. planNext(v, groups, cap, plans, groups[n + 1]) = more
    BY <1>2 DEF planNext, Failed, plan, GroupOf
  <2>8. planNext(v, groups, big, plans, groups[n + 1]) = Append(plans, planOf(v, g, s))
    BY <1>2 DEF planNext, Failed, plan, GroupOf
  <2> HIDE DEF g, r, s, E, G, L
  <2>9. r \in Int /\ s \in Int /\ E <= r /\ E <= s
    BY <2>2, <2>3, <2>4, <2>5, <2>6
  <2>10. p = planOf(v, g, s) /\ p = planOf(v, g, E)
    <3>1. E <= E /\ E \in Int
      BY <2>4
    <3>2. planOf(v, g, r) = planOf(v, g, s)
      BY <2>4, <2>9, PlanSame
    <3>3. planOf(v, g, r) = planOf(v, g, E)
      BY <2>4, <2>9, <3>1, PlanSame
    <3> QED BY <3>2, <3>3
  <2>11. IvsWithin(p.ivs, E)
    <3>1. E \in Int
      BY <2>4
    <3>2. IvsWithin(planOf(v, g, E).ivs, E)
      BY <2>4, <3>1, PlanIs
    <3> HIDE DEF p
    <3> QED BY <2>10, <3>2
  <2>12. p \in PlanSet(v)
    BY <2>4, <2>9 DEF PlanSet
  <2> HIDE DEF p
  <2>13. Len(p.ivs) \in Nat /\ Len(p.ivs) <= E
    BY <2>4, <2>11 DEF IvsWithin
  <2>14. Len(more) = n + 1
    BY <2>1, <2>12
  <2>15. Len(intervals(more)) = L + Len(p.ivs)
    BY <2>1, <2>12, IntervalsMore DEF L
  <2> HIDE DEF more
  <2>16. Len(intervals(more)) <= b[n + 1]
    BY <2>2, <2>4, <2>5, <2>13, <2>15
  <2>17. Modest(b, more)
    BY <2>14, <2>16 DEF Modest
  <2> QED BY <2>7, <2>8, <2>10, <2>17 DEF more
<1> QED BY <1>1, <1>2

LEMMA PlansSame ==
    ASSUME NEW v \in Views, NEW groups \in Seq(Seq(Conds)), NEW cap \in Nat, NEW big \in Nat, cap <= big,
           Len(groups) <= cap, NEW D, DOMAIN D = 1 .. Len(groups), SumSeq(D) <= cap,
           \A i \in DOMAIN groups : D[i] \in Nat /\ D[i] >= 1 /\ Widest(v, GroupOf(v, groups[i]), D[i])
    PROVE  planAll(v, groups, cap) = planAll(v, groups, big)
<1> DEFINE c == [v |-> v, groups |-> groups, cap |-> cap]
           e == [v |-> v, groups |-> groups, cap |-> big]
           N == Len(groups)
           x == Planning!RunOf(c, <<>>, groups, N)
           y == Planning!RunOf(e, <<>>, groups, N)
<1>0. N \in Nat /\ DOMAIN groups = 1 .. N
  OBVIOUS
<1>1. planAll(v, groups, cap) = Planning!Fold(c, <<>>, groups) /\ planAll(v, groups, big) = Planning!Fold(e, <<>>, groups)
  BY DEF planAll, FoldLeft, MapThenFoldSet, Max, Planning!Fold, Planning!MapThenFoldSet, Planning!Top, PlanOp
<1>2. \A z, g : PlanOp(c, z, g) = planNext(v, groups, cap, z, g) /\ PlanOp(e, z, g) = planNext(v, groups, big, z, g)
  BY DEF PlanOp
<1>3. PICK b : Owed(b, D, N, cap)
  BY <1>0, OwedIs
<1> HIDE DEF c, e
<1>4. Planning!IsRun(x, c, <<>>, groups, N) /\ planAll(v, groups, cap) = x[N]
  BY <1>0, <1>1, Planning!FoldRun
<1>5. Planning!IsRun(y, e, <<>>, groups, N) /\ planAll(v, groups, big) = y[N]
  BY <1>0, <1>1, Planning!FoldRun
<1> HIDE DEF x, y
<1> DEFINE T == {n \in 0 .. N : x[n] = y[n] /\ PlansWithin(v, groups, cap, x[n], n) /\ Modest(b, x[n])}
<1>6. 0 \in T
  <2>1. x[0] = <<>> /\ y[0] = <<>>
    BY <1>4, <1>5 DEF Planning!IsRun
  <2>2. PlansWithin(v, groups, cap, <<>>, 0)
    BY NoPlans
  <2>3. Len(intervals(<<>>)) = 0
    BY NoIntervals
  <2> DEFINE none == <<>>
  <2>4. Len(none) = 0 /\ b[0] = 0 /\ 0 \in 0 .. N
    BY <1>0, <1>3 DEF Owed
  <2>5. Modest(b, none)
    BY <2>3, <2>4 DEF Modest
  <2> QED BY <2>1, <2>2, <2>4, <2>5
<1>7. ASSUME NEW n \in 0 .. N - 1, n \in T PROVE n + 1 \in T
  <2> DEFINE z == planNext(v, groups, cap, x[n], groups[n + 1])
  <2>1. x[n] = y[n] /\ PlansWithin(v, groups, cap, x[n], n) /\ Modest(b, x[n]) /\ n + 1 \in 0 .. N
    BY <1>0, <1>7
  <2>2. x[n + 1] = z /\ y[n + 1] = planNext(v, groups, big, x[n], groups[n + 1])
    BY <1>2, <1>4, <1>5, <2>1 DEF Planning!IsRun
  <2>3. z = planNext(v, groups, big, x[n], groups[n + 1]) /\ Modest(b, z)
    BY <1>3, <2>1, PlanNextSame
  <2>4. PlansWithin(v, groups, cap, z, n + 1)
    BY <2>1, PlanNextIs
  <2> HIDE DEF z
  <2> QED BY <2>1, <2>2, <2>3, <2>4
<1>8. N \in T
  <2> HIDE DEF T, N
  <2>1. \A n \in 0 .. N : n \in T
    BY <1>0, <1>6, <1>7, UpTo
  <2> QED BY <1>0, <2>1
<1> QED BY <1>4, <1>5, <1>8

\* A term of a sum of numbers is no larger.
LEMMA SumTerm ==
    ASSUME NEW N \in Nat, NEW s, DOMAIN s = 1 .. N, \A i \in 1 .. N : s[i] \in Nat, NEW j \in 1 .. N
    PROVE  s[j] <= SumSeq(s)
<1> DEFINE t == [i \in 1 .. N |-> IF i = j THEN 0 ELSE s[i]]
<1>1. DOMAIN t = 1 .. N /\ t[j] = 0 /\ (\A i \in 1 .. N : i # j => t[i] = s[i]) /\ \A i \in 1 .. N : t[i] \in Nat
  OBVIOUS
<1> HIDE DEF t
<1>2. SumSeq(t) \in Nat
  BY <1>1, SumNat
<1>3. SumSeq(s) = s[j] + SumSeq(t)
  BY <1>1, SumWithout
<1>4. s[j] \in Nat
  OBVIOUS
<1> QED BY <1>2, <1>3, <1>4

\* The sum of ones.
LEMMA SumOnes ==
    ASSUME NEW N \in Nat, NEW s, DOMAIN s = 1 .. N, \A i \in 1 .. N : s[i] = 1
    PROVE  SumSeq(s) = N
<1> DEFINE a == Sums!RunOf(0, 0, s, N)
<1>1. Sums!IsRun(a, 0, 0, s, N) /\ SumSeq(s) = a[N]
  BY Sums!FoldRun, SumSeqFold
<1> HIDE DEF a
<1> DEFINE T == {n \in 0 .. N : a[n] = n}
<1>2. 0 \in T
  BY <1>1 DEF Sums!IsRun
<1>3. ASSUME NEW n \in 0 .. N - 1, n \in T PROVE n + 1 \in T
  <2>1. n + 1 \in 1 .. N /\ a[n + 1] = a[n] + s[n + 1]
    BY <1>1 DEF Sums!IsRun, AddOp
  <2> QED BY <1>3, <2>1
<1>4. N \in T
  <2> HIDE DEF T
  <2>1. \A n \in 0 .. N : n \in T
    BY <1>2, <1>3, UpTo
  <2> QED BY <2>1
<1> QED BY <1>1, <1>4

\* A call whose shape fits the stack is planned as if there were room for all.
LEMMA StackSame ==
    ASSUME NEW q \in Queries, NEW v \in Views, fits(measureShape(q))
    PROVE  planAll(v, q.groups, Fast["ivs"]) = planAll(v, q.groups, Fast["ivs"] + IvDemandCap)
<1> DEFINE groups == q.groups
           G == Len(groups)
           cap == Fast["ivs"]
           big == cap + IvDemandCap
           sh == measureShape(q)
           needs == [i \in DOMAIN groups |-> groupNeeds(groups[i], "inWins")]
           demands == [i \in DOMAIN groups |-> groupIvDemand(groups[i])]
           ones == [i \in DOMAIN groups |-> 1]
<1>1. groups \in Seq(Seq(Conds))
  BY CallsAssumption
<1>2. /\ sh.plans = G /\ sh.ivs = SumSeq(demands) /\ sh.inWins = SumSeq(needs)
  <2>1. sh.plans = G /\ sh.inWins = TotalNeeds(groups, "inWins")
    BY ShapeIs DEF CondParts
  <2>2. sh.ivs = SumSeq(demands)
    BY DEF measureShape
  <2> QED BY <2>1, <2>2 DEF TotalNeeds
<1>3. ~(sh.inWins > 0 /\ sh.ivs > cap) /\ sh.plans <= Fast["plans"]
  BY DEF fits, Parts
<1>4. cap \in Nat /\ big \in Nat /\ cap <= big /\ cap < IvDemandCap /\ Fast["plans"] \in Nat /\ Fast["plans"] <= cap
  BY ScratchAssumption DEF Parts
<1> HIDE DEF groups, sh, cap, big
<1>5. G \in Nat /\ DOMAIN groups = 1 .. G /\ \A i \in 1 .. G : groups[i] \in Seq(Conds)
  BY <1>1
<1> HIDE DEF G
<1>6. G <= cap
  BY <1>2, <1>3, <1>4, <1>5
<1>7. DOMAIN needs = 1 .. G /\ \A i \in 1 .. G : needs[i] = groupNeeds(groups[i], "inWins") /\ needs[i] \in Nat
  BY <1>5, NeedsNat DEF CondParts
<1>8. DOMAIN demands = 1 .. G /\ \A i \in 1 .. G : demands[i] = groupIvDemand(groups[i]) /\ demands[i] \in Nat /\ demands[i] >= 1
  BY <1>5, DemandIs
<1>9. DOMAIN ones = 1 .. G /\ \A i \in 1 .. G : ones[i] = 1
  BY <1>5
<1> HIDE DEF needs, demands, ones
<1>10. SumSeq(needs) \in Nat /\ SumSeq(demands) \in Nat
  BY <1>5, <1>7, <1>8, SumNat
<1>11. CASE sh.inWins > 0
  <2>1. SumSeq(demands) <= cap
    BY <1>2, <1>3, <1>4, <1>10, <1>11
  <2>2. ASSUME NEW i \in DOMAIN groups
        PROVE  demands[i] \in Nat /\ demands[i] >= 1 /\ Widest(v, GroupOf(v, groups[i]), demands[i])
    <3>1. demands[i] <= SumSeq(demands) /\ demands[i] \in Nat /\ demands[i] >= 1 /\ demands[i] = groupIvDemand(groups[i])
      BY <1>5, <1>8, SumTerm
    <3>2. ~(groupIvDemand(groups[i]) >= IvDemandCap)
      BY <1>4, <1>10, <2>1, <3>1, ScratchAssumption
    <3>3. Widest(v, GroupOf(v, groups[i]), groupIvDemand(groups[i]))
      BY <1>5, <3>2, DemandBounds
    <3> QED BY <3>1, <3>3
  <2>3. planAll(v, groups, cap) = planAll(v, groups, big)
    BY <1>1, <1>4, <1>6, <1>8, <2>1, <2>2, PlansSame DEF G
  <2> QED BY <2>3 DEF groups, cap, big
<1>12. CASE ~(sh.inWins > 0)
  <2>1. SumSeq(needs) = 0
    BY <1>2, <1>10, <1>12
  <2>2. SumSeq(ones) = G
    BY <1>5, <1>9, SumOnes
  <2>3. ASSUME NEW i \in DOMAIN groups
        PROVE  ones[i] \in Nat /\ ones[i] >= 1 /\ Widest(v, GroupOf(v, groups[i]), ones[i])
    <3> DEFINE g == GroupOf(v, groups[i])
    <3>1. needs[i] <= SumSeq(needs) /\ needs[i] \in Nat /\ needs[i] = groupNeeds(groups[i], "inWins")
      BY <1>5, <1>7, SumTerm
    <3>2. g \in Groups /\ groupTakes(g, "inWins") <= groupNeeds(groups[i], "inWins")
      BY <1>5, GroupTakes DEF CondParts
    <3> HIDE DEF g
    <3>3. groupTakes(g, "inWins") = Len(g.ins)
      BY DEF groupTakes
    <3>4. g.ins = <<>>
      <4> DEFINE s == g.ins
      <4>1. s \in Seq([dim : Dims, ids : Seq(Nat)])
        BY <3>2 DEF Groups
      <4>2. Len(s) <= 0
        BY <2>1, <3>1, <3>2, <3>3
      <4> HIDE DEF s
      <4>3. s = <<>>
        BY <4>1, <4>2
      <4> QED BY <4>3 DEF s
    <3>5. Widest(v, g, 1)
      BY <3>2, <3>4, WidestFirst
    <3>6. ones[i] = 1
      BY <1>5, <1>9
    <3> QED BY <3>5, <3>6 DEF g
  <2>4. planAll(v, groups, cap) = planAll(v, groups, big)
    BY <1>1, <1>4, <1>6, <1>9, <2>2, <2>3, PlansSame DEF G
  <2> QED BY <2>4 DEF groups, cap, big
<1> QED BY <1>11, <1>12

\* The call in hand is a query of the program's, and on the stack only if its
\* shape fits.
StackInv ==
    /\ view \in Views
    /\ \A c \in last : c.query \in Queries /\ (c.onStack => fits(measureShape(c.query)))

\* Whenever a call runs on the stack, its groups are planned as if the stack had
\* room for every expansion (fits in scratch.go): the interval of one group never
\* stops the expansion of another.
THEOREM StackPlansAll == Spec => []StackNeverStarves
<1>1. Init => StackInv
  BY DEF Init, StackInv
<1>2. StackInv /\ [Next]_vars => StackInv'
  <2> SUFFICES ASSUME StackInv, [Next]_vars PROVE StackInv'
    OBVIOUS
  <2>1. ASSUME NEW q \in Queries, NEW now \in Clocks, Call(q, now) PROVE StackInv'
    <3>1. /\ UNCHANGED view
          /\ \E l \in leases(measureShape(q)) : \E r :
               last' = {[query |-> q, now |-> now, onStack |-> l.onStack, cap |-> l.s.cap,
                         err |-> r.err, over |-> r.over, lengths |-> r.lengths,
                         visited |-> r.visited, value |-> r.value]}
      BY <2>1 DEF Call
    <3>2. PICK l \in leases(measureShape(q)) : \A c \in last' : c.query = q /\ c.onStack = l.onStack
      BY <3>1
    <3>3. l.onStack => fits(measureShape(q))
      BY DEF leases
    <3> QED BY <3>1, <3>2, <3>3 DEF StackInv
  <2>2. CASE Return
    BY <2>2 DEF Return, StackInv
  <2>3. CASE Evict
    BY <2>3 DEF Evict, StackInv
  <2>4. CASE Publish
    BY <2>4 DEF Publish, StackInv
  <2>5. CASE UNCHANGED vars
    BY <2>5 DEF vars, StackInv
  <2> QED BY <2>1, <2>2, <2>3, <2>4, <2>5 DEF Next
<1>3. StackInv => StackNeverStarves
  BY StackSame DEF StackInv, StackNeverStarves
<1> QED BY <1>1, <1>2, <1>3, PTL DEF Spec
=============================================================================
