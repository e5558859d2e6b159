-------------------------------- MODULE Query --------------------------------
(* What a query does with one view: resolve the conditions to ids, plan the   *)
(* row intervals of the base to visit, sweep them and the delta, and fold the *)
(* rows that match (query.go, agg.go, groupby.go).                            *)
(*                                                                            *)
(* A condition has a set of at most one range <<min, max>>.  The loops over   *)
(* groups, conditions and rows are folds; a metric is an integer.             *)
EXTENDS Columns

CONSTANTS NoValue,     \* the empty Cond.Value
          IntVal,      \* the integer of a canonical spelling
          Rank,        \* the place of a spelling in string order
          Metrics,     \* Schema.Metrics
          Metric,      \* payload -> metric -> value
          InLinearMax, \* longest IN window that is searched linearly
          MaxScanRows  \* Config.MaxScanRows, 0 = no budget

ASSUME QueryAssumption ==
    /\ NoValue \in Spellings
    /\ Rank \in [Spellings -> Int] /\ IsInjective(Rank)
    /\ Metric \in [Payloads -> [Metrics -> Int]]
    /\ InLinearMax \in Nat /\ MaxScanRows \in Nat

-----------------------------------------------------------------------------
(* Small sorts and sums.                                                      *)

\* The insertion sort of planGroups; also slices.Sort and slices.SortFunc, which need
\* not keep the order of equal elements: no result depends on it.
Insert(s, x, Before(_, _)) ==
    InsertAt(s, Cardinality({i \in DOMAIN s : ~Before(x, s[i])}) + 1, x)

Sorted(s, Before(_, _)) == FoldLeft(LAMBDA t, x : Insert(t, x, Before), <<>>, s)

TheId(ids) == CHOOSE id \in ids : TRUE

\* The sequences of ss one after the other.
Joined(ss) == FoldLeft(LAMBDA t, s : t \o s, <<>>, ss)

-----------------------------------------------------------------------------
(* Resolving the conditions of a group.                                       *)

Canon(d, s) == IF d \in IntDims THEN ParseInt[s] ELSE s

idOf(v, d, s) == lookupID(v, d, Canon(d, s))

Invalid(d, s) == Canon(d, s) = NonInt

\* Values the table does not have are dropped from an IN; the rest are sorted.
inIDs(v, c) ==
    LET ids == [i \in DOMAIN c.in |-> idOf(v, c.dim, c.in[i])]
        known == Pick(ids, {i \in DOMAIN ids : ids[i] # {}})
    IN  Sorted([i \in DOMAIN known |-> TheId(known[i])], <)

unresolved == [err |-> FALSE, dead |-> FALSE, conds |-> <<>>, ins |-> <<>>, rngs |-> <<>>]

\* The first condition that fails or that nothing can meet ends the group.
resolve(v, g, c) ==
    LET fails == [g EXCEPT !.err = TRUE]
        dies == [g EXCEPT !.dead = TRUE]
    IN  IF g.err \/ g.dead THEN g
        ELSE IF c.dim \notin Dims THEN fails
        ELSE IF c.range # {} THEN
             IF c.value # NoValue \/ c.in # <<>> \/ c.dim \notin IntDims THEN fails
             ELSE [g EXCEPT !.rngs = Append(@, c)]
        ELSE IF c.in # <<>> THEN
             IF c.value # NoValue \/ \E s \in Range(c.in) : Invalid(c.dim, s) THEN fails
             ELSE IF inIDs(v, c) = <<>> THEN dies
             ELSE [g EXCEPT !.ins = Append(@, [dim |-> c.dim, ids |-> inIDs(v, c)])]
        ELSE IF Invalid(c.dim, c.value) THEN fails
        ELSE IF idOf(v, c.dim, c.value) = {} THEN dies
        ELSE [g EXCEPT !.conds = Append(@, [dim |-> c.dim, id |-> TheId(idOf(v, c.dim, c.value))])]

\* Some base row could meet every condition.
basePossible(v, g) ==
    LET InBase(d, id) == id < Len(v.base.dicts[d])
    IN  /\ \A i \in DOMAIN g.conds : InBase(g.conds[i].dim, g.conds[i].id)
        /\ \A i \in DOMAIN g.ins : \E id \in Range(g.ins[i].ids) : InBase(g.ins[i].dim, id)

-----------------------------------------------------------------------------
(* plan and planExpand: covering a prefix of the index dimensions.            *)

eqsOn(g, d) == Pick(g.conds, {i \in DOMAIN g.conds : g.conds[i].dim = d})
insOn(g, d) == Pick(g.ins, {i \in DOMAIN g.ins : g.ins[i].dim = d})

\* The base ids dimension d is pinned to, by its last equality, or else expanded
\* over, by its first IN; the base ids of a window are those before the first
\* extras id.
candidates(v, g, d) ==
    IF eqsOn(g, d) # <<>> THEN <<Last(eqsOn(g, d)).id>>
    ELSE IF insOn(g, d) = <<>> THEN <<>>
    ELSE LET ids == Head(insOn(g, d)).ids
         IN  SubSeq(ids, 1, Search(Len(ids), {i \in DOMAIN ids : ids[i] >= Len(v.base.dicts[d])}) - 1)

\* bits.Len
bitLen(n) == IF n = 0 THEN 0 ELSE CHOOSE b \in 1 .. n : 2^(b-1) <= n /\ n < 2^b

\* The odometer: every combination goes on with every candidate of d.
widen(v, g, combos, d) ==
    LET ids == candidates(v, g, d)
    IN  Joined([c \in DOMAIN combos |-> [j \in DOMAIN ids |-> Append(combos[c], ids[j])]])

\* The next dimension of the prefix: expansion by an IN stops when its combinations
\* cost more than a scan, or do not fit in room intervals.
cover(v, g, room, x, i) ==
    LET d == DimOrder[i]
        nRows == Len(v.base.rows)
        n == Len(x.combos) * Len(candidates(v, g, d))
        stops == eqsOn(g, d) = <<>> /\ (n = 0 \/ n * bitLen(nRows) > nRows \/ n > room)
    IN  IF x.stop \/ stops THEN [x EXCEPT !.stop = TRUE]
        ELSE [x EXCEPT !.k = i, !.combos = widen(v, g, @, d)]

\* How many dimensions of the prefix the plan covers, and their combinations.
covered(v, g, room) ==
    FoldLeft(LAMBDA x, i : cover(v, g, room, x, i),
             [k |-> 0, combos |-> <<<<>>>>, stop |-> FALSE], [i \in Prefix |-> i])

\* The rows whose key begins with a combination, up to but not including hi.
interval(v, combo) ==
    LET keys == v.base.keys
        lo == SumSeq([i \in DOMAIN combo |-> combo[i] * 2^v.base.shifts[i]])
        hi == lo + 2^v.base.shifts[Len(combo)] - 1
    IN  [lo |-> Search(Len(keys), {r \in DOMAIN keys : keys[r] >= lo}),
         hi |-> Search(Len(keys), {r \in DOMAIN keys : keys[r] > hi})]

\* The plan of a group with conditions g, of the dimensions covered: the rows the
\* base match is restricted to, and its intervals.
planFrom(v, g, possible, cov) ==
    LET nRows == Len(v.base.rows)
        all == IF cov.k = 0 THEN <<[lo |-> 1, hi |-> nRows + 1]>>
               ELSE [i \in DOMAIN cov.combos |-> interval(v, cov.combos[i])]
        ivs == IF ~possible THEN <<>> ELSE Pick(all, {i \in DOMAIN all : all[i].lo < all[i].hi})
    IN  [group |-> g, basePossible |-> possible, scan |-> possible /\ cov.k = 0, ivs |-> ivs,
         lo |-> Min({nRows + 1} \cup {w.lo : w \in Range(ivs)}),
         hi |-> Max({1} \cup {w.hi : w \in Range(ivs)})]

planOf(v, g, room) ==
    planFrom(v, g, ~g.err /\ ~g.dead /\ basePossible(v, g), covered(v, g, room))

plan(v, conds, room) ==
    planOf(v, FoldLeft(LAMBDA x, c : resolve(v, x, c), unresolved, conds), room)

\* The intervals of all plans so far.
intervals(plans) == Joined([i \in DOMAIN plans |-> plans[i].ivs])

\* Mutant: no slots are reserved for the groups to come.
roomGreedy(cap, plans, groups) == cap - Len(intervals(plans))

\* The slots of qs.ivs a plan may use: each later group is owed one.
room(cap, plans, groups) == cap - Len(intervals(plans)) - (Len(groups) - Len(plans) - 1)

\* The plans of the groups, up to the first that fails.
planNext(v, groups, cap, plans, g) ==
    IF \E i \in DOMAIN plans : plans[i].group.err THEN plans
    ELSE Append(plans, plan(v, g, room(cap, plans, groups)))

planAll(v, groups, cap) ==
    FoldLeft(LAMBDA plans, g : planNext(v, groups, cap, plans, g), <<>>, groups)

planFails(groups, plans) == groups = <<>> \/ \E i \in DOMAIN plans : plans[i].group.err

\* In the order of the sweep.
sortedIvs(plans) == Sorted(intervals(plans), LAMBDA a, b : a.lo < b.lo)

\* Mutant: an overlap with what was visited is not cut off.
clippedNever(w, done) == w.hi - w.lo

\* The rows of an interval beyond those visited.
clipped(w, done) == w.hi - (IF w.lo < done THEN done ELSE w.lo)

counted(s, w) == IF w.hi <= s.hw THEN s ELSE [hw |-> w.hi, rows |-> s.rows + clipped(w, s.hw)]

\* The scan the plans will cost, and whether the budget refuses it.
scanRows(v, plans) ==
    FoldLeft(counted, [hw |-> 1, rows |-> Len(v.delta.rows)], sortedIvs(plans)).rows

overBudget(v, plans) == MaxScanRows > 0 /\ scanRows(v, plans) > MaxScanRows

-----------------------------------------------------------------------------
(* The sweep.                                                                 *)

swept(s, w) ==
    LET lo == IF w.lo < s.done THEN s.done ELSE w.lo
    IN  IF w.hi <= s.done THEN s
        ELSE [done |-> w.hi, rows |-> s.rows \o [j \in 1 .. w.hi - lo |-> lo + j - 1]]

\* The base rows visited, in order, each once.
sweep(ivs) == FoldLeft(swept, [done |-> 1, rows |-> <<>>], ivs).rows

matchConds(p, row) ==
    \A i \in DOMAIN p.group.conds : row.ids[p.group.conds[i].dim] = p.group.conds[i].id

matchBase(p, v, r) ==
    /\ ~p.group.dead /\ p.basePossible
    /\ p.scan \/ (p.lo <= r /\ r < p.hi)
    /\ matchConds(p, v.base.rows[r])

matchDelta(p, row) == ~p.group.dead /\ matchConds(p, row)

\* Linear up to InLinearMax, beyond by bisection.
matchOneIn(ids, id) ==
    IF Len(ids) <= InLinearMax THEN \E i \in DOMAIN ids : ids[i] = id
    ELSE LET at == Search(Len(ids), {i \in DOMAIN ids : ids[i] >= id})
         IN  at <= Len(ids) /\ ids[at] = id

matchIns(p, row) ==
    \A i \in DOMAIN p.group.ins : matchOneIn(p.group.ins[i].ids, row.ids[p.group.ins[i].dim])

matchRanges(p, v, row) ==
    \A i \in DOMAIN p.group.rngs : \A b \in p.group.rngs[i].range :
        LET val == IntVal[dimString(v, p.group.rngs[i].dim, row.ids[p.group.rngs[i].dim])]
        IN  b[1] <= val /\ val <= b[2]

\* queryClock: expiry is looked at only where a row can have expired.
baseExp(v, now) == v.base.minExpire # 0 /\ v.base.minExpire <= now

\* What a group asks beyond the equalities.
hit(v, p, row) == matchIns(p, row) /\ matchRanges(p, v, row)

baseHit(v, plans, now, r) ==
    /\ r \notin v.overridden
    /\ ~(baseExp(v, now) /\ rowExpired(v.base.rows[r].exp, now))
    /\ \E i \in DOMAIN plans : matchBase(plans[i], v, r) /\ hit(v, plans[i], v.base.rows[r])

deltaHit(v, plans, now, row) ==
    /\ ~(v.delta.hasExpiry /\ rowExpired(row.exp, now))
    /\ \E i \in DOMAIN plans : matchDelta(plans[i], row) /\ hit(v, plans[i], row)

\* The rows a query folds, base before delta, each once whatever groups match.
matched(v, plans, now) ==
    LET visits == sweep(sortedIvs(plans))
        base == [i \in DOMAIN visits |-> v.base.rows[visits[i]]]
    IN  Pick(base, {i \in DOMAIN visits : baseHit(v, plans, now, visits[i])})
        \o Pick(v.delta.rows, {r \in DOMAIN v.delta.rows : deltaHit(v, plans, now, v.delta.rows[r])})

-----------------------------------------------------------------------------
(* Answers.  A float is a fraction <<numerator, denominator>>, NaN is <<0, 0>>.*)

Float(n) == <<n, 1>>
NaN == <<0, 0>>

\* queryGroups: the sum of every metric.
sums(rows) == [m \in Metrics |-> SumSeq([i \in DOMAIN rows |-> Metric[rows[i].met][m]])]

AggOps == {"sum", "count", "min", "max", "avg", "distinct"}

\* resolveAggs accepts the column.
aggOK(a) ==
    /\ a.op \in AggOps
    /\ a.metric \in (IF a.op \in {"distinct", "count"} THEN {NoValue} ELSE Metrics)
    /\ a.dim \in (IF a.op = "distinct" THEN Dims ELSE {NoValue})

aggsOK(aggs) == aggs # <<>> /\ \A j \in DOMAIN aggs : aggOK(aggs[j])

\* foldAgg, one column: its accumulator and, for distinct, its bitmap of ids.
foldAgg(a, x, row, first) ==
    LET m == Metric[row.met][a.metric]
    IN  CASE a.op = "distinct" ->
               IF row.ids[a.dim] \in x.bm THEN x
               ELSE [acc |-> x.acc + 1, bm |-> x.bm \cup {row.ids[a.dim]}]
          [] a.op = "count" -> x
          [] a.op \in {"sum", "avg"} -> [x EXCEPT !.acc = @ + m]
          [] a.op = "min" -> [x EXCEPT !.acc = IF first \/ m < @ THEN m ELSE @]
          [] a.op = "max" -> [x EXCEPT !.acc = IF first \/ m > @ THEN m ELSE @]

\* The columns of queryAggs after the sweep, from those it starts with.
foldAggs(aggs, cols, rows) ==
    LET row(x, i) == [j \in DOMAIN x |-> foldAgg(aggs[j], x[j], rows[i], i = 1)]
    IN  FoldLeft(row, cols, [i \in DOMAIN rows |-> i])

aggResult(a, x, n) ==
    CASE a.op = "count" -> Float(n)
      [] a.op \in {"sum", "distinct"} -> Float(x)
      [] a.op = "avg" -> IF n = 0 THEN NaN ELSE <<x, n>>
      [] a.op \in {"min", "max"} -> IF n = 0 THEN NaN ELSE Float(x)

-----------------------------------------------------------------------------
(* Group by.                                                                  *)

byOK(by) == by # <<>> /\ Range(by) \subseteq Dims /\ IsInjective(by)

\* Mutant: the seen triples are not kept apart by group.
dkeyNoGroup(j, g, id) == <<(j - 1) % 2^8, 0, id>>

\* A seen distinct value: the column in a uint8, the group, the id.
dkey(j, g, id) == <<(j - 1) % 2^8, g, id>>

\* The first row of group g, and a further one: the columns and the seen triples.
open(aggs, g, row, seen) ==
    LET key(j) == dkey(j, g, row.ids[aggs[j].dim])
    IN  [cols |-> [j \in DOMAIN aggs |->
                     IF aggs[j].op = "distinct" THEN 1
                     ELSE IF aggs[j].op = "count" THEN 0
                     ELSE Metric[row.met][aggs[j].metric]],
         seen |-> seen \cup {key(j) : j \in {i \in DOMAIN aggs : aggs[i].op = "distinct"}}]

\* Column by column, since a column's triple may be one another just added.
fold(aggs, g, row, cols, seen) ==
    LET step(x, j) ==
            LET key == dkey(j, g, row.ids[aggs[j].dim])
            IN  IF aggs[j].op = "distinct"
                THEN IF key \in x.seen THEN x
                     ELSE [cols |-> [x.cols EXCEPT ![j] = @ + 1], seen |-> x.seen \cup {key}]
                ELSE [x EXCEPT !.cols[j] = foldAgg(aggs[j], [acc |-> @, bm |-> {}], row, FALSE).acc]
    IN  FoldLeft(step, [cols |-> cols, seen |-> seen], [j \in DOMAIN aggs |-> j])

\* visit: the row's group by its ids, opened if there is none.
visit(by, aggs, s, row) ==
    LET ids == [i \in DOMAIN by |-> row.ids[by[i]]]
        at == {g \in DOMAIN s.groups : s.groups[g].ids = ids}
        new == open(aggs, Len(s.groups) + 1, row, s.seen)
        g == Min(at)
        old == fold(aggs, g, row, s.groups[g].cols, s.seen)
    IN  IF at = {}
        THEN [groups |-> Append(s.groups, [ids |-> ids, cols |-> new.cols, cnt |-> 1]), seen |-> new.seen]
        ELSE [groups |-> [s.groups EXCEPT ![g].cols = old.cols, ![g].cnt = @ + 1], seen |-> old.seen]

\* By the strings of the keys, in by order.
keyBefore(a, b) ==
    \E i \in DOMAIN a : Rank[a[i]] < Rank[b[i]] /\ \A j \in 1 .. i - 1 : a[j] = b[j]

\* queryGroupBy: the groups' keys and columns, sorted.
groupBy(v, by, aggs, rows) ==
    LET groups == FoldLeft(LAMBDA s, row : visit(by, aggs, s, row), [groups |-> <<>>, seen |-> {}], rows).groups
        out == [g \in DOMAIN groups |->
                  [key |-> [i \in DOMAIN by |-> dimString(v, by[i], groups[g].ids[i])],
                   aggs |-> [j \in DOMAIN aggs |-> aggResult(aggs[j], groups[g].cols[j], groups[g].cnt)]]]
    IN  Sorted(out, LAMBDA a, b : keyBefore(a.key, b.key))

-----------------------------------------------------------------------------
(* What a query should answer, of the table the view stands for.              *)

Meets(x, c) ==
    /\ c.dim \in Dims
    /\ c.range = {} => x.dims[c.dim] \in {Canon(c.dim, s) : s \in IF c.in = <<>> THEN {c.value} ELSE Range(c.in)}
    /\ \A b \in c.range : c.dim \in IntDims /\ b[1] <= IntVal[x.dims[c.dim]] /\ IntVal[x.dims[c.dim]] <= b[2]

WellFormed(c) ==
    /\ c.dim \in Dims
    /\ c.range # {} => c.value = NoValue /\ c.in = <<>> /\ c.dim \in IntDims
    /\ c.in # <<>> => c.value = NoValue
    /\ c.range = {} => \A s \in IF c.in = <<>> THEN {c.value} ELSE Range(c.in) : ~Invalid(c.dim, s)

Selected(v, groups, now) ==
    {x \in Logical(AbsView(v)) :
        /\ ~rowExpired(x.exp, now)
        /\ \E i \in DOMAIN groups : \A j \in DOMAIN groups[i] : Meets(x, groups[i][j])}

Total(rows, m) == MapThenSumSet(LAMBDA x : Metric[x.met][m], rows)

Expected(a, rows) ==
    LET values == {Metric[x.met][a.metric] : x \in rows}
    IN  CASE a.op = "count" -> Float(Cardinality(rows))
          [] a.op = "distinct" -> Float(Cardinality({x.dims[a.dim] : x \in rows}))
          [] a.op = "sum" -> Float(Total(rows, a.metric))
          [] a.op = "avg" -> IF rows = {} THEN NaN ELSE <<Total(rows, a.metric), Cardinality(rows)>>
          [] a.op = "min" -> IF rows = {} THEN NaN ELSE Float(Min(values))
          [] a.op = "max" -> IF rows = {} THEN NaN ELSE Float(Max(values))

ExpectedGroups(by, aggs, rows) ==
    LET key(x) == [i \in DOMAIN by |-> x.dims[by[i]]]
    IN  {[key |-> k, aggs |-> [j \in DOMAIN aggs |-> Expected(aggs[j], {x \in rows : key(x) = k})]] :
            k \in {key(x) : x \in rows}}
=============================================================================
