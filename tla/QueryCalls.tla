------------------------------ MODULE QueryCalls ------------------------------
(* Query calls one after the other over whatever view is published: each is   *)
(* routed by its shape to scratch memory on the stack or from a pool, runs,   *)
(* and returns pooled scratch (scratch.go and the entry points in query.go,   *)
(* agg.go and groupby.go).                                                    *)
(*                                                                            *)
(* A call is one step: it reads an immutable view, samples the clock once and *)
(* writes scratch nobody else has.  Calls that overlap take other scratches   *)
(* of the pool, or new ones, as calls one after the other may too.            *)
EXTENDS Query

CONSTANTS Views,          \* column views the store may publish
          Queries,        \* calls
          Clocks,         \* instants
          Fast,           \* capacities of the stack scratch
          ExpansionIvs,   \* expansionIvs
          IvDemandCap,    \* ivDemandCap
          Weight,         \* bytes of an element of each pool slice
          MaxPooledBytes, \* maxPooledScratchBytes
          MaxPool         \* bound on the scratches in the pool

\* The slices of a scratch that share a length.
Parts == {"plans", "ivs", "conds", "inWins", "inPool", "rWins", "aggs"}

\* The stack has an interval for each group, and fewer than ivDemandCap.
ASSUME ScratchAssumption ==
    /\ Fast \in [Parts -> Nat] /\ Fast["plans"] <= Fast["ivs"] /\ Fast["ivs"] < IvDemandCap
    /\ Weight \in [Parts -> Nat]
    /\ ExpansionIvs \in Nat /\ IvDemandCap \in Nat /\ MaxPooledBytes \in Nat /\ MaxPool \in Nat

\* What the store publishes is right, as ColumnTable shows.
ASSUME ViewsAssumption == \A v \in Views : ReadsRight(v)

\* Cond and Agg, as callers may fill them in.
Conds == [dim : Dims \cup Spellings, value : Spellings, in : Seq(Spellings), range : SUBSET (Int \X Int)]
Aggs == [op : AggOps \cup {NoValue}, metric : Metrics \cup Spellings, dim : Dims \cup Spellings]

ASSUME CallsAssumption ==
    /\ Clocks \subseteq Time
    /\ \A q \in Queries :
          q.groups \in Seq(Seq(Conds)) /\ q.aggs \in Seq(Aggs) /\ q.by \in Seq(Dims \cup Spellings)

VARIABLES view,  \* Store.view: the published view
          pool,  \* the scratches of the pool
          last   \* the call in hand and what it did, a set of at most one

vars == <<view, pool, last>>

-----------------------------------------------------------------------------
(* Shapes and scratches.                                                      *)

isIn(c) == c.range = {} /\ c.in # <<>>

\* The intervals the INs of a group may expand to.
groupIvDemand(g) ==
    FoldLeft(LAMBDA demand, c : IF c.in = <<>> THEN demand
                                ELSE IF demand > IvDemandCap \div Len(c.in) THEN IvDemandCap
                                ELSE demand * Len(c.in),
             1, g)

\* What a condition needs of a slice.
condNeeds(c, p) ==
    CASE p = "rWins" -> IF c.range # {} THEN 1 ELSE 0
      [] p = "inWins" -> IF isIn(c) THEN 1 ELSE 0
      [] p = "inPool" -> IF isIn(c) THEN Len(c.in) ELSE 0
      [] p = "conds" -> IF c.range = {} /\ c.in = <<>> THEN 1 ELSE 0

groupNeeds(g, p) == SumSeq([j \in DOMAIN g |-> condNeeds(g[j], p)])

measureShape(q) ==
    LET total(p) == SumSeq([i \in DOMAIN q.groups |-> groupNeeds(q.groups[i], p)])
    IN  [plans |-> Len(q.groups),
         ivs |-> SumSeq([i \in DOMAIN q.groups |-> groupIvDemand(q.groups[i])]),
         conds |-> total("conds"), inWins |-> total("inWins"), inPool |-> total("inPool"),
         rWins |-> total("rWins"), aggs |-> Len(q.aggs)]

\* Mutant: how far INs may expand is no reason to leave the stack.
fitsAnyDemand(sh) == \A p \in Parts \ {"ivs"} : sh[p] <= Fast[p]

fits(sh) ==
    /\ ~(sh.inWins > 0 /\ sh.ivs > Fast["ivs"])
    /\ \A p \in Parts \ {"ivs"} : sh[p] <= Fast[p]

\* A scratch with its capacities; accumulators and bitmaps are kept in it.
newScratch(cap) ==
    [cap |-> cap, acc |-> [j \in 1 .. cap["aggs"] |-> 0], bms |-> [j \in 1 .. cap["aggs"] |-> <<>>]]

\* Every slice is grown, and then new, where it is too short.
grow(s, sh) ==
    LET need == [sh EXCEPT !.ivs = sh.plans + IF sh.inWins > 0 THEN ExpansionIvs ELSE 0]
        cap == [p \in Parts |-> IF s.cap[p] < need[p] THEN need[p] ELSE s.cap[p]]
    IN  IF cap["aggs"] = s.cap["aggs"] THEN [s EXCEPT !.cap = cap] ELSE newScratch(cap)

retainedBytes(s) == MapThenSumSet(LAMBDA p : s.cap[p] * Weight[p], Parts)

\* Mutant: bitmaps go back to the pool.
unpinnedNever(s, n) == s

\* The first n bitmaps are dropped.
unpinned(s, n) == [s EXCEPT !.bms = [j \in DOMAIN s.bms |-> IF j <= n THEN <<>> ELSE s.bms[j]]]

\* What the pool gets back of a scratch that served n columns.
released(s, n) == IF retainedBytes(s) > MaxPooledBytes THEN {} ELSE {unpinned(s, n)}

\* The scratches a call of this shape may get: one on the stack, or one of the
\* pool's or a new one, grown.
leases(sh) ==
    IF fits(sh) THEN {[onStack |-> TRUE, from |-> {}, s |-> newScratch(Fast)]}
    ELSE {[onStack |-> FALSE, from |-> {s}, s |-> grow(s, sh)] :
             s \in pool \cup {x \in {newScratch([p \in Parts |-> 0])} : Cardinality(pool) < MaxPool}}

-----------------------------------------------------------------------------
(* Running a query on a scratch.                                              *)

\* Mutant: accumulators keep what the last query left.
zeroedNever(acc, n) == acc

\* The accumulators with the first n reset.
zeroed(acc, n) == [j \in DOMAIN acc |-> IF j <= n THEN 0 ELSE acc[j]]

\* The arguments the entry points reject before they plan.
Accepted(q) == (q.kind # "groups" => aggsOK(q.aggs)) /\ (q.kind = "by" => byOK(q.by))

\* The bitmaps of queryAggs: one for each distinct column, nil for the others.
bitmaps(s, q) ==
    IF q.kind # "aggs" \/ ~aggsOK(q.aggs) THEN s.bms
    ELSE [j \in DOMAIN s.bms |-> IF j > Len(q.aggs) THEN s.bms[j]
                                 ELSE IF q.aggs[j].op = "distinct" THEN <<{}>> ELSE <<>>]

\* What a resolved group takes of a slice.
groupTakes(g, p) ==
    CASE p = "rWins" -> Len(g.rngs)
      [] p = "inWins" -> Len(g.ins)
      [] p = "inPool" -> SumSeq([i \in DOMAIN g.ins |-> Len(g.ins[i].ids)])
      [] p = "conds" -> Len(g.conds)

\* The lengths the slices of the scratch reach.
lengths(q, plans) ==
    LET total(p) == SumSeq([i \in DOMAIN plans |-> groupTakes(plans[i].group, p)])
    IN  [plans |-> Len(q.groups), ivs |-> Len(intervals(plans)),
         conds |-> total("conds"), inWins |-> total("inWins"), inPool |-> total("inPool"),
         rWins |-> total("rWins"), aggs |-> Len(q.aggs)]

\* What is answered once the groups are planned, by the kind of the query.
runPlans(s, q, v, now, plans) ==
    LET err == ~Accepted(q) \/ planFails(q.groups, plans)
        over == ~err /\ overBudget(v, plans)
        rows == matched(v, plans, now)
        acc == zeroed(s.acc, Len(q.aggs))
        bms == bitmaps(s, q)
        start == [j \in DOMAIN q.aggs |-> [acc |-> acc[j], bm |-> IF bms[j] = <<>> THEN {} ELSE bms[j][1]]]
        cols == foldAggs(q.aggs, start, rows)
        folds == q.kind = "aggs" /\ ~err /\ ~over
    IN  [scratch |-> [s EXCEPT
             !.acc = IF folds THEN [j \in DOMAIN acc |-> IF j > Len(cols) THEN acc[j] ELSE cols[j].acc] ELSE @,
             !.bms = IF folds THEN [j \in DOMAIN bms |-> IF bms[j] # <<>> /\ j <= Len(cols)
                                                          THEN <<cols[j].bm>> ELSE bms[j]]
                     ELSE bms],
         err |-> err, over |-> over,
         lengths |-> lengths(q, plans),
         visited |-> Len(sweep(sortedIvs(plans))) + Len(v.delta.rows),
         value |-> IF err \/ over THEN <<>>
                   ELSE CASE q.kind = "groups" -> <<sums(rows)>>
                          [] q.kind = "aggs" ->
                               [j \in DOMAIN cols |-> aggResult(q.aggs[j], cols[j].acc, Len(rows))]
                          [] q.kind = "by" -> groupBy(v, q.by, q.aggs, rows)]

run(s, q, v, now) ==
    runPlans(s, q, v, now, IF Accepted(q) THEN planAll(v, q.groups, s.cap["ivs"]) ELSE <<>>)

-----------------------------------------------------------------------------
Init == view \in Views /\ pool = {} /\ last = {}

\* The columns queryAggs has run over and whose bitmaps the release drops.
resolved(q) == IF q.kind = "aggs" /\ aggsOK(q.aggs) THEN Len(q.aggs) ELSE 0

Call(q, now) ==
    /\ last = {}
    /\ \E l \in leases(measureShape(q)) : \E r \in {run(l.s, q, view, now)} :
         /\ pool' = IF l.onStack THEN pool ELSE (pool \ l.from) \cup released(r.scratch, resolved(q))
         /\ last' = {[query |-> q, now |-> now, onStack |-> l.onStack, cap |-> l.s.cap,
                      err |-> r.err, over |-> r.over, lengths |-> r.lengths,
                      visited |-> r.visited, value |-> r.value]}
    /\ UNCHANGED view

\* The caller has its answer.
Return == last # {} /\ last' = {} /\ UNCHANGED <<view, pool>>

\* sync.Pool forgets scratches as it likes.
Evict == last = {} /\ (\E s \in pool : pool' = pool \ {s}) /\ UNCHANGED <<view, last>>

\* The store publishes a view; Store and Columns say which.
Publish == last = {} /\ view' \in Views /\ UNCHANGED <<pool, last>>

Next ==
    \/ \E q \in Queries, now \in Clocks : Call(q, now)
    \/ Return
    \/ Evict
    \/ Publish

Spec == Init /\ [][Next]_vars

-----------------------------------------------------------------------------
(* Properties, of the call in hand.                                           *)

Wanted(c) == Selected(view, c.query.groups, c.now)

\* Only arguments that are wrong fail a query.  A wrong condition need not: an
\* earlier one of its group that nothing can meet ends the group first.
Refusable(q) ==
    \/ ~Accepted(q) \/ q.groups = <<>>
    \/ \E i \in DOMAIN q.groups : \E j \in DOMAIN q.groups[i] : ~WellFormed(q.groups[i][j])

\* Sums and aggregates are those of the rows and values the view stands for,
\* each row once, whatever the plan (scan, prefix, expansion, overlapping groups)
\* and whatever scratch of whatever earlier query serves the call.
AnswersExact ==
    \A c \in last :
        LET q == c.query
        IN  /\ c.err => Refusable(q)
            /\ ~c.err /\ ~c.over => Accepted(q)
            /\ ~c.err /\ ~c.over /\ q.kind = "groups" =>
                 c.value = <<[m \in Metrics |-> Total(Wanted(c), m)]>>
            /\ ~c.err /\ ~c.over /\ q.kind = "aggs" =>
                 c.value = [j \in DOMAIN q.aggs |-> Expected(q.aggs[j], Wanted(c))]

\* A group-by has a row for each key among the rows wanted, with the aggregates
\* of those rows, ascending by key.
GroupsExact ==
    \A c \in last :
        LET q == c.query
        IN  q.kind = "by" /\ ~c.err /\ ~c.over =>
              /\ Range(c.value) = ExpectedGroups(q.by, q.aggs, Wanted(c))
              /\ \A g \in 1 .. Len(c.value) - 1 : keyBefore(c.value[g].key, c.value[g + 1].key)

\* Distinct counts are exact in each column, however many columns there are: equal
\* columns of a group-by hold equal values.
DistinctPerColumn ==
    \A c \in last :
        LET q == c.query
        IN  q.kind = "by" /\ ~c.err /\ ~c.over =>
              \A g \in DOMAIN c.value : \A i, j \in DOMAIN q.aggs :
                  q.aggs[i] = q.aggs[j] => c.value[g].aggs[i] = c.value[g].aggs[j]

\* The work known after planning is the work the sweep does: a query is refused
\* if and only if it would visit more than MaxScanRows rows.
BudgetBoundsScan ==
    \A c \in last : ~c.err /\ MaxScanRows > 0 => (c.over <=> c.visited > MaxScanRows)

\* No slice of the scratch is extended beyond its capacity, which would panic:
\* neither by the shape the routing measured nor by the expansion of INs.
NeverGrows == \A c \in last : \A p \in Parts : c.lengths[p] <= c.cap[p]

\* On the stack no group's expansion takes the intervals another one needed: every
\* group is planned as if there were room for all.
StackNeverStarves ==
    \A c \in last :
        LET q == c.query
            plans(cap) == planAll(view, q.groups, cap)
        IN  c.onStack /\ Accepted(q) => plans(Fast["ivs"]) = plans(Fast["ivs"] + IvDemandCap)

\* A scratch in the pool keeps no query's bitmaps alive.
PooledPinsNothing == \A s \in pool : \A j \in DOMAIN s.bms : s.bms[j] = <<>>
=============================================================================
