------------------------------- MODULE MCQuery -------------------------------
(* Instances of QueryCalls for TLC.                                           *)
EXTENDS QueryCalls, TLC

\* As in MCColumns: two index dimensions and a further one of integers.
MCDims == {"s", "n", "p"}
MCIndexDims == {"s", "n"}
MCIntDims == {"p"}
MCDimOrder == <<"n", "s", "p">>
Order == <<"", "01", "1", "2", "3", "a", "b", "c", "d", "e", "z">>
MCSpellings == {Order[i] : i \in DOMAIN Order}
MCRank == [v \in MCSpellings |-> CHOOSE i \in DOMAIN Order : Order[i] = v]
MCNonInt == "not an integer"
MCParseInt == [v \in MCSpellings |->
                  CASE v \in {"1", "01"} -> "1" [] v \in {"2", "3"} -> v [] OTHER -> MCNonInt]
MCIntVal == [v \in {"1", "2", "3"} |-> CASE v = "1" -> 1 [] v = "2" -> 2 [] OTHER -> 3]
MCZeroTime == -9

MCPayloads == {"x", "y", "w"}
MCMetrics == {"imp", "rev"}
MCMetric == [v \in MCPayloads |->
                [m \in MCMetrics |-> CASE v = "x" -> IF m = "imp" THEN 1 ELSE 7
                                       [] v = "y" -> IF m = "imp" THEN 2 ELSE -3
                                       [] OTHER -> IF m = "imp" THEN 5 ELSE 0]]

Rec(n, s, p, upd, exp, met) ==
    [dims |-> [d \in MCDims |-> CASE d = "s" -> s [] d = "n" -> n [] OTHER -> p], arity |-> TRUE,
     upd |-> upd, exp |-> exp, met |-> met]

\* A row for each of four values of "n" with each of five of "s": just enough for
\* an expansion over both index dimensions to pay.  At 6 some have expired.
Ns == <<"b", "a", "d", "c">>
Ss == <<"d", "a", "e", "b", "c">>
Full == [i \in 1 .. 20 |->
            LET n == Ns[((i - 1) \div 5) + 1]
                s == Ss[((i - 1) % 5) + 1]
            IN  Rec(n, s, IF i % 2 = 0 THEN "1" ELSE "2", 4,
                    IF s = "a" THEN 6 ELSE IF s = "e" THEN 9 ELSE MCZeroTime,
                    IF i % 3 = 0 THEN "x" ELSE IF n = "a" THEN "w" ELSE "y")]

\* New rows of known and of unknown values, one expired; the fourth and the fifth
\* update rows of Full, the fifth in another spelling.
Fresh == <<Rec("a", "a", "01", 5, MCZeroTime, "x"), Rec("z", "a", "1", 4, MCZeroTime, "w"),
           Rec("a", "z", "2", 5, 6, "y"), Rec("b", "d", "2", 5, MCZeroTime, "w"),
           Rec("c", "e", "01", 5, 9, "x"), Rec("c", "c", "3", 5, 9, "w")>>

MCInputs == {Full[i] : i \in DOMAIN Full} \cup {Fresh[i] : i \in DOMAIN Fresh}

ViewOf(snap) == newColumnView(snap, [d \in Dims |-> <<>>])

\* A view after one Apply.
After(v, recs) ==
    LET h == [d \in Dims |-> <<v.base.dicts[d], v.extras[d], <<>>, <<>>>>]
        byRef == [v EXCEPT !.base.dicts = Everywhere(BaseRef), !.extras = Everywhere(ExtrasRef)]
        c == FoldLeft(LAMBDA e, r : UpsertRecord(e, r, 0, FALSE), Started(h, byRef), recs)
    IN  Deref(c.heap, c.view)

\* Only a delta; a base and a delta; the same after a merge that kept ids.
MCViews ==
    LET Base == CHOOSE s \in buildColumns(Full, 5) : TRUE
        Updated == {After(ViewOf(s), Fresh) : s \in {emptyColumns, Base}}
        Merged(v) == After(ViewOf(CHOOSE s \in zipMerge(v, 0, 6, FALSE) : TRUE), SubSeq(Full, 9, 14))
    IN  UNION {{v} \cup {Merged(x) : x \in {y \in {v} : y.base.rows # <<>>}} : v \in Updated}

-----------------------------------------------------------------------------
Eq(d, s) == [dim |-> d, value |-> s, in |-> <<>>, range |-> {}]
In(d, ss) == [dim |-> d, value |-> "", in |-> ss, range |-> {}]
Rng(d, lo, hi) == [dim |-> d, value |-> "", in |-> <<>>, range |-> {<<lo, hi>>}]

Agg(op, m) == [op |-> op, metric |-> m, dim |-> ""]
Distinct(d) == [op |-> "distinct", metric |-> "", dim |-> d]

Sum(groups) == [kind |-> "groups", groups |-> groups, aggs |-> <<>>, by |-> <<>>]
AggsOf(aggs, groups) == [kind |-> "aggs", groups |-> groups, aggs |-> aggs, by |-> <<>>]
By(by, aggs, groups) == [kind |-> "by", groups |-> groups, aggs |-> aggs, by |-> by]

AllOps == <<Distinct("s"), Agg("sum", "rev"), Agg("count", ""), Agg("min", "rev"),
            Agg("max", "rev"), Agg("avg", "imp"), Distinct("p")>>

MCQueries == {
    \* everything; a prefix and a narrower one inside it; no prefix
    Sum(<<<<>>>>), Sum(<<<<Eq("n", "a")>>, <<Eq("n", "a"), Eq("s", "b")>>>>), Sum(<<<<Eq("s", "a")>>>>),
    \* expansion over one and both, on the stack, then more than it may have room for
    Sum(<<<<In("n", <<"c", "a">>), Eq("s", "e")>>>>),
    Sum(<<<<In("n", <<"c", "a">>), In("s", <<"b", "e">>)>>>>),
    Sum(<<<<In("n", <<"c", "a">>)>>, <<In("n", <<"b", "d", "a">>)>>>>),
    Sum(<<<<In("n", <<"c", "a">>), In("s", <<"b", "a", "e">>)>>>>),
    Sum(<<<<In("n", <<"c", "a", "b">>)>>, <<In("n", <<"b", "d", "a">>)>>>>),
    \* two groups of expansions, repeated values, values only the delta has or none
    Sum(<<<<In("n", <<"a", "b", "a", "c", "z">>)>>, <<In("n", <<"b">>), In("s", <<"a", "z">>)>>>>),
    Sum(<<<<In("s", <<"e", "a", "c">>), In("n", <<"z", "e", "a">>)>>, <<Eq("p", "01")>>>>),
    \* both kinds on a dimension, two INs on one, a range, a value of the delta
    Sum(<<<<Eq("n", "a"), In("n", <<"a", "b">>), Rng("p", 2, 9)>>, <<Eq("s", "z")>>>>),
    AggsOf(SubSeq(AllOps, 2, 3), <<<<In("n", <<"a", "b">>), In("n", <<"b", "c">>), Rng("p", 1, 1)>>>>),
    \* more columns than the stack has, then other columns on the same scratch
    AggsOf(AllOps, <<<<Eq("n", "c")>>, <<Rng("p", 2, 3), Eq("s", "a")>>>>),
    AggsOf(<<Agg("sum", "imp"), Distinct("n"), Agg("avg", "rev")>>, <<<<Eq("n", "b"), Eq("s", "a")>>>>),
    By(<<"p">>, AllOps, <<<<In("n", <<"b", "a">>)>>, <<Eq("s", "d")>>>>),
    By(<<"s", "n">>, <<Distinct("p"), Agg("count", "")>>, <<<<Eq("p", "3")>>, <<Eq("n", "a")>>>>),
    \* wrong arguments, one of them after a condition nothing meets
    Sum(<<>>), Sum(<<<<Eq("p", "a")>>>>), Sum(<<<<Eq("n", "e"), Eq("d", "a")>>>>),
    AggsOf(<<Agg("sum", "imp"), Agg("max", "a")>>, <<<<>>>>),
    AggsOf(<<Distinct("s"), Distinct("n"), Distinct("p")>>, <<<<In("p", <<"1", "b">>)>>>>),
    By(<<"s", "s">>, <<Agg("count", "")>>, <<<<>>>>)}

\* 257 distinct counts of "s" for each value of "n", over two rows of one value.
MCTwoRows == {After(ViewOf(emptyColumns), SubSeq(Fresh, 5, 6))}
MCWide == {By(<<"n">>, [j \in 1 .. 257 |-> Distinct("s")], <<<<>>>>),
            Sum(<<<<>>>>)}

MCFast == [plans |-> 2, ivs |-> 5, conds |-> 2, inWins |-> 2, inPool |-> 6, rWins |-> 1, aggs |-> 2]
MCWeight == [plans |-> 3, ivs |-> 1, conds |-> 1, inWins |-> 1, inPool |-> 1, rWins |-> 1, aggs |-> 2]
=============================================================================
