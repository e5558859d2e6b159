------------------------------ MODULE ViewTable ------------------------------
(* A table as a sequence of whole writer calls over View: what a batch, a     *)
(* merge and a dump make of the published view when nothing runs in between.  *)
(* Store has the same operations in steps; here they are the specification    *)
(* the columns of ColumnTable implement.                                      *)
EXTENDS View, SequencesExt

CONSTANTS Clocks,    \* instants at which calls sample the clock
          MaxApply,  \* bound on the records of one Apply
          MaxReplace \* bound on the records of one ReplaceAll

VARIABLE table

Batches == UNION {[1 .. n -> Inputs] : n \in 1 .. MaxApply}
Dumps == UNION {[1 .. n -> Inputs] : n \in 0 .. MaxReplace}
Cutoffs == {ttlCutoff(t) : t \in Clocks}

Init == table = newView(emptySnapshot)

Apply(recs, cutoff, blocked) ==
    /\ \A i \in DOMAIN recs : ~Rejected(recs[i], cutoff)
    /\ table' = FoldLeft(LAMBDA v, r : IF Aged(r, cutoff) THEN v ELSE ApplyRecord(v, ToRow(r), blocked),
                         table, recs)

Compact(cutoff, t, renumber) ==
    LET snap == mergeView(table, cutoff, t, renumber)
    IN  ~KeyOverflow(snap.dicts) /\ table' = newView(snap)

Rebuild(recs, cutoff, t) ==
    /\ ~BuildFails(Range(recs), cutoff)
    /\ \E snap \in buildFromRecords(Range(recs), cutoff, t) : table' = newView(snap)

Next ==
    \E cutoff \in Cutoffs :
        \/ \E recs \in Batches, blocked \in BOOLEAN : Apply(recs, cutoff, blocked)
        \/ \E t \in Clocks, renumber \in BOOLEAN : Compact(cutoff, t, renumber)
        \/ \E recs \in Dumps, t \in Clocks : Rebuild(recs, cutoff, t)

Spec == Init /\ [][Next]_table
=============================================================================
