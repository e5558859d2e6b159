-------------------------------- MODULE View --------------------------------
(* The immutable table a reader loads through one pointer: a compacted base   *)
(* snapshot and a delta overlay of fresh upserts that shadows it (view.go),   *)
(* and the operations that make one: upsert, merge, rebuild (view.go,         *)
(* snapshot.go, dict.go).                                                     *)
(*                                                                            *)
(* Abstraction: rows are sets of Row and a dictionary is the set of values it *)
(* holds, so the dense ids, the packed keys and the row order are left out    *)
(* (what a key costs in bits is kept).  Uniqueness of tuples is then no       *)
(* property of the data type but something every operation must maintain.     *)
EXTENDS Records, FiniteSets

CONSTANTS MaxRows,             \* Config.MaxRows, 0 = no cap
          DictCompactInterval, \* Config.DictCompactInterval, 0 = every merge
          KeyBudget            \* bits of a packed index key, 64 in the code

ASSUME LimitAssumption ==
    MaxRows \in Nat /\ DictCompactInterval \in Nat /\ KeyBudget \in Nat

Dicts == [Dims -> SUBSET Spellings]
Snapshot == [rows: SUBSET Row, dicts: Dicts,
             maxUpdated: Time, minUpdated: Time, minExpire: Time]
Delta == [rows: SUBSET Row, maxUpdated: Time, hasExpiry: BOOLEAN]
AnyView == [base: Snapshot, delta: Delta, extras: Dicts, overridden: SUBSET Row]

-----------------------------------------------------------------------------
(* Snapshots.                                                                 *)

\* bits.Len(n - 1), at least 1: the width of an index dimension of n values.
dictBits(n) == IF n <= 2 THEN 1 ELSE CHOOSE b \in 2 .. n : 2^(b-1) < n /\ n <= 2^b

keyBits(dicts) == MapThenSumSet(LAMBDA d : dictBits(Cardinality(dicts[d])), IndexDims)

\* computeShifts fails with ErrKeyOverflow.
KeyOverflow(dicts) == keyBits(dicts) > KeyBudget

\* The scalars trackMin and the maxUpdated loops leave: 0 when there is no row.
MaxUpdated(rows) == Max({0} \cup {x.upd : x \in rows})
MinUpdated(rows) == IF rows = {} THEN 0 ELSE Min({x.upd : x \in rows})
Expiries(rows) == {x.exp : x \in rows} \ {0}

\* Mutant: 0, "never", counts as the smallest expiry.
MinExpireOrNever(rows) == IF rows = {} THEN 0 ELSE Min({x.exp : x \in rows})

MinExpire(rows) == IF Expiries(rows) = {} THEN 0 ELSE Min(Expiries(rows))

NewSnapshot(rows, dicts) ==
    [rows |-> rows, dicts |-> dicts, maxUpdated |-> MaxUpdated(rows),
     minUpdated |-> MinUpdated(rows), minExpire |-> MinExpire(rows)]

NoValues == [d \in Dims |-> {}]

emptySnapshot == NewSnapshot({}, NoValues)

\* schema.validate admits at most 16 dimensions, of one bit each when empty.
ASSUME EmptyKeyFits == ~KeyOverflow(NoValues)

\* The values rows use, per dimension.
ValuesOf(rows) == [d \in Dims |-> {x.dims[d] : x \in rows}]

\* Mutant: the search of the packed keys misses the row.
findNoRow(base, t) == {}

\* The row of a tuple, as a set of at most one.
findRow(base, t) == {b \in base.rows : b.dims = t}

-----------------------------------------------------------------------------
(* Views.                                                                     *)

emptyDelta == [rows |-> {}, maxUpdated |-> 0, hasExpiry |-> FALSE]

newView(base) == [base |-> base, delta |-> emptyDelta, extras |-> NoValues, overridden |-> {}]

maxUpdated(v) == IF v.delta.maxUpdated > v.base.maxUpdated
                 THEN v.delta.maxUpdated ELSE v.base.maxUpdated

\* The table a view stands for.
Logical(v) == (v.base.rows \ v.overridden) \cup v.delta.rows

AllInBase(v, t) == \A d \in Dims : t[d] \in v.base.dicts[d]

\* Values of t the base does not know are interned in the extras.
Interned(v, t) ==
    [d \in Dims |-> v.extras[d] \cup ({t[d]} \ v.base.dicts[d])]

\* Mutant: a stale upsert is one that is not newer.
SupersededOrEqual(rows, upd) == \E x \in rows : x.upd >= upd

Superseded(rows, upd) == \E x \in rows : x.upd > upd

\* Mutant: the cap block does not reach the upsert loop.
DroppedNever(capBlocked, found) == FALSE

\* While the row cap blocks, a record may only update a row that is there.
Dropped(capBlocked, found) == capBlocked /\ found = {}

\* One iteration of applyDelta's loop, for a record that is neither rejected
\* nor aged.  Its values are interned even when the row is then not stored.
ApplyRecord(v, row, capBlocked) ==
    LET hit == {x \in v.delta.rows : x.dims = row.dims}
        br == IF hit = {} /\ AllInBase(v, row.dims) THEN findRow(v.base, row.dims) ELSE {}
        stored == ~Superseded(hit \cup br, row.upd) /\ ~Dropped(capBlocked, hit \cup br)
    IN  [base |-> v.base,
         delta |-> [rows |-> IF stored THEN (v.delta.rows \ hit) \cup {row} ELSE v.delta.rows,
                    maxUpdated |-> IF (stored \/ hit # {}) /\ row.upd > v.delta.maxUpdated
                                   THEN row.upd ELSE v.delta.maxUpdated,
                    hasExpiry |-> v.delta.hasExpiry \/ (stored /\ row.exp # 0)],
         extras |-> Interned(v, row.dims),
         overridden |-> IF stored THEN v.overridden \cup br ELSE v.overridden]

\* mergeView and zipMerge: base minus overridden plus delta, minus the aged and
\* the expired.  Renumbering keeps only the dictionary entries still in use.
Survivors(v, cutoff, now) == Survive(Logical(v), cutoff, now)

MergedDicts(v, rows, renumber) ==
    IF renumber THEN ValuesOf(rows) ELSE [d \in Dims |-> v.base.dicts[d] \cup v.extras[d]]

mergeView(v, cutoff, now, renumber) ==
    LET rows == Survivors(v, cutoff, now)
    IN  NewSnapshot(rows, MergedDicts(v, rows, renumber))

\* buildFromRecords: the sort puts the newest of a tuple first and leaves the
\* order of equally new ones open, so the snapshots it may build are a set.
\* Dictionaries are filled before deduplication and before expiry.
KeptRows(recs, cutoff) == {ToRow(r) : r \in {q \in recs : ~Aged(q, cutoff)}}

Deduped(rows) ==
    LET newest == {x \in rows : \A y \in rows : y.dims = x.dims => y.upd <= x.upd}
    IN  {keep \in SUBSET newest : UniqueTuples(keep) /\ Tuples(keep) = Tuples(rows)}

BuildFails(recs, cutoff) ==
    \/ \E r \in recs : Rejected(r, cutoff)
    \/ KeyOverflow(ValuesOf(KeptRows(recs, cutoff)))

\* Mutant: maxUpdated is taken before the expired rows are dropped.
buildKeepsMaxUpdated(recs, cutoff, now) ==
    LET rows == KeptRows(recs, cutoff)
    IN  {[NewSnapshot({x \in keep : ~rowExpired(x.exp, now)}, ValuesOf(rows))
             EXCEPT !.maxUpdated = MaxUpdated(rows)] : keep \in Deduped(rows)}

buildFromRecords(recs, cutoff, now) ==
    LET rows == KeptRows(recs, cutoff)
    IN  {NewSnapshot({x \in keep : ~rowExpired(x.exp, now)}, ValuesOf(rows)) : keep \in Deduped(rows)}

\* Mutant: one row too many passes.
OverCapByOne(rows) == MaxRows > 0 /\ Cardinality(rows) > MaxRows + 1

OverCap(rows) == MaxRows > 0 /\ Cardinality(rows) > MaxRows

-----------------------------------------------------------------------------
(* What readers ask of a view.                                                *)

\* Mutant: rows that aged out or expired in the base are no reason to compact.
NeedsCompactionDelta(v, now) == v.delta.rows # {}

NeedsCompaction(v, now) ==
    \/ v.delta.rows # {}
    \/ TTL > 0 /\ v.base.minUpdated # 0 /\ v.base.minUpdated < now - TTL
    \/ v.base.minExpire # 0 /\ v.base.minExpire <= now

\* queryClock decides whether expiry is looked at; the sweep over the base
\* skips overridden rows, the scan of the delta visits every row.
BaseScan(v, now) ==
    LET baseExp == v.base.minExpire # 0 /\ v.base.minExpire <= now
    IN  {x \in v.base.rows \ v.overridden : ~(baseExp /\ rowExpired(x.exp, now))}

DeltaScan(v, now) ==
    {x \in v.delta.rows : ~(v.delta.hasExpiry /\ rowExpired(x.exp, now))}

\* Stats: the entries of each dictionary, garbage included, and the width of the
\* packed key they would need.
DictEntries(v) == [d \in Dims |-> Cardinality(v.base.dicts[d]) + Cardinality(v.extras[d])]

\* Mutant: values first seen since the last merge are not counted.
IndexKeyBitsBase(v) == keyBits(v.base.dicts)

IndexKeyBits(v) == MapThenSumSet(LAMBDA d : dictBits(DictEntries(v)[d]), IndexDims)

-----------------------------------------------------------------------------
(* What makes a view right.                                                   *)

\* Integer dimensions hold canonical integers only.
Canonical(dicts) == \A d \in IntDims : \A s \in dicts[d] : ParseInt[s] = s

RowsOK(rows) == UniqueTuples(rows) /\ \A x \in rows : x.upd > 0

SnapshotOK(s) ==
    /\ RowsOK(s.rows)
    /\ \A x \in s.rows, d \in Dims : x.dims[d] \in s.dicts[d]
    /\ Canonical(s.dicts)
    /\ ~KeyOverflow(s.dicts)
    /\ s.maxUpdated = MaxUpdated(s.rows)
    /\ s.minUpdated = MinUpdated(s.rows)
    /\ s.minExpire = MinExpire(s.rows)

\* The delta shadows exactly the base rows it supersedes and nothing newer.
ShadowOK(v) ==
    /\ v.overridden = {b \in v.base.rows : b.dims \in Tuples(v.delta.rows)}
    /\ \A b \in v.overridden, x \in v.delta.rows : x.dims = b.dims => x.upd >= b.upd

DeltaOK(v) ==
    /\ RowsOK(v.delta.rows)
    /\ \A x \in v.delta.rows, d \in Dims : x.dims[d] \in v.base.dicts[d] \cup v.extras[d]
    /\ \A d \in Dims : v.base.dicts[d] \cap v.extras[d] = {}
    /\ Canonical(v.extras)
    /\ v.delta.maxUpdated = MaxUpdated(v.delta.rows)
    /\ (\E x \in v.delta.rows : x.exp # 0) => v.delta.hasExpiry

ViewOK(v) == SnapshotOK(v.base) /\ DeltaOK(v) /\ ShadowOK(v)
=============================================================================
