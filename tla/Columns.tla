------------------------------- MODULE Columns -------------------------------
(* The representation below View: dictionaries that give each value a dense   *)
(* id, rows of ids sorted by a packed index key, and the operations as the    *)
(* code performs them on it (dict.go, snapshot.go, view.go).                  *)
(*                                                                            *)
(* A dictionary is the sequence of its values and an id a position in it,     *)
(* counted from 0.  Rows are counted from 1.  An id of a view is a base id    *)
(* below the base dictionary's length and an extras id above it.              *)
EXTENDS View, SequencesExt

CONSTANT DimOrder  \* Schema.Dims in order, the index prefix first

ASSUME OrderAssumption ==
    /\ DimOrder \in [1 .. Cardinality(Dims) -> Dims] /\ Range(DimOrder) = Dims
    /\ {DimOrder[i] : i \in 1 .. Cardinality(IndexDims)} = IndexDims

\* The places of the index dimensions.
Prefix == 1 .. Cardinality(IndexDims)

-----------------------------------------------------------------------------
(* Dictionaries.                                                              *)

\* The id of a value, as a set of at most one.
lookup(dict, s) == {i - 1 : i \in {j \in DOMAIN dict : dict[j] = s}}

getOrAdd(dict, s) == IF lookup(dict, s) = {} THEN Append(dict, s) ELSE dict

lookupID(v, d, s) ==
    LET base == v.base.dicts[d]
    IN  IF lookup(base, s) # {} THEN lookup(base, s)
        ELSE {Len(base) + id : id \in lookup(v.extras[d], s)}

\* The value of an id of the combined space.
dimString(v, d, id) ==
    LET base == v.base.dicts[d]
    IN  IF id < Len(base) THEN base[id + 1] ELSE v.extras[d][id - Len(base) + 1]

-----------------------------------------------------------------------------
(* Loops.                                                                     *)

SumSeq(s) == FoldLeft(+, 0, s)

\* The elements of s at the places of S, in order.
Pick(s, S) ==
    FoldLeft(LAMBDA t, i : IF i \in S THEN Append(t, s[i]) ELSE t, <<>>, [i \in DOMAIN s |-> i])

halved(w, hits) ==
    LET mid == (w.lo + w.hi) \div 2
    IN  IF w.lo >= w.hi THEN w
        ELSE IF mid \in hits THEN [w EXCEPT !.hi = mid] ELSE [w EXCEPT !.lo = mid + 1]

\* sort.Search: the first of 1 .. n in hits by bisection, n + 1 if none.
Search(n, hits) ==
    FoldLeft(LAMBDA w, i : halved(w, hits), [lo |-> 1, hi |-> n + 1], [i \in 1 .. n |-> i]).lo

\* The places a sort may put after those of p: before holds the pairs in order.
nexts(n, before, p) ==
    {x \in (1 .. n) \ Range(p) : \A y \in (1 .. n) \ Range(p) : <<y, x>> \notin before}

\* What sorting 1 .. n may give: the order of equal elements is open.
Sortings(n, before) ==
    FoldLeft(LAMBDA ps, k : UNION {{Append(p, x) : x \in nexts(n, before, p)} : p \in ps},
             {<<>>}, [k \in 1 .. n |-> k])

-----------------------------------------------------------------------------
(* Packed keys.                                                               *)

dictWidth(dicts, i) == dictBits(Len(dicts[DimOrder[i]]))

totalBits(dicts) == SumSeq([i \in Prefix |-> dictWidth(dicts, i)])

\* Left shifts, the first dimension highest.
computeShifts(dicts) ==
    [i \in Prefix |-> SumSeq([j \in 1 .. Cardinality(IndexDims) - i |-> dictWidth(dicts, i + j)])]

\* The code ors the shifted ids; that is their sum while each fits its field.
packKey(shifts, ids) == SumSeq([i \in Prefix |-> ids[DimOrder[i]] * 2^shifts[i]])

\* The row with these ids, searched among those of its packed key.
findRowIn(s, ids) ==
    LET key == packKey(s.shifts, ids)
        from == Search(Len(s.keys), {r \in DOMAIN s.keys : s.keys[r] >= key})
        hits == {r \in from .. Len(s.keys) :
                    /\ \A q \in from .. r : s.keys[q] = key
                    /\ s.rows[r].ids = ids}
    IN  IF hits = {} THEN {} ELSE {Min(hits)}

-----------------------------------------------------------------------------
(* Snapshots.                                                                 *)

\* The loops over the kept rows that compute maxUpdated and trackMin's minima.
Track(s, row) ==
    [s EXCEPT !.maxUpdated = IF row.upd > @ THEN row.upd ELSE @,
              !.minUpdated = IF @ = 0 \/ row.upd < @ THEN row.upd ELSE @,
              !.minExpire = IF row.exp # 0 /\ (@ = 0 \/ row.exp < @) THEN row.exp ELSE @]

\* keyed: the kept rows, each with its packed key, in order.
NewColumns(dicts, keyed) ==
    LET rows == [i \in DOMAIN keyed |-> keyed[i].row]
    IN  FoldLeft(Track,
                 [dicts |-> dicts, shifts |-> computeShifts(dicts), rows |-> rows,
                  keys |-> [i \in DOMAIN keyed |-> keyed[i].key],
                  maxUpdated |-> 0, minUpdated |-> 0, minExpire |-> 0],
                 rows)

emptyColumns == NewColumns([d \in Dims |-> <<>>], <<>>)

newColumnView(base, extras) ==
    [base |-> base, extras |-> extras, overridden |-> {},
     delta |-> [rows |-> <<>>, maxUpdated |-> 0, hasExpiry |-> FALSE]]

-----------------------------------------------------------------------------
(* applyDelta, once the ids of a record are known.                            *)

\* new becomes the delta row of its tuple unless the row there, or the base row
\* it would shadow, is newer.
Upsert(v, new, capBlocked) ==
    LET at == {r \in DOMAIN v.delta.rows : v.delta.rows[r].ids = new.ids}
        allInBase == \A d \in Dims : new.ids[d] < Len(v.base.dicts[d])
        br == IF at = {} /\ allInBase THEN findRowIn(v.base, new.ids) ELSE {}
        stale == \/ \E r \in at : v.delta.rows[r].upd > new.upd
                 \/ \E r \in br : v.base.rows[r].upd > new.upd
        stored == ~stale /\ ~Dropped(capBlocked, at \cup br)
    IN  [v EXCEPT
            !.delta.rows = IF ~stored THEN @
                           ELSE IF at = {} THEN Append(@, new)
                           ELSE ReplaceAt(@, Min(at), new),
            !.delta.maxUpdated = IF (stored \/ at # {}) /\ new.upd > @ THEN new.upd ELSE @,
            !.delta.hasExpiry = @ \/ (stored /\ new.exp # 0),
            !.overridden = IF stored THEN @ \cup br ELSE @]

-----------------------------------------------------------------------------
(* Dictionaries are objects on a heap, dimension -> address -> dictionary,    *)
(* and a view has them by address.                                            *)

\* The published view has its base and extras dictionary of each dimension at
\* the first two addresses; a call allocates at the other two.
BaseRef == 1
ExtrasRef == 2
NewBaseRef == 3
NewExtrasRef == 4

Everywhere(r) == [d \in Dims |-> r]

Deref(h, v) ==
    [v EXCEPT !.base.dicts = [d \in Dims |-> h[d][v.base.dicts[d]]],
              !.extras = [d \in Dims |-> h[d][v.extras[d]]]]

\* A call of Apply: the heap it writes, the view it builds, the extras it owns,
\* and whether a record was rejected.
Started(h, v) == [heap |-> h, view |-> v, owned |-> {}, failed |-> FALSE]

CloneExtras(c, d) ==
    [c EXCEPT !.heap[d][NewExtrasRef] = c.heap[d][c.view.extras[d]],
              !.view.extras[d] = NewExtrasRef, !.owned = @ \cup {d}]

\* Mutant: extras are written where they are, shared or not.
OwnExtrasNever(c, d) == c

\* Extras are cloned once per batch, before the first value is added.
OwnExtras(c, d) == IF d \in c.owned THEN c ELSE CloneExtras(c, d)

\* The dimensions are taken in order; one that fails leaves the earlier interned.
Intern(c, d, r) ==
    LET s == Resolve(r)[d]
        o == OwnExtras(c, d)
    IN  IF c.failed \/ s = NonInt THEN [c EXCEPT !.failed = TRUE]
        ELSE IF lookupID(Deref(c.heap, c.view), d, s) # {} THEN c
        ELSE [o EXCEPT !.heap[d][o.view.extras[d]] = getOrAdd(@, s)]

newRow(ids, r) == [ids |-> ids, upd |-> r.upd, exp |-> expireMilli(r.exp), met |-> r.met]

UpsertRecord(c, r, cutoff, blocked) ==
    LET known == FoldLeft(LAMBDA e, d : Intern(e, d, r), c, DimOrder)
        v == Deref(known.heap, known.view)
        ids == [d \in Dims |-> CHOOSE id \in lookupID(v, d, Resolve(r)[d]) : TRUE]
        new == Upsert(v, newRow(ids, r), blocked)
    IN  IF c.failed \/ ~r.arity THEN [c EXCEPT !.failed = TRUE]
        ELSE IF Aged(r, cutoff) THEN c
        ELSE IF known.failed THEN known
        ELSE [known EXCEPT !.view.delta = new.delta, !.view.overridden = new.overridden]

-----------------------------------------------------------------------------
(* mergeView and zipMerge.                                                    *)

Reclaimed(row, cutoff, now) == row.upd < cutoff \/ rowExpired(row.exp, now)

KeptBase(v, cutoff, now) ==
    {r \in DOMAIN v.base.rows : r \notin v.overridden /\ ~Reclaimed(v.base.rows[r], cutoff, now)}

KeptDelta(v, cutoff, now) == {r \in DOMAIN v.delta.rows : ~Reclaimed(v.delta.rows[r], cutoff, now)}

\* The ids kept rows use, in the combined space.
used(v, cutoff, now, d) ==
    {v.base.rows[r].ids[d] : r \in KeptBase(v, cutoff, now)}
    \cup {v.delta.rows[r].ids[d] : r \in KeptDelta(v, cutoff, now)}

\* The length of the combined id space.
idSpace(v, d) == Len(v.base.dicts[d]) + Len(v.extras[d])

addUsed(v, ids, d, dict, id) == IF id \in ids THEN getOrAdd(dict, dimString(v, d, id)) ELSE dict

\* Mutant: entries are renumbered from the newest down.
CompactedReversed(v, ids, d) ==
    FoldLeft(LAMBDA dict, id : addUsed(v, ids, d, dict, id), <<>>,
             [i \in 1 .. idSpace(v, d) |-> idSpace(v, d) - i])

\* The entries in use, renumbered in the order of their ids.
Compacted(v, ids, d) ==
    FoldLeft(LAMBDA dict, id : addUsed(v, ids, d, dict, id), <<>>,
             [i \in 1 .. idSpace(v, d) |-> i - 1])

Extended(v, d) == FoldLeft(getOrAdd, v.base.dicts[d], v.extras[d])

mergedDicts(v, cutoff, now, renumber) ==
    [d \in Dims |-> IF renumber THEN Compacted(v, used(v, cutoff, now, d), d) ELSE Extended(v, d)]

\* The old-to-new ids; an id no kept row uses maps to 0.
remap(v, cutoff, now, renumber, dicts) ==
    [d \in Dims |->
        [id \in 0 .. idSpace(v, d) - 1 |->
            IF ~renumber THEN id
            ELSE IF id \notin used(v, cutoff, now, d) THEN 0
            ELSE CHOOSE new \in lookup(dicts[d], dimString(v, d, id)) : TRUE]]

entry(shifts, row) == [key |-> packKey(shifts, row.ids), row |-> row]

mapped(map, row) == [row EXCEPT !.ids = [d \in Dims |-> map[d][row.ids[d]]]]

\* Mutant: keys carry over although a dictionary outgrew its field.
keysStableIDs(base, shifts, renumber) == ~renumber

\* Base keys carry over verbatim with stable ids and the same shifts.
keysStable(base, shifts, renumber) == ~renumber /\ shifts = base.shifts

baseEntry(v, shifts, map, renumber, r) ==
    IF keysStable(v.base, shifts, renumber) THEN [key |-> v.base.keys[r], row |-> v.base.rows[r]]
    ELSE entry(shifts, mapped(map, v.base.rows[r]))

\* One round of the two-way zip; the base goes first on equal keys.
zipped(b, d, z) ==
    IF z.j > Len(d) \/ (z.i <= Len(b) /\ b[z.i].key <= d[z.j].key)
    THEN [i |-> z.i + 1, j |-> z.j, out |-> Append(z.out, b[z.i])]
    ELSE [i |-> z.i, j |-> z.j + 1, out |-> Append(z.out, d[z.j])]

Zip2(b, d) ==
    FoldLeft(LAMBDA z, k : zipped(b, d, z), [i |-> 1, j |-> 1, out |-> <<>>],
             [k \in 1 .. Len(b) + Len(d) |-> k]).out

\* The delta rows with the keys they get; those of dropped rows are computed too.
deltaEntries(v, shifts, map) ==
    [r \in DOMAIN v.delta.rows |-> entry(shifts, mapped(map, v.delta.rows[r]))]

\* The merge, once dictionaries and ids are known, for an order of the delta.
merged(v, cutoff, now, renumber, dicts, map, delta, perm) ==
    LET shifts == computeShifts(dicts)
        b == [r \in DOMAIN v.base.rows |-> baseEntry(v, shifts, map, renumber, r)]
        d == [i \in DOMAIN perm |-> delta[perm[i]]]
    IN  NewColumns(dicts,
                   Zip2(Pick(b, KeptBase(v, cutoff, now)),
                        Pick(d, {i \in DOMAIN perm : perm[i] \in KeptDelta(v, cutoff, now)})))

\* The pairs of places of s whose keys are in order.
KeysBefore(s) == {p \in (DOMAIN s) \X (DOMAIN s) : s[p[1]].key < s[p[2]].key}

\* The snapshots a merge may build: delta rows of equal keys come in any order.
zipMerge(v, cutoff, now, renumber) ==
    LET dicts == mergedDicts(v, cutoff, now, renumber)
        map == remap(v, cutoff, now, renumber, dicts)
        delta == deltaEntries(v, computeShifts(dicts), map)
    IN  {merged(v, cutoff, now, renumber, dicts, map, delta, perm) :
            perm \in Sortings(Len(v.delta.rows), KeysBefore(delta))}

MergeOverflows(v, cutoff, now, renumber) ==
    totalBits(mergedDicts(v, cutoff, now, renumber)) > KeyBudget

-----------------------------------------------------------------------------
(* buildFromRecords.                                                          *)

\* One id tuple before another, dimension by dimension.
IDsBefore(a, b) ==
    \E i \in DOMAIN DimOrder :
        /\ a[DimOrder[i]] < b[DimOrder[i]]
        /\ \A j \in 1 .. i - 1 : a[DimOrder[j]] = b[DimOrder[j]]

\* Dictionaries filled in the order of the records.
builtDicts(recs) ==
    [d \in Dims |-> FoldLeft(LAMBDA dict, r : getOrAdd(dict, Resolve(r)[d]), <<>>, recs)]

idsOf(dicts, r) == [d \in Dims |-> CHOOSE id \in lookup(dicts[d], Resolve(r)[d]) : TRUE]

builtEntries(recs) ==
    [i \in DOMAIN recs |-> entry(computeShifts(builtDicts(recs)), newRow(idsOf(builtDicts(recs), recs[i]), recs[i]))]

\* The pairs of places in the order of the sort: by key, ids and newest first.
BuildBefore(in) ==
    {p \in (DOMAIN in) \X (DOMAIN in) :
        LET a == in[p[1]]
            b == in[p[2]]
        IN  \/ a.key < b.key
            \/ /\ a.key = b.key
               /\ \/ IDsBefore(a.row.ids, b.row.ids)
                  \/ a.row.ids = b.row.ids /\ a.row.upd > b.row.upd}

\* The first of a tuple stays, unless it is expired.
stays(in, now) ==
    {i \in DOMAIN in : (i = 1 \/ in[i - 1].row.ids # in[i].row.ids) /\ ~rowExpired(in[i].row.exp, now)}

builtColumns(dicts, in, now) == NewColumns(dicts, Pick(in, stays(in, now)))

\* recs: the records that are not aged.
buildColumns(recs, now) ==
    LET in == builtEntries(recs)
    IN  {builtColumns(builtDicts(recs), [i \in DOMAIN p |-> in[p[i]]], now) :
            p \in Sortings(Len(recs), BuildBefore(in))}

BuildOverflows(recs) == totalBits(builtDicts(recs)) > KeyBudget

-----------------------------------------------------------------------------
(* The view a column view stands for.                                         *)

AbsRow(v, row) ==
    [dims |-> [d \in Dims |-> dimString(v, d, row.ids[d])],
     upd |-> row.upd, exp |-> row.exp, met |-> row.met]

AbsView(v) ==
    [base |-> [rows |-> {AbsRow(v, row) : row \in Range(v.base.rows)},
               dicts |-> [d \in Dims |-> Range(v.base.dicts[d])],
               maxUpdated |-> v.base.maxUpdated, minUpdated |-> v.base.minUpdated,
               minExpire |-> v.base.minExpire],
     delta |-> [rows |-> {AbsRow(v, row) : row \in Range(v.delta.rows)},
                maxUpdated |-> v.delta.maxUpdated, hasExpiry |-> v.delta.hasExpiry],
     extras |-> [d \in Dims |-> Range(v.extras[d])],
     overridden |-> {AbsRow(v, v.base.rows[r]) : r \in v.overridden}]

-----------------------------------------------------------------------------
(* What makes the representation right.                                       *)

\* Every value has one id in a view.
DictsOK(v) ==
    \A d \in Dims : IsInjective(v.base.dicts[d] \o v.extras[d])

\* Keys are sorted, each is its row's, ids fit their fields, and searching the
\* base for a row finds that row.
SortedOK(s) ==
    /\ IsSorted(s.keys, <=)
    /\ s.shifts = computeShifts(s.dicts)
    /\ \A r \in DOMAIN s.rows :
         /\ s.keys[r] = packKey(s.shifts, s.rows[r].ids)
         /\ \A i \in Prefix : s.rows[r].ids[DimOrder[i]] < 2^dictWidth(s.dicts, i)
         /\ findRowIn(s, s.rows[r].ids) = {r}

\* Rows have ids of the dictionaries.
IdsOK(v) ==
    /\ \A r \in DOMAIN v.base.rows, d \in Dims : v.base.rows[r].ids[d] < Len(v.base.dicts[d])
    /\ \A q \in DOMAIN v.delta.rows, d \in Dims : v.delta.rows[q].ids[d] < idSpace(v, d)

\* The delta has one row per tuple, and it overrides the base rows of its tuples.
OverlayOK(v) ==
    /\ \A q, r \in DOMAIN v.delta.rows : q # r => v.delta.rows[q].ids # v.delta.rows[r].ids
    /\ v.overridden = {r \in DOMAIN v.base.rows :
                          \E q \in DOMAIN v.delta.rows : v.delta.rows[q].ids = v.base.rows[r].ids}

\* Where a row expires, the view says so.
ExpiryOK(v) ==
    /\ \A r \in DOMAIN v.base.rows :
          v.base.rows[r].exp # 0 => v.base.minExpire # 0 /\ v.base.minExpire <= v.base.rows[r].exp
    /\ \A q \in DOMAIN v.delta.rows : v.delta.rows[q].exp # 0 => v.delta.hasExpiry

\* A view whose dictionaries are sequences of values.
IsColumns(v) ==
    /\ \A d \in Dims : v.base.dicts[d] \in Seq(Spellings) /\ v.extras[d] \in Seq(Spellings)
    /\ v.base.rows \in Seq([ids : [Dims -> Nat], upd : Time, exp : Time, met : Payloads])
    /\ v.delta.rows \in Seq([ids : [Dims -> Nat], upd : Time, exp : Time, met : Payloads])
    /\ v.base.keys \in Seq(Nat) /\ Len(v.base.keys) = Len(v.base.rows)
    /\ v.base.minExpire \in Time

\* What a reader relies on in a published view.
ReadsRight(v) == IsColumns(v) /\ DictsOK(v) /\ SortedOK(v.base) /\ IdsOK(v) /\ OverlayOK(v) /\ ExpiryOK(v)
=============================================================================
