------------------------------ MODULE ViewProofs ------------------------------
(* What the operations on views keep, for every schema, record and clock: the *)
(* lemmas about single operations that StoreProofs composes.                  *)
EXTENDS View, FiniteSetTheorems, FunctionTheorems, NaturalsInduction, WellFoundedInduction, TLAPS

-----------------------------------------------------------------------------
(* Extrema of sets of times.                                                  *)

\* The least element of a set of naturals (snapshot.trackMin over any rows).
LEMMA NatMinimum ==
    ASSUME NEW S \in SUBSET Nat, S # {}
    PROVE  \E x \in S : \A y \in S : x <= y
<1>1. PICK x \in S : \A y \in S : ~(<<y, x>> \in OpToRel(<, Nat))
    BY NatLessThanWellFounded, WFMin
<1>2. \A y \in S : ~(y < x)
    BY <1>1 DEF OpToRel
<1> QED BY <1>2

\* Every non-empty set of times has a minimum, and Min is it.
LEMMA MinTimes ==
    ASSUME NEW S \in SUBSET Time, S # {}
    PROVE  Min(S) \in S /\ \A y \in S : Min(S) <= y
<1> DEFINE T == {x - MinTime : x \in S}
<1>1. \A x \in S : x \in Int /\ MinTime <= x /\ x <= MaxTime
    BY TimeAssumption DEF Time
<1>2. \A x \in S : x - MinTime \in Nat
    BY <1>1, TimeAssumption
<1>3. T \in SUBSET Nat
    BY <1>2
<1>4. \A x \in S : x - MinTime \in T
    OBVIOUS
<1>5. T # {}
    BY <1>4
<1>6. PICK t \in T : \A y \in T : t <= y
    BY <1>3, <1>5, NatMinimum
<1>7. PICK x \in S : t = x - MinTime
    BY <1>6
<1>8. \A y \in S : x - MinTime <= y - MinTime
    BY <1>4, <1>6, <1>7
<1>9. \A y \in S : x <= y
    BY <1>1, <1>8, TimeAssumption
<1> QED BY <1>9 DEF Min

\* Every non-empty set of times has a maximum, and Max is it.
LEMMA MaxTimes ==
    ASSUME NEW S \in SUBSET Time, S # {}
    PROVE  Max(S) \in S /\ \A y \in S : Max(S) >= y
<1> DEFINE T == {MaxTime - x : x \in S}
<1>1. \A x \in S : x \in Int /\ MinTime <= x /\ x <= MaxTime
    BY TimeAssumption DEF Time
<1>2. \A x \in S : MaxTime - x \in Nat
    BY <1>1, TimeAssumption
<1>3. T \in SUBSET Nat
    BY <1>2
<1>4. \A x \in S : MaxTime - x \in T
    OBVIOUS
<1>5. T # {}
    BY <1>4
<1>6. PICK t \in T : \A y \in T : t <= y
    BY <1>3, <1>5, NatMinimum
<1>7. PICK x \in S : t = MaxTime - x
    BY <1>6
<1>8. \A y \in S : MaxTime - x <= MaxTime - y
    BY <1>4, <1>6, <1>7
<1>9. \A y \in S : x >= y
    BY <1>1, <1>8, TimeAssumption
<1> QED BY <1>9 DEF Max

\* 0 is a time.
LEMMA ZeroIsTime == 0 \in Time /\ Time \subseteq Int
BY TimeAssumption DEF Time

\* maxUpdated is the newest UpdatedAt of the rows, floored at 0.
LEMMA MaxUpdatedIs ==
    ASSUME NEW rows \in SUBSET Row
    PROVE  /\ MaxUpdated(rows) \in Time
           /\ MaxUpdated(rows) >= 0
           /\ \A x \in rows : x.upd <= MaxUpdated(rows)
           /\ MaxUpdated(rows) = 0 \/ \E x \in rows : x.upd = MaxUpdated(rows)
<1> DEFINE S == {0} \cup {x.upd : x \in rows}
<1>1. S \in SUBSET Time /\ S # {}
    BY ZeroIsTime DEF Row
<1>2. Max(S) \in S /\ \A y \in S : Max(S) >= y
    BY <1>1, MaxTimes
<1> HIDE DEF S
<1>3. MaxUpdated(rows) = Max(S)
    BY DEF MaxUpdated, S
<1>4. \A y \in S : y \in Int
    BY <1>1, ZeroIsTime
<1> QED BY <1>1, <1>2, <1>3, <1>4, ZeroIsTime DEF S, Row

\* It is determined by being an upper bound that is reached.
LEMMA MaxUpdatedUnique ==
    ASSUME NEW rows \in SUBSET Row, NEW m \in Int,
           m >= 0, \A x \in rows : x.upd <= m,
           m = 0 \/ \E x \in rows : x.upd = m
    PROVE  m = MaxUpdated(rows)
<1>1. \A x \in rows : x.upd \in Int
    BY ZeroIsTime DEF Row
<1>2. MaxUpdated(rows) \in Int
    BY MaxUpdatedIs, ZeroIsTime
<1>3. m <= MaxUpdated(rows)
    BY <1>2, MaxUpdatedIs
<1>4. MaxUpdated(rows) <= m
    BY <1>1, <1>2, MaxUpdatedIs
<1> QED BY <1>2, <1>3, <1>4

\* minUpdated is the oldest UpdatedAt of the rows, 0 when there are none.
LEMMA MinUpdatedIs ==
    ASSUME NEW rows \in SUBSET Row
    PROVE  /\ MinUpdated(rows) \in Time
           /\ rows = {} => MinUpdated(rows) = 0
           /\ \A x \in rows : MinUpdated(rows) <= x.upd
           /\ rows # {} => \E x \in rows : x.upd = MinUpdated(rows)
<1> DEFINE S == {x.upd : x \in rows}
<1>1. S \in SUBSET Time
    BY DEF Row
<1>2. CASE rows = {}
    BY <1>2, ZeroIsTime DEF MinUpdated
<1>3. CASE rows # {}
  <2>1. S # {}
      BY <1>3
  <2>2. Min(S) \in S /\ \A y \in S : Min(S) <= y
      BY <1>1, <2>1, MinTimes
  <2>3. MinUpdated(rows) = Min(S)
      BY <1>3 DEF MinUpdated
  <2> HIDE DEF S
  <2>4. MinUpdated(rows) \in Time
      BY <1>1, <2>2, <2>3
  <2>5. \A x \in rows : x.upd \in S
      BY DEF S
  <2>6. \E x \in rows : x.upd = MinUpdated(rows)
      BY <2>2, <2>3 DEF S
  <2> QED BY <1>3, <2>2, <2>3, <2>4, <2>5, <2>6
<1> QED BY <1>2, <1>3

\* minExpire is the earliest expiry of the rows that have one, 0 when none has.
LEMMA MinExpireIs ==
    ASSUME NEW rows \in SUBSET Row
    PROVE  /\ MinExpire(rows) \in Time
           /\ \A x \in rows : x.exp # 0 => MinExpire(rows) # 0 /\ MinExpire(rows) <= x.exp
           /\ MinExpire(rows) # 0 => \E x \in rows : x.exp = MinExpire(rows)
<1>1. Expiries(rows) \in SUBSET Time /\ 0 \notin Expiries(rows)
    BY DEF Row, Expiries
<1>2. CASE Expiries(rows) = {}
    BY <1>2, ZeroIsTime DEF MinExpire, Expiries
<1>3. CASE Expiries(rows) # {}
  <2>1. Min(Expiries(rows)) \in Expiries(rows) /\ \A y \in Expiries(rows) : Min(Expiries(rows)) <= y
      BY <1>1, <1>3, MinTimes
  <2>2. MinExpire(rows) = Min(Expiries(rows))
      BY <1>3 DEF MinExpire
  <2>3. \A x \in rows : x.exp # 0 => x.exp \in Expiries(rows)
      BY DEF Expiries
  <2>4. \E x \in rows : x.exp = MinExpire(rows)
      BY <2>1, <2>2 DEF Expiries
  <2> QED BY <1>1, <2>1, <2>2, <2>3, <2>4
<1> QED BY <1>2, <1>3

-----------------------------------------------------------------------------
(* New snapshots and new views.                                               *)

\* A snapshot's cached scalars have the type of times.
LEMMA NewSnapshotType ==
    ASSUME NEW rows \in SUBSET Row, NEW dicts \in Dicts
    PROVE  NewSnapshot(rows, dicts) \in Snapshot
BY MaxUpdatedIs, MinUpdatedIs, MinExpireIs DEF NewSnapshot, Snapshot

\* The snapshot a constructor makes is right when its rows and dictionaries are.
LEMMA NewSnapshotOK ==
    ASSUME NEW rows \in SUBSET Row, NEW dicts \in Dicts,
           RowsOK(rows),
           \A x \in rows, d \in Dims : x.dims[d] \in dicts[d],
           Canonical(dicts), ~KeyOverflow(dicts)
    PROVE  SnapshotOK(NewSnapshot(rows, dicts))
BY DEF NewSnapshot, SnapshotOK

\* New starts from an empty snapshot that is right.
LEMMA EmptyOK == emptySnapshot \in Snapshot /\ SnapshotOK(emptySnapshot)
<1>1. NoValues \in Dicts /\ {} \in SUBSET Row
    BY DEF NoValues, Dicts
<1>2. Canonical(NoValues)
    BY SchemaAssumption DEF NoValues, Canonical
<1>3. RowsOK({})
    BY DEF RowsOK, UniqueTuples
<1> QED BY <1>1, <1>2, <1>3, EmptyKeyFits, NewSnapshotType, NewSnapshotOK DEF emptySnapshot

\* swap: a view with an empty delta over a right snapshot is right.
LEMMA NewViewOK ==
    ASSUME NEW s \in Snapshot
    PROVE  newView(s) \in AnyView /\ (SnapshotOK(s) => ViewOK(newView(s)))
<1>1. NoValues \in Dicts
    BY DEF NoValues, Dicts
<1>2. emptyDelta \in Delta
    BY ZeroIsTime DEF emptyDelta, Delta
<1>3. newView(s) \in AnyView
    BY <1>1, <1>2 DEF newView, AnyView
<1>4. MaxUpdated({}) = 0
    BY MaxUpdatedUnique, ZeroIsTime
<1>5. Canonical(NoValues)
    BY SchemaAssumption DEF NoValues, Canonical
<1>6. DeltaOK(newView(s))
    BY <1>4, <1>5 DEF DeltaOK, newView, emptyDelta, NoValues, RowsOK, UniqueTuples
<1>7. ShadowOK(newView(s))
    BY DEF ShadowOK, newView, emptyDelta, Tuples
<1> QED BY <1>3, <1>6, <1>7 DEF ViewOK, newView

-----------------------------------------------------------------------------
(* One upsert.                                                                *)

\* The row an upsert finds is the row of that tuple in the logical table: the
\* delta's when there is one, else the base's, which is then not overridden.
LEMMA FoundIsLogical ==
    ASSUME NEW v \in AnyView, NEW t \in Tuple, ViewOK(v)
    PROVE  LET hit == {x \in v.delta.rows : x.dims = t}
               br == IF hit = {} /\ AllInBase(v, t) THEN findRow(v.base, t) ELSE {}
           IN  hit \cup br = {x \in Logical(v) : x.dims = t}
<1> DEFINE hit == {x \in v.delta.rows : x.dims = t}
<1> DEFINE br == IF hit = {} /\ AllInBase(v, t) THEN findRow(v.base, t) ELSE {}
<1>1. v.overridden = {b \in v.base.rows : \E x \in v.delta.rows : b.dims = x.dims}
    BY DEF ViewOK, ShadowOK, Tuples
<1>2. \A b \in v.base.rows : b.dims = t => AllInBase(v, t)
    BY DEF ViewOK, SnapshotOK, AllInBase
<1>3. CASE hit = {}
  <2>1. \A b \in v.base.rows : b.dims = t => b \notin v.overridden
      BY <1>1, <1>3
  <2>2. br = {b \in v.base.rows : b.dims = t}
      BY <1>2, <1>3 DEF findRow
  <2> QED BY <1>1, <1>3, <2>1, <2>2 DEF Logical
<1>4. CASE hit # {}
  <2>1. \A b \in v.base.rows : b.dims = t => b \in v.overridden
      BY <1>1, <1>4
  <2> QED BY <1>4, <2>1 DEF Logical
<1> QED BY <1>3, <1>4

\* An upsert leaves a view.
LEMMA ApplyRecordType ==
    ASSUME NEW v \in AnyView, NEW row \in Row, NEW blocked \in BOOLEAN
    PROVE  ApplyRecord(v, row, blocked) \in AnyView
<1> DEFINE hit == {x \in v.delta.rows : x.dims = row.dims}
<1> DEFINE br == IF hit = {} /\ AllInBase(v, row.dims) THEN findRow(v.base, row.dims) ELSE {}
<1>1. br \in SUBSET v.base.rows
    BY DEF findRow
<1>2. v.base \in Snapshot /\ v.delta \in Delta /\ v.extras \in Dicts /\ v.overridden \in SUBSET Row
    BY DEF AnyView
<1>3. v.base.rows \in SUBSET Row /\ v.delta.rows \in SUBSET Row
      /\ v.delta.maxUpdated \in Time /\ v.delta.hasExpiry \in BOOLEAN
    BY <1>2 DEF Snapshot, Delta
<1>4. row.upd \in Time /\ row.dims \in Tuple
    BY DEF Row
<1>5. Interned(v, row.dims) \in Dicts
    BY <1>2, <1>4 DEF Interned, Dicts, Tuple
<1> DEFINE stored == ~Superseded(hit \cup br, row.upd) /\ ~Dropped(blocked, hit \cup br)
<1> DEFINE d == [rows |-> IF stored THEN (v.delta.rows \ hit) \cup {row} ELSE v.delta.rows,
                 maxUpdated |-> IF (stored \/ hit # {}) /\ row.upd > v.delta.maxUpdated
                                THEN row.upd ELSE v.delta.maxUpdated,
                 hasExpiry |-> v.delta.hasExpiry \/ (stored /\ row.exp # 0)]
<1>6. d \in Delta
  <2>1. d.rows \in SUBSET Row
      BY <1>3
  <2>2. d.maxUpdated \in Time
      BY <1>3, <1>4
  <2>3. d.hasExpiry \in BOOLEAN
      BY <1>3
  <2> QED BY <2>1, <2>2, <2>3 DEF Delta
<1>7. (IF stored THEN v.overridden \cup br ELSE v.overridden) \in SUBSET Row
    BY <1>1, <1>2, <1>3
<1> HIDE DEF stored
<1> QED BY <1>2, <1>5, <1>6, <1>7 DEF AnyView, ApplyRecord, stored

\* An upsert keeps every relation of a view: applyDelta's bookkeeping of the
\* delta, its overridden bitmap, its extras and its cached extrema.
LEMMA ApplyRecordOK ==
    ASSUME NEW v \in AnyView, NEW row \in Row, NEW blocked \in BOOLEAN,
           ViewOK(v), row.upd > 0,
           \A d \in IntDims : ParseInt[row.dims[d]] = row.dims[d]
    PROVE  ViewOK(ApplyRecord(v, row, blocked))
<1> DEFINE u == ApplyRecord(v, row, blocked)
<1> DEFINE hit == {x \in v.delta.rows : x.dims = row.dims}
<1> DEFINE br == IF hit = {} /\ AllInBase(v, row.dims) THEN findRow(v.base, row.dims) ELSE {}
<1> DEFINE stored == ~Superseded(hit \cup br, row.upd) /\ ~Dropped(blocked, hit \cup br)
<1>1. /\ u.base = v.base
      /\ u.delta.rows = IF stored THEN (v.delta.rows \ hit) \cup {row} ELSE v.delta.rows
      /\ u.delta.maxUpdated = IF (stored \/ hit # {}) /\ row.upd > v.delta.maxUpdated
                              THEN row.upd ELSE v.delta.maxUpdated
      /\ u.delta.hasExpiry = (v.delta.hasExpiry \/ (stored /\ row.exp # 0))
      /\ u.extras = [d \in Dims |-> v.extras[d] \cup ({row.dims[d]} \ v.base.dicts[d])]
      /\ u.overridden = IF stored THEN v.overridden \cup br ELSE v.overridden
    BY DEF ApplyRecord, Interned
<1>2. /\ v.delta.rows \in SUBSET Row /\ v.base.rows \in SUBSET Row
      /\ v.delta.maxUpdated \in Int /\ row.upd \in Int
    BY ZeroIsTime DEF AnyView, Snapshot, Delta, Row
<1>3. \A x \in v.delta.rows \cup v.base.rows : x.upd \in Int
    BY <1>2, ZeroIsTime DEF Row
<1>4. stored => \A x \in hit \cup br : x.upd <= row.upd
    BY <1>2, <1>3 DEF Superseded, findRow
<1>5. ~stored /\ hit # {} => \E x \in hit : x.upd > row.upd
    BY DEF Superseded, Dropped
<1>6. br \subseteq {b \in v.base.rows : b.dims = row.dims}
    BY DEF findRow
<1>7. \A b \in v.base.rows : b.dims = row.dims /\ hit = {} => b \in br
    BY DEF ViewOK, SnapshotOK, AllInBase, findRow
<1> HIDE DEF u, stored, br
<1>8. SnapshotOK(u.base)
    BY <1>1 DEF ViewOK
<1>9. DeltaOK(u)
  <2>1. RowsOK(u.delta.rows)
      BY <1>1 DEF ViewOK, DeltaOK, RowsOK, UniqueTuples
  <2>2. \A x \in u.delta.rows, d \in Dims : x.dims[d] \in u.base.dicts[d] \cup u.extras[d]
    <3>1. \A x \in v.delta.rows, d \in Dims : x.dims[d] \in u.base.dicts[d] \cup u.extras[d]
        BY <1>1 DEF ViewOK, DeltaOK
    <3>2. \A d \in Dims : row.dims[d] \in u.base.dicts[d] \cup u.extras[d]
        BY <1>1
    <3> QED BY <1>1, <3>1, <3>2
  <2>3. \A d \in Dims : u.base.dicts[d] \cap u.extras[d] = {}
    <3>1. \A d \in Dims : v.base.dicts[d] \cap v.extras[d] = {}
        BY DEF ViewOK, DeltaOK
    <3> QED BY <1>1, <3>1
  <2>4. Canonical(u.extras)
    <3>1. Canonical(v.extras)
        BY DEF ViewOK, DeltaOK
    <3>2. \A d \in IntDims : u.extras[d] \subseteq v.extras[d] \cup {row.dims[d]}
        BY <1>1, SchemaAssumption
    <3> QED BY <3>1, <3>2 DEF Canonical
  <2>5. u.delta.maxUpdated = MaxUpdated(u.delta.rows)
    <3>1. /\ v.delta.maxUpdated >= 0
          /\ \A x \in v.delta.rows : x.upd <= v.delta.maxUpdated
          /\ v.delta.maxUpdated = 0 \/ \E x \in v.delta.rows : x.upd = v.delta.maxUpdated
        BY <1>2, MaxUpdatedIs DEF ViewOK, DeltaOK
    <3>2. CASE stored
      <4>1. u.delta.maxUpdated = IF row.upd > v.delta.maxUpdated THEN row.upd ELSE v.delta.maxUpdated
          BY <1>1, <3>2
      <4>2. u.delta.rows = (v.delta.rows \ hit) \cup {row}
          BY <1>1, <3>2
      <4>3. u.delta.maxUpdated \in Int /\ u.delta.maxUpdated >= 0
          BY <1>2, <3>1, <4>1
      <4>4. \A x \in u.delta.rows : x.upd <= u.delta.maxUpdated
          BY <1>2, <1>3, <3>1, <4>1, <4>2
      <4>5. \E x \in u.delta.rows : x.upd = u.delta.maxUpdated
        <5>1. CASE row.upd > v.delta.maxUpdated
            BY <4>1, <4>2, <5>1
        <5>2. CASE ~(row.upd > v.delta.maxUpdated)
          <6>1. PICK x \in v.delta.rows : x.upd = v.delta.maxUpdated
              BY <1>2, <3>1, <5>2
          <6>2. CASE x \in hit
            <7>1. row.upd = v.delta.maxUpdated
                BY <1>2, <1>4, <3>2, <5>2, <6>1, <6>2
            <7> QED BY <4>1, <4>2, <5>2, <7>1
          <6>3. CASE x \notin hit
              BY <4>1, <4>2, <5>2, <6>1, <6>3
          <6> QED BY <6>2, <6>3
        <5> QED BY <5>1, <5>2
      <4>6. u.delta.rows \in SUBSET Row
          BY <1>2, <4>2
      <4> QED BY <4>3, <4>4, <4>5, <4>6, MaxUpdatedUnique
    <3>3. CASE ~stored
      <4>1. hit # {} => ~(row.upd > v.delta.maxUpdated)
          BY <1>2, <1>3, <1>5, <3>1, <3>3
      <4>2. u.delta.maxUpdated = v.delta.maxUpdated /\ u.delta.rows = v.delta.rows
          BY <1>1, <3>3, <4>1
      <4> QED BY <4>2 DEF ViewOK, DeltaOK
    <3> QED BY <3>2, <3>3
  <2>6. (\E x \in u.delta.rows : x.exp # 0) => u.delta.hasExpiry
      BY <1>1 DEF ViewOK, DeltaOK
  <2> QED BY <2>1, <2>2, <2>3, <2>4, <2>5, <2>6 DEF DeltaOK
<1>10. ShadowOK(u)
  <2>1. v.overridden = {b \in v.base.rows : \E x \in v.delta.rows : b.dims = x.dims}
      BY DEF ViewOK, ShadowOK, Tuples
  <2>2. \A b \in v.overridden, x \in v.delta.rows : x.dims = b.dims => x.upd >= b.upd
      BY DEF ViewOK, ShadowOK
  <2>3. CASE stored
    <3>1. u.delta.rows = (v.delta.rows \ hit) \cup {row} /\ u.overridden = v.overridden \cup br
        BY <1>1, <2>3
    <3>2. \A b \in v.base.rows : b.dims = row.dims => b \in v.overridden \cup br
        BY <1>7, <2>1
    <3>3. u.overridden = {b \in u.base.rows : b.dims \in Tuples(u.delta.rows)}
        BY <1>1, <1>6, <2>1, <3>1, <3>2 DEF Tuples
    <3>4. ASSUME NEW b \in u.overridden, NEW x \in u.delta.rows, x.dims = b.dims
          PROVE  x.upd >= b.upd
      <4>1. CASE x # row
          BY <1>6, <2>2, <3>1, <3>4, <4>1
      <4>2. CASE x = row /\ b \in br
          BY <1>3, <1>4, <1>6, <2>3, <4>2, <1>2
      <4>3. CASE x = row /\ b \in v.overridden
        <5>1. PICK h \in v.delta.rows : h.dims = b.dims
            BY <2>1, <4>3
        <5>2. h \in hit /\ h.upd >= b.upd
            BY <2>2, <3>4, <4>3, <5>1
        <5>3. b.upd \in Int /\ h.upd \in Int
            BY <1>3, <2>1, <4>3
        <5> QED BY <1>2, <1>4, <2>3, <4>3, <5>2, <5>3
      <4> QED BY <3>1, <4>1, <4>2, <4>3
    <3> QED BY <3>3, <3>4 DEF ShadowOK
  <2>4. CASE ~stored
    <3>1. u.base = v.base /\ u.delta.rows = v.delta.rows /\ u.overridden = v.overridden
        BY <1>1, <2>4
    <3> QED BY <3>1 DEF ViewOK, ShadowOK
  <2> QED BY <2>3, <2>4
<1> QED BY <1>8, <1>9, <1>10 DEF ViewOK, u

-----------------------------------------------------------------------------
(* Merges and rebuilds.                                                       *)

\* The logical table has one row per tuple, all of whose values are known.
LEMMA LogicalOK ==
    ASSUME NEW v \in AnyView, ViewOK(v)
    PROVE  /\ Logical(v) \in SUBSET Row
           /\ RowsOK(Logical(v))
           /\ \A x \in Logical(v), d \in Dims : x.dims[d] \in v.base.dicts[d] \cup v.extras[d]
<1>1. Logical(v) \in SUBSET Row
    BY DEF AnyView, Snapshot, Delta, Logical
<1>2. RowsOK(v.base.rows) /\ RowsOK(v.delta.rows)
    BY DEF ViewOK, SnapshotOK, DeltaOK
<1>3. \A b \in v.base.rows \ v.overridden, x \in v.delta.rows : b.dims # x.dims
    BY DEF ViewOK, ShadowOK, Tuples
<1>4. RowsOK(Logical(v))
    BY <1>2, <1>3 DEF RowsOK, UniqueTuples, Logical
<1>5. \A x \in Logical(v), d \in Dims : x.dims[d] \in v.base.dicts[d] \cup v.extras[d]
    BY DEF ViewOK, SnapshotOK, DeltaOK, Logical
<1> QED BY <1>1, <1>4, <1>5

\* What a merge that fits the key budget builds is right.
LEMMA MergeOK ==
    ASSUME NEW v \in AnyView, ViewOK(v),
           NEW cutoff, NEW n, NEW renumber \in BOOLEAN
    PROVE  LET s == mergeView(v, cutoff, n, renumber)
           IN  s \in Snapshot /\ (~KeyOverflow(s.dicts) => SnapshotOK(s))
<1> DEFINE rows == Survivors(v, cutoff, n)
<1> DEFINE dicts == MergedDicts(v, rows, renumber)
<1>1. rows \subseteq Logical(v)
    BY DEF Survivors, Survive
<1>2. rows \in SUBSET Row /\ RowsOK(rows)
    BY <1>1, LogicalOK DEF RowsOK, UniqueTuples
<1>3. \A d \in Dims : v.base.dicts[d] \in SUBSET Spellings /\ v.extras[d] \in SUBSET Spellings
    BY DEF AnyView, Snapshot, Dicts
<1>4. \A x \in rows, d \in Dims : x.dims[d] \in v.base.dicts[d] \cup v.extras[d]
    BY <1>1, LogicalOK
<1> HIDE DEF rows
<1>5. dicts \in Dicts
  <2>1. ValuesOf(rows) \in Dicts
      BY <1>3, <1>4 DEF ValuesOf, Dicts
  <2>2. [d \in Dims |-> v.base.dicts[d] \cup v.extras[d]] \in Dicts
      BY <1>3 DEF Dicts
  <2> QED BY <2>1, <2>2 DEF MergedDicts
<1>6. \A x \in rows, d \in Dims : x.dims[d] \in dicts[d]
    BY <1>4 DEF MergedDicts, ValuesOf
<1>7. Canonical(dicts)
  <2>1. Canonical(v.base.dicts) /\ Canonical(v.extras)
      BY DEF ViewOK, SnapshotOK, DeltaOK
  <2>2. \A d \in Dims : dicts[d] \subseteq v.base.dicts[d] \cup v.extras[d]
      BY <1>4 DEF MergedDicts, ValuesOf
  <2>3. \A d \in IntDims : dicts[d] \subseteq v.base.dicts[d] \cup v.extras[d]
      BY <2>2, SchemaAssumption
  <2> HIDE DEF dicts
  <2> QED BY <2>1, <2>3 DEF Canonical
<1>8. mergeView(v, cutoff, n, renumber) = NewSnapshot(rows, dicts)
    BY DEF mergeView, rows
<1>9. NewSnapshot(rows, dicts).dicts = dicts
    BY DEF NewSnapshot
<1> HIDE DEF dicts
<1> QED BY <1>2, <1>5, <1>6, <1>7, <1>8, <1>9, NewSnapshotType, NewSnapshotOK

\* The row of a record that parses is a row, with canonical integers.
LEMMA ToRowOK ==
    ASSUME NEW r \in Inputs, Parses(r)
    PROVE  /\ ToRow(r) \in Row
           /\ ToRow(r).upd = r.upd /\ ToRow(r).dims = Resolve(r)
           /\ \A d \in IntDims : ParseInt[Resolve(r)[d]] = Resolve(r)[d]
<1>1. r \in Record
    BY InputAssumption
<1>2. r.dims \in Tuple /\ r.upd \in Time /\ r.exp \in Time /\ r.met \in Payloads
    BY <1>1 DEF Record
<1>3. \A d \in IntDims : d \in Dims /\ ParseInt[r.dims[d]] \in Spellings
                         /\ ParseInt[ParseInt[r.dims[d]]] = ParseInt[r.dims[d]]
    BY <1>2, SchemaAssumption DEF Tuple, Parses
<1>4. Resolve(r) \in Tuple
    BY <1>2, <1>3 DEF Resolve, Tuple
<1>5. \A d \in IntDims : Resolve(r)[d] = ParseInt[r.dims[d]]
    BY <1>3 DEF Resolve
<1>6. expireMilli(r.exp) \in Time
    BY <1>2, ZeroIsTime DEF expireMilli
<1> QED BY <1>2, <1>3, <1>4, <1>5, <1>6 DEF ToRow, Row

\* A record that is not aged by a cutoff that keeps nothing before 1970 is
\* newer than 1970: the cached minUpdated can use 0 for "no row".
LEMMA KeptIsPositive ==
    ASSUME NEW r \in Inputs, NEW cutoff \in Time, cutoff >= 0, ~Aged(r, cutoff)
    PROVE  r.upd > 0
<1>1. r.upd \in Int /\ r.upd # 0 /\ cutoff \in Int
    BY InputAssumption, ZeroIsTime DEF Record
<1> QED BY <1>1 DEF Aged

\* Every snapshot a rebuild may make is right, whatever the order of the dump.
LEMMA BuildOK ==
    ASSUME NEW recs \in SUBSET Inputs, NEW cutoff \in Time, cutoff >= 0, NEW n,
           ~BuildFails(recs, cutoff),
           NEW s \in buildFromRecords(recs, cutoff, n)
    PROVE  s \in Snapshot /\ SnapshotOK(s)
<1> DEFINE all == KeptRows(recs, cutoff)
<1>1. PICK keep \in Deduped(all) :
        s = NewSnapshot({x \in keep : ~rowExpired(x.exp, n)}, ValuesOf(all))
    BY DEF buildFromRecords
<1> DEFINE rows == {x \in keep : ~rowExpired(x.exp, n)}
<1>2. \A x \in all : \E r \in recs : x = ToRow(r) /\ Parses(r) /\ ~Aged(r, cutoff)
    BY DEF KeptRows, BuildFails, Rejected
<1>3. \A x \in all : /\ x \in Row /\ x.upd > 0
                     /\ \A d \in IntDims : ParseInt[x.dims[d]] = x.dims[d]
    BY <1>2, ToRowOK, KeptIsPositive
<1>4. rows \subseteq all /\ UniqueTuples(rows)
    BY DEF Deduped, UniqueTuples
<1> HIDE DEF all, rows
<1>5. rows \in SUBSET Row /\ RowsOK(rows)
    BY <1>3, <1>4 DEF RowsOK
<1>6. ValuesOf(all) \in Dicts
    BY <1>3 DEF ValuesOf, Dicts, Row, Tuple
<1>7. \A x \in rows, d \in Dims : x.dims[d] \in ValuesOf(all)[d]
    BY <1>4 DEF ValuesOf
<1>8. Canonical(ValuesOf(all))
    BY <1>3, SchemaAssumption DEF ValuesOf, Canonical
<1>9. ~KeyOverflow(ValuesOf(all))
    BY DEF BuildFails, all
<1>10. s = NewSnapshot(rows, ValuesOf(all))
    BY <1>1 DEF rows
<1> QED BY <1>5, <1>6, <1>7, <1>8, <1>9, <1>10, NewSnapshotType, NewSnapshotOK

-----------------------------------------------------------------------------
(* Readers.                                                                   *)

\* SyncPosition: the greater of the two cached maxima is the newest UpdatedAt of
\* the logical table, because a delta row is never older than the row it shadows.
LEMMA SyncPositionIs ==
    ASSUME NEW v \in AnyView, ViewOK(v)
    PROVE  maxUpdated(v) = MaxUpdated(Logical(v))
<1>1. v.base.rows \in SUBSET Row /\ v.delta.rows \in SUBSET Row
    BY DEF AnyView, Snapshot, Delta
<1> DEFINE a == MaxUpdated(v.base.rows)
<1> DEFINE b == MaxUpdated(v.delta.rows)
<1> DEFINE m == IF b > a THEN b ELSE a
<1>2. maxUpdated(v) = m
    BY DEF ViewOK, SnapshotOK, DeltaOK, maxUpdated
<1>3. /\ a \in Int /\ a >= 0 /\ \A x \in v.base.rows : x.upd <= a
      /\ a = 0 \/ \E x \in v.base.rows : x.upd = a
      /\ b \in Int /\ b >= 0 /\ \A x \in v.delta.rows : x.upd <= b
      /\ b = 0 \/ \E x \in v.delta.rows : x.upd = b
    BY <1>1, MaxUpdatedIs, ZeroIsTime
<1>4. \A x \in v.base.rows \cup v.delta.rows : x.upd \in Int
    BY <1>1, ZeroIsTime DEF Row
<1> HIDE DEF a, b
<1>5. m \in Int /\ m >= 0
    BY <1>3
<1>6. \A x \in Logical(v) : x.upd <= m
    BY <1>3, <1>4 DEF Logical
<1>7. m = 0 \/ \E x \in Logical(v) : x.upd = m
  <2>1. CASE b > a
      BY <1>3, <2>1 DEF Logical
  <2>2. CASE ~(b > a) /\ a # 0
    <3>1. PICK x \in v.base.rows : x.upd = a
        BY <1>3, <2>2
    <3>2. CASE x \notin v.overridden
        BY <2>2, <3>1, <3>2 DEF Logical
    <3>3. CASE x \in v.overridden
      <4>1. PICK y \in v.delta.rows : y.dims = x.dims
          BY <3>3 DEF ViewOK, ShadowOK, Tuples
      <4>2. y.upd >= x.upd
          BY <3>3, <4>1 DEF ViewOK, ShadowOK
      <4>3. y.upd = a
          BY <1>3, <1>4, <2>2, <3>1, <4>2
      <4> QED BY <2>2, <4>3 DEF Logical
    <3> QED BY <3>2, <3>3
  <2> QED BY <2>1, <2>2
<1> HIDE DEF m
<1> QED BY <1>2, <1>5, <1>6, <1>7, LogicalOK, MaxUpdatedUnique

\* A query counts a tuple in the base or in the delta, never in both.
LEMMA ScanOnce ==
    ASSUME NEW v \in AnyView, ViewOK(v), NEW n
    PROVE  /\ UniqueTuples(BaseScan(v, n) \cup DeltaScan(v, n))
           /\ BaseScan(v, n) \cap DeltaScan(v, n) = {}
<1>1. BaseScan(v, n) \subseteq v.base.rows \ v.overridden /\ DeltaScan(v, n) \subseteq v.delta.rows
    BY DEF BaseScan, DeltaScan
<1>2. UniqueTuples(Logical(v))
    BY LogicalOK DEF RowsOK
<1>3. \A x \in v.base.rows \ v.overridden, y \in v.delta.rows : x.dims # y.dims
    BY DEF ViewOK, ShadowOK, Tuples
<1>4. BaseScan(v, n) \cup DeltaScan(v, n) \subseteq Logical(v)
    BY <1>1 DEF Logical
<1>5. UniqueTuples(BaseScan(v, n) \cup DeltaScan(v, n))
    BY <1>2, <1>4 DEF UniqueTuples
<1> QED BY <1>1, <1>3, <1>5

\* A query counts every row of the logical table that has not expired: skipping
\* the expiry test when minExpire or hasExpiry rules it out loses nothing.
LEMMA ScanIsVisible ==
    ASSUME NEW v \in AnyView, ViewOK(v), NEW n \in Int
    PROVE  BaseScan(v, n) \cup DeltaScan(v, n) = {x \in Logical(v) : ~rowExpired(x.exp, n)}
<1>1. v.base.rows \in SUBSET Row /\ v.base.minExpire = MinExpire(v.base.rows)
    BY DEF ViewOK, SnapshotOK, AnyView, Snapshot
<1>2. \A x \in v.base.rows : x.exp # 0 => v.base.minExpire # 0 /\ v.base.minExpire <= x.exp
    BY <1>1, MinExpireIs
<1>3. v.base.minExpire \in Int /\ \A x \in v.base.rows : x.exp \in Int
    BY <1>1, MinExpireIs, ZeroIsTime DEF Row
<1>4. \A x \in v.base.rows : rowExpired(x.exp, n) => v.base.minExpire # 0 /\ v.base.minExpire <= n
    BY <1>2, <1>3 DEF rowExpired
<1>5. BaseScan(v, n) = {x \in v.base.rows \ v.overridden : ~rowExpired(x.exp, n)}
    BY <1>4 DEF BaseScan
<1>6. DeltaScan(v, n) = {x \in v.delta.rows : ~rowExpired(x.exp, n)}
    BY DEF ViewOK, DeltaOK, DeltaScan, rowExpired
<1> QED BY <1>5, <1>6 DEF Logical

\* NeedsCompaction reads only cached scalars, yet raises exactly when there is
\* a delta to merge or a base row to reclaim.
LEMMA NeedsCompactionIs ==
    ASSUME NEW v \in AnyView, ViewOK(v), NEW n \in Int
    PROVE  NeedsCompaction(v, n) <=>
               v.delta.rows # {} \/ Survivors(v, ttlCutoff(n), n) # v.base.rows
<1> DEFINE rows == v.base.rows
<1>1. CASE v.delta.rows # {}
    BY <1>1 DEF NeedsCompaction
<1>2. CASE v.delta.rows = {}
  <2>1. rows \in SUBSET Row /\ \A x \in rows : x.upd \in Int /\ x.exp \in Int /\ x.upd > 0
      BY ZeroIsTime DEF AnyView, Snapshot, Row, ViewOK, SnapshotOK, RowsOK
  <2>2. v.base.minUpdated = MinUpdated(rows) /\ v.base.minExpire = MinExpire(rows)
      BY DEF ViewOK, SnapshotOK
  <2>3. Logical(v) = rows
      BY <1>2 DEF ViewOK, ShadowOK, Tuples, Logical
  <2>4. Survivors(v, ttlCutoff(n), n) = rows <=>
          \A x \in rows : x.upd >= ttlCutoff(n) /\ ~rowExpired(x.exp, n)
      BY <2>3 DEF Survivors, Survive
  <2>5. v.base.minUpdated \in Int /\ v.base.minExpire \in Int /\ TTL \in Nat
      BY <2>1, <2>2, MinUpdatedIs, MinExpireIs, ZeroIsTime, TimeAssumption
  <2>6. (\E x \in rows : ~(x.upd >= ttlCutoff(n))) <=>
          (TTL > 0 /\ v.base.minUpdated # 0 /\ v.base.minUpdated < n - TTL)
    <3>1. CASE TTL = 0
        BY <2>1, <3>1 DEF ttlCutoff
    <3>2. CASE TTL > 0
      <4>1. ttlCutoff(n) = n - TTL /\ n - TTL \in Int
          BY <2>5, <3>2 DEF ttlCutoff
      <4>2. rows # {} => v.base.minUpdated # 0
          BY <2>1, <2>2, MinUpdatedIs
      <4>3. ASSUME NEW x \in rows, ~(x.upd >= n - TTL)
            PROVE  v.base.minUpdated # 0 /\ v.base.minUpdated < n - TTL
          BY <2>1, <2>2, <2>5, <4>1, <4>2, <4>3, MinUpdatedIs
      <4>4. ASSUME v.base.minUpdated # 0, v.base.minUpdated < n - TTL
            PROVE  \E x \in rows : ~(x.upd >= n - TTL)
        <5>1. PICK x \in rows : x.upd = v.base.minUpdated
            BY <2>1, <2>2, <4>4, MinUpdatedIs
        <5> QED BY <2>5, <4>1, <4>4, <5>1
      <4> QED BY <3>2, <4>1, <4>3, <4>4
    <3> QED BY <2>5, <3>1, <3>2
  <2>7. (\E x \in rows : rowExpired(x.exp, n)) <=>
          (v.base.minExpire # 0 /\ v.base.minExpire <= n)
    <3>1. ASSUME NEW x \in rows, rowExpired(x.exp, n)
          PROVE  v.base.minExpire # 0 /\ v.base.minExpire <= n
        BY <2>1, <2>2, <2>5, <3>1, MinExpireIs DEF rowExpired
    <3>2. ASSUME v.base.minExpire # 0, v.base.minExpire <= n
          PROVE  \E x \in rows : rowExpired(x.exp, n)
        BY <2>1, <2>2, <3>2, MinExpireIs DEF rowExpired
    <3> QED BY <3>1, <3>2
  <2> QED BY <1>2, <2>4, <2>6, <2>7 DEF NeedsCompaction
<1> QED BY <1>1, <1>2

-----------------------------------------------------------------------------
(* One upsert, seen from the logical table.                                   *)

\* On the logical table an upsert replaces the row of its tuple, unless that row
\* is strictly newer or the row cap blocks a tuple that is not there.
LEMMA ApplyRecordLogical ==
    ASSUME NEW v \in AnyView, NEW row \in Row, NEW blocked \in BOOLEAN, ViewOK(v)
    PROVE  LET found == {x \in Logical(v) : x.dims = row.dims}
           IN  Logical(ApplyRecord(v, row, blocked)) =
                   IF Superseded(found, row.upd) \/ Dropped(blocked, found)
                   THEN Logical(v) ELSE (Logical(v) \ found) \cup {row}
<1> DEFINE u == ApplyRecord(v, row, blocked)
<1> DEFINE hit == {x \in v.delta.rows : x.dims = row.dims}
<1> DEFINE br == IF hit = {} /\ AllInBase(v, row.dims) THEN findRow(v.base, row.dims) ELSE {}
<1> DEFINE found == {x \in Logical(v) : x.dims = row.dims}
<1> DEFINE stored == ~Superseded(hit \cup br, row.upd) /\ ~Dropped(blocked, hit \cup br)
<1>1. row.dims \in Tuple
    BY DEF Row
<1>2. hit \cup br = found
    BY <1>1, FoundIsLogical
<1>3. /\ u.base = v.base
      /\ u.delta.rows = IF stored THEN (v.delta.rows \ hit) \cup {row} ELSE v.delta.rows
      /\ u.overridden = IF stored THEN v.overridden \cup br ELSE v.overridden
    BY DEF ApplyRecord
<1>4. hit \subseteq v.delta.rows /\ br \subseteq v.base.rows
    BY DEF findRow
<1>5. \A x \in v.base.rows \ v.overridden, y \in v.delta.rows : x.dims # y.dims
    BY DEF ViewOK, ShadowOK, Tuples
<1> HIDE DEF u, br, stored
<1>6. CASE ~stored
  <2>1. Logical(u) = Logical(v)
      BY <1>3, <1>6 DEF Logical
  <2> QED BY <1>2, <1>6, <2>1 DEF u, stored
<1>7. CASE stored
  <2>1. Logical(u) = (v.base.rows \ (v.overridden \cup br)) \cup ((v.delta.rows \ hit) \cup {row})
      BY <1>3, <1>7 DEF Logical
  <2>2. \A x \in v.base.rows \ v.overridden : x \in found <=> x \in br
      BY <1>2, <1>5
  <2>3. \A x \in v.delta.rows : x \in found <=> x \in hit
      BY DEF Logical
  <2>4. Logical(u) = (Logical(v) \ found) \cup {row}
      BY <2>1, <2>2, <2>3 DEF Logical
  <2> QED BY <1>2, <1>7, <2>4 DEF u, stored
<1> QED BY <1>6, <1>7

\* While the row cap blocks, an upsert adds no tuple.
LEMMA ApplyRecordTuples ==
    ASSUME NEW v \in AnyView, NEW row \in Row, ViewOK(v)
    PROVE  Tuples(Logical(ApplyRecord(v, row, TRUE))) \subseteq Tuples(Logical(v))
<1> DEFINE found == {x \in Logical(v) : x.dims = row.dims}
<1>1. CASE found = {}
  <2>1. Dropped(TRUE, found)
      BY <1>1 DEF Dropped
  <2> QED BY <2>1, ApplyRecordLogical
<1>2. CASE found # {}
  <2>1. row.dims \in Tuples(Logical(v))
      BY <1>2 DEF Tuples
  <2>2. \/ Logical(ApplyRecord(v, row, TRUE)) = Logical(v)
        \/ Logical(ApplyRecord(v, row, TRUE)) = (Logical(v) \ found) \cup {row}
      BY ApplyRecordLogical
  <2>3. \A x \in Logical(ApplyRecord(v, row, TRUE)) : x \in Logical(v) \/ x = row
      BY <2>2
  <2> QED BY <2>1, <2>3 DEF Tuples
<1> QED BY <1>1, <1>2
-----------------------------------------------------------------------------
(* Powers of two, and the widths of dictionaries.                              *)

LEMMA PowCard ==
    ASSUME NEW n \in Nat
    PROVE  2^n = Cardinality(SUBSET (1 .. n)) /\ IsFiniteSet(SUBSET (1 .. n))
<1>1. IsFiniteSet(1 .. n) /\ Cardinality(1 .. n) = n
  BY FS_Interval
<1> QED BY <1>1, FS_SUBSET

LEMMA PowNat ==
    ASSUME NEW n \in Nat
    PROVE  2^n \in Nat
BY PowCard, FS_CardinalityType

\* Half of the subsets of 1 .. n + 1 have n + 1.
LEMMA PowStep ==
    ASSUME NEW n \in Nat
    PROVE  2^(n + 1) = 2 * 2^n
<1> DEFINE S == SUBSET (1 .. n)
           T == {s \cup {n + 1} : s \in SUBSET (1 .. n)}
           f == [s \in S |-> s \cup {n + 1}]
<1>1. IsFiniteSet(S) /\ Cardinality(S) = 2^n
  BY PowCard
<1>2. f \in Bijection(S, T)
  <2>1. f \in [S -> T]
    OBVIOUS
  <2>2. ASSUME NEW a \in S, NEW b \in S, f[a] = f[b]
        PROVE  a = b
    <3>1. n + 1 \notin a /\ n + 1 \notin b
      OBVIOUS
    <3>2. a \cup {n + 1} = b \cup {n + 1}
      BY <2>2
    <3>3. a = (a \cup {n + 1}) \ {n + 1} /\ b = (b \cup {n + 1}) \ {n + 1}
      BY <3>1
    <3> QED BY <3>2, <3>3
  <2>3. \A t \in T : \E s \in S : f[s] = t
    OBVIOUS
  <2> QED BY <2>1, <2>2, <2>3 DEF Bijection, Injection, Surjection, IsInjective
<1>3. IsFiniteSet(T) /\ Cardinality(T) = 2^n
  <2>1. ExistsBijection(S, T)
    BY <1>2 DEF ExistsBijection
  <2> QED BY <1>1, <2>1, FS_Bijection
<1>4. S \cap T = {}
  OBVIOUS
<1>5. S \cup T = SUBSET (1 .. n + 1)
  <2>1. ASSUME NEW t \in S \cup T
        PROVE  t \in SUBSET (1 .. n + 1)
    <3>1. CASE t \in S
      BY <3>1
    <3>2. CASE t \in T
      <4>1. PICK s \in SUBSET (1 .. n) : t = s \cup {n + 1}
        BY <3>2
      <4>2. \A i \in s : i \in 1 .. n + 1
        OBVIOUS
      <4> QED BY <4>1, <4>2
    <3> QED BY <3>1, <3>2
  <2>2. ASSUME NEW t \in SUBSET (1 .. n + 1)
        PROVE  t \in S \cup T
    <3>1. CASE n + 1 \notin t
      BY <3>1
    <3>2. CASE n + 1 \in t
      <4>1. t \ {n + 1} \in SUBSET (1 .. n)
        OBVIOUS
      <4>2. t = (t \ {n + 1}) \cup {n + 1}
        BY <3>2
      <4> QED BY <4>1, <4>2
    <3> QED BY <3>1, <3>2
  <2> HIDE DEF S, T
  <2> QED BY <2>1, <2>2
<1>6. Cardinality(S \cup T) = 2^n + 2^n
  <2>1. Cardinality(S \cap T) = 0
    BY <1>4, FS_EmptySet
  <2> HIDE DEF S, T
  <2>2. Cardinality(S \cup T) = Cardinality(S) + Cardinality(T) - Cardinality(S \cap T)
    BY FS_Union, <1>1, <1>3
  <2> QED BY <2>1, <2>2, <1>1, <1>3, PowNat
<1>7. n + 1 \in Nat /\ 2^(n + 1) = Cardinality(SUBSET (1 .. (n + 1)))
  <2>1. n + 1 \in Nat
    OBVIOUS
  <2> QED BY <2>1, PowCard
<1>8. 2^(n + 1) = Cardinality(S \cup T)
  <2> HIDE DEF S, T
  <2> QED BY <1>5, <1>7
<1> QED BY <1>6, <1>8, PowNat

LEMMA PowZero == 2^0 = 1
<1>1. SUBSET (1 .. 0) = {{}}
  OBVIOUS
<1> QED BY <1>1, PowCard, FS_Singleton

LEMMA PowMono ==
    ASSUME NEW b \in Nat, NEW a \in 0 .. b
    PROVE  2^a <= 2^b
<1> DEFINE T == {k \in Nat : k >= a /\ ~(2^a <= 2^k)}
<1>0. \A k \in Nat : 2^k \in Nat
  BY PowNat
<1>1. ASSUME T # {} PROVE FALSE
  <2>1. PICK m \in T : \A k \in T : m <= k
    <3>1. T \in SUBSET Nat
      OBVIOUS
    <3> HIDE DEF T
    <3> QED BY <1>1, <3>1, NatMinimum
  <2>2. m # a
    BY <1>0, <2>1
  <2>3. m - 1 \in Nat /\ m - 1 + 1 = m /\ m - 1 \notin T /\ m - 1 >= a
    BY <2>1, <2>2
  <2>4. 2^m = 2 * 2^(m - 1)
    BY <2>3, PowStep
  <2> QED BY <1>0, <2>1, <2>3, <2>4
<1>2. b \notin T
  BY <1>1
<1> QED BY <1>2

LEMMA PowGrows ==
    ASSUME NEW n \in Nat
    PROVE  n < 2^n
<1> DEFINE T == {k \in Nat : ~(k < 2^k)}
<1>1. ASSUME T # {} PROVE FALSE
  <2>1. PICK m \in T : \A k \in T : m <= k
    <3>1. T \in SUBSET Nat
      OBVIOUS
    <3> HIDE DEF T
    <3> QED BY <1>1, <3>1, NatMinimum
  <2>0. m \in Nat /\ ~(m < 2^m) /\ 2^m \in Nat
    BY PowNat
  <2>2. m # 0
    <3>1. 0 < 2^0
      BY PowZero
    <3> QED BY <2>0, <3>1
  <2>3. m - 1 \in Nat /\ m - 1 + 1 = m /\ m - 1 \notin T
    BY <2>1, <2>2
  <2>4. m - 1 < 2^(m - 1)
    BY <2>3
  <2>5. 2^m = 2 * 2^(m - 1) /\ 2^(m - 1) \in Nat
    BY <2>3, PowStep, PowNat
  <2> QED BY <2>0, <2>3, <2>4, <2>5
<1> QED BY <1>1

\* dictBits is wide enough for the ids of n values, and no wider.
LEMMA DictBits ==
    ASSUME NEW n \in Nat
    PROVE  /\ dictBits(n) \in Nat \ {0} /\ n <= 2^dictBits(n)
           /\ n > 2 => dictBits(n) > 1 /\ 2^(dictBits(n) - 1) < n
<1>0. \A k \in Nat : 2^k \in Nat
  BY PowNat
<1>1. CASE n <= 2
  <2>1. 2^(0 + 1) = 2 * 2^0 /\ 0 + 1 = 1
    BY PowStep
  <2>2. 2^1 = 2
    BY <2>1, PowZero
  <2> QED BY <1>1, <2>2 DEF dictBits
<1>2. CASE ~(n <= 2)
  <2> DEFINE T == {k \in Nat : n <= 2^k}
  <2>1. n \in T
    BY PowGrows, <1>0
  <2>2. PICK m \in T : \A k \in T : m <= k
    <3>1. T \in SUBSET Nat /\ T # {}
      BY <2>1
    <3> HIDE DEF T
    <3> QED BY <3>1, NatMinimum
  <2>3. 2^(0 + 1) = 2 * 2^0 /\ 0 + 1 = 1
    BY PowStep
  <2>4. m # 0 /\ m # 1
    <3>1. ~(n <= 2^0) /\ ~(n <= 2^1)
      BY <1>2, <2>3, PowZero
    <3> QED BY <3>1
  <2>5. m \in 2 .. n
    BY <2>1, <2>2, <2>4
  <2>6. m - 1 \notin T
    BY <2>2
  <2>7. 2^(m - 1) < n /\ n <= 2^m
    BY <2>2, <2>4, <2>6, <1>0
  <2>8. \E b \in 2 .. n : 2^(b - 1) < n /\ n <= 2^b
    BY <2>5, <2>7
  <2>9. dictBits(n) \in 2 .. n /\ n <= 2^dictBits(n) /\ 2^(dictBits(n) - 1) < n
    BY <2>8, <1>2 DEF dictBits
  <2> QED BY <2>9
<1> QED BY <1>1, <1>2

\* More values need no fewer bits.
LEMMA DictBitsMono ==
    ASSUME NEW n \in Nat, NEW k \in 0 .. n
    PROVE  dictBits(k) <= dictBits(n)
<1>0. k \in Nat /\ \A i \in Nat : 2^i \in Nat
  BY PowNat
<1> DEFINE a == dictBits(k)
           b == dictBits(n)
<1>1. /\ a \in Nat \ {0} /\ b \in Nat \ {0} /\ n <= 2^b
      /\ k > 2 => a > 1 /\ 2^(a - 1) < k
  BY <1>0, DictBits
<1>2. CASE k <= 2
  <2>1. a = 1
    BY <1>2 DEF dictBits
  <2> HIDE DEF a, b
  <2>2. a <= b
    BY <1>1, <2>1
  <2> QED BY <2>2 DEF a, b
<1>3. CASE k > 2
  <2> HIDE DEF a, b
  <2>1. ASSUME ~(a <= b) PROVE FALSE
    <3>1. a - 1 \in Nat /\ b \in 0 .. a - 1
      BY <1>1, <2>1
    <3>2. 2^b <= 2^(a - 1)
      BY <3>1, PowMono
    <3> QED BY <1>0, <1>1, <1>3, <3>1, <3>2
  <2> QED BY <2>1 DEF a, b
<1> QED BY <1>0, <1>2, <1>3

-----------------------------------------------------------------------------
(* The width of a key: a sum over the index dimensions, whose order is open.  *)

\* The recursive function a sum of f is defined by.
SumOver(g, f) ==
    g = [s \in SUBSET IndexDims |->
            IF s = {} THEN 0 ELSE f[CHOOSE x \in s : TRUE] + g[s \ {CHOOSE x \in s : TRUE}]]

SumUpTo(g, f, n) ==
    \A s \in SUBSET IndexDims :
        Cardinality(s) <= n =>
            g[s] = IF s = {} THEN 0 ELSE f[CHOOSE x \in s : TRUE] + g[s \ {CHOOSE x \in s : TRUE}]

LEMMA IndexSubsets ==
    ASSUME NEW s \in SUBSET IndexDims
    PROVE  /\ IsFiniteSet(s) /\ Cardinality(s) \in Nat
           /\ Cardinality(s) <= Cardinality(IndexDims) /\ Cardinality(IndexDims) \in Nat
           /\ \A x \in s : Cardinality(s \ {x}) = Cardinality(s) - 1
           /\ s # {} => Cardinality(s) # 0
BY SchemaAssumption, FS_Subset, FS_CardinalityType, FS_RemoveElement, FS_EmptySet

LEMMA SumsExist ==
    ASSUME NEW f
    PROVE  \E g : SumOver(g, f)
<1> DEFINE N == Cardinality(IndexDims)
           T == {n \in Nat : ~\E g : SumUpTo(g, f, n)}
<1>0. N \in Nat
  BY IndexSubsets
<1>1. \E g : SumUpTo(g, f, 0)
  <2> DEFINE g == [s \in SUBSET IndexDims |-> 0]
  <2>1. ASSUME NEW s \in SUBSET IndexDims, Cardinality(s) <= 0
        PROVE  s = {}
    BY <2>1, IndexSubsets
  <2>2. \A s \in SUBSET IndexDims : g[s] = 0
    OBVIOUS
  <2> HIDE DEF g
  <2>3. SumUpTo(g, f, 0)
    BY <2>1, <2>2 DEF SumUpTo
  <2> QED BY <2>3
<1>2. ASSUME NEW n \in Nat, NEW g, SumUpTo(g, f, n)
      PROVE  \E h : SumUpTo(h, f, n + 1)
  <2> DEFINE h == [s \in SUBSET IndexDims |->
                     IF Cardinality(s) <= n THEN g[s]
                     ELSE f[CHOOSE x \in s : TRUE] + g[s \ {CHOOSE x \in s : TRUE}]]
  <2>1. ASSUME NEW s \in SUBSET IndexDims, Cardinality(s) <= n + 1
        PROVE  h[s] = IF s = {} THEN 0 ELSE f[CHOOSE x \in s : TRUE] + h[s \ {CHOOSE x \in s : TRUE}]
    <3> DEFINE x == CHOOSE y \in s : TRUE
    <3>1. CASE s = {}
      <4>1. Cardinality(s) <= n
        BY <3>1, FS_EmptySet
      <4>2. g[s] = 0
        BY <1>2, <3>1, <4>1 DEF SumUpTo
      <4> QED BY <3>1, <4>1, <4>2
    <3>2. CASE s # {}
      <4>1. x \in s
        BY <3>2
      <4>2. h[s] = IF Cardinality(s) <= n THEN g[s] ELSE f[x] + g[s \ {x}]
        OBVIOUS
      <4>3. Cardinality(s) <= n => g[s] = f[x] + g[s \ {x}]
        BY <1>2, <3>2 DEF SumUpTo
      <4>4. s \ {x} \in SUBSET IndexDims
        OBVIOUS
      <4>5. h[s \ {x}] = IF Cardinality(s \ {x}) <= n THEN g[s \ {x}]
                         ELSE f[CHOOSE y \in s \ {x} : TRUE] + g[(s \ {x}) \ {CHOOSE y \in s \ {x} : TRUE}]
        BY <4>4
      <4> HIDE DEF x, h
      <4>6. Cardinality(s \ {x}) <= n
        <5>1. Cardinality(s \ {x}) = Cardinality(s) - 1 /\ Cardinality(s) \in Nat
          BY <4>1, IndexSubsets
        <5> QED BY <2>1, <5>1
      <4>7. h[s] = f[x] + h[s \ {x}]
        BY <4>2, <4>3, <4>5, <4>6
      <4> QED BY <3>2, <4>7 DEF x
    <3> QED BY <3>1, <3>2
  <2> HIDE DEF h
  <2>2. SumUpTo(h, f, n + 1)
    BY <2>1 DEF SumUpTo
  <2> QED BY <2>2
<1>3. ASSUME T # {} PROVE FALSE
  <2>1. PICK m \in T : \A k \in T : m <= k
    <3>1. T \in SUBSET Nat
      OBVIOUS
    <3> HIDE DEF T
    <3> QED BY <1>3, <3>1, NatMinimum
  <2>2. m # 0
    BY <1>1, <2>1
  <2>3. m - 1 \in Nat /\ m - 1 + 1 = m /\ m - 1 \notin T
    BY <2>1, <2>2
  <2>4. PICK g : SumUpTo(g, f, m - 1)
    BY <2>3
  <2>5. \E h : SumUpTo(h, f, m - 1 + 1)
    BY <1>2, <2>3, <2>4
  <2> QED BY <2>1, <2>3, <2>5
<1>4. PICK g : SumUpTo(g, f, N)
  BY <1>0, <1>3
<1> DEFINE h == [s \in SUBSET IndexDims |-> g[s]]
<1>5. ASSUME NEW s \in SUBSET IndexDims
      PROVE  h[s] = IF s = {} THEN 0 ELSE f[CHOOSE x \in s : TRUE] + h[s \ {CHOOSE x \in s : TRUE}]
  <2>1. Cardinality(s) <= N
    BY IndexSubsets
  <2>2. g[s] = IF s = {} THEN 0 ELSE f[CHOOSE x \in s : TRUE] + g[s \ {CHOOSE x \in s : TRUE}]
    BY <1>4, <2>1 DEF SumUpTo
  <2>3. s \ {CHOOSE x \in s : TRUE} \in SUBSET IndexDims
    OBVIOUS
  <2> QED BY <2>2, <2>3
<1>6. h = [s \in SUBSET IndexDims |-> h[s]]
  OBVIOUS
<1> HIDE DEF h
<1>7. [s \in SUBSET IndexDims |-> h[s]]
      = [s \in SUBSET IndexDims |->
           IF s = {} THEN 0 ELSE f[CHOOSE x \in s : TRUE] + h[s \ {CHOOSE x \in s : TRUE}]]
  BY <1>5
<1>8. SumOver(h, f)
  BY <1>6, <1>7 DEF SumOver
<1> QED BY <1>8

\* The recursive function keyBits is defined by.
BitsFun(g, dicts) ==
    g = [s \in SUBSET IndexDims |->
            IF s = {} THEN 0
            ELSE dictBits(Cardinality(dicts[CHOOSE x \in s : TRUE])) + g[s \ {CHOOSE x \in s : TRUE}]]

TheBits(dicts) == CHOOSE g : BitsFun(g, dicts)

LEMMA KeyBitsFun ==
    ASSUME NEW dicts
    PROVE  keyBits(dicts) = TheBits(dicts)[IndexDims]
BY DEF keyBits, MapThenSumSet, MapThenFoldSet, TheBits, BitsFun

\* The same of IndexKeyBits.
EntryBitsFun(g, v) ==
    g = [s \in SUBSET IndexDims |->
            IF s = {} THEN 0
            ELSE dictBits(DictEntries(v)[CHOOSE x \in s : TRUE]) + g[s \ {CHOOSE x \in s : TRUE}]]

TheEntryBits(v) == CHOOSE g : EntryBitsFun(g, v)

LEMMA IndexKeyBitsFun ==
    ASSUME NEW v
    PROVE  IndexKeyBits(v) = TheEntryBits(v)[IndexDims]
BY DEF IndexKeyBits, MapThenSumSet, MapThenFoldSet, TheEntryBits, EntryBitsFun

LEMMA KeyBitsIs ==
    ASSUME NEW dicts
    PROVE  \E g : /\ SumOver(g, [d \in IndexDims |-> dictBits(Cardinality(dicts[d]))])
                 /\ keyBits(dicts) = g[IndexDims]
<1> DEFINE f == [d \in IndexDims |-> dictBits(Cardinality(dicts[d]))]
           g == TheBits(dicts)
<1>1. ASSUME NEW h PROVE SumOver(h, f) <=> BitsFun(h, dicts)
  <2>1. \A s \in SUBSET IndexDims : s # {} =>
           f[CHOOSE x \in s : TRUE] = dictBits(Cardinality(dicts[CHOOSE x \in s : TRUE]))
    OBVIOUS
  <2> HIDE DEF f
  <2>2. [s \in SUBSET IndexDims |->
            IF s = {} THEN 0 ELSE f[CHOOSE x \in s : TRUE] + h[s \ {CHOOSE x \in s : TRUE}]]
        = [s \in SUBSET IndexDims |->
            IF s = {} THEN 0
            ELSE dictBits(Cardinality(dicts[CHOOSE x \in s : TRUE])) + h[s \ {CHOOSE x \in s : TRUE}]]
    BY <2>1
  <2> QED BY <2>2 DEF SumOver, BitsFun
<1> HIDE DEF f
<1>2. \E h : SumOver(h, f)
  BY SumsExist
<1>3. BitsFun(g, dicts)
  BY <1>1, <1>2 DEF TheBits
<1> HIDE DEF g
<1>4. SumOver(g, f)
  BY <1>1, <1>3
<1> QED BY <1>4, KeyBitsFun DEF g, f

LEMMA IndexKeyBitsIs ==
    ASSUME NEW v
    PROVE  \E g : /\ SumOver(g, [d \in IndexDims |-> dictBits(DictEntries(v)[d])])
                 /\ IndexKeyBits(v) = g[IndexDims]
<1> DEFINE f == [d \in IndexDims |-> dictBits(DictEntries(v)[d])]
           g == TheEntryBits(v)
<1>1. ASSUME NEW h PROVE SumOver(h, f) <=> EntryBitsFun(h, v)
  <2>1. \A s \in SUBSET IndexDims : s # {} =>
           f[CHOOSE x \in s : TRUE] = dictBits(DictEntries(v)[CHOOSE x \in s : TRUE])
    OBVIOUS
  <2> HIDE DEF f
  <2>2. [s \in SUBSET IndexDims |->
            IF s = {} THEN 0 ELSE f[CHOOSE x \in s : TRUE] + h[s \ {CHOOSE x \in s : TRUE}]]
        = [s \in SUBSET IndexDims |->
            IF s = {} THEN 0
            ELSE dictBits(DictEntries(v)[CHOOSE x \in s : TRUE]) + h[s \ {CHOOSE x \in s : TRUE}]]
    BY <2>1
  <2> QED BY <2>2 DEF SumOver, EntryBitsFun
<1> HIDE DEF f
<1>2. \E h : SumOver(h, f)
  BY SumsExist
<1>3. EntryBitsFun(g, v)
  BY <1>1, <1>2 DEF TheEntryBits
<1> HIDE DEF g
<1>4. SumOver(g, f)
  BY <1>1, <1>3
<1> QED BY <1>4, IndexKeyBitsFun DEF g, f

\* The sum of smaller numbers is not larger.
LEMMA SumsMono ==
    ASSUME NEW g, NEW f, SumOver(g, f), NEW h, NEW e, SumOver(h, e),
           \A d \in IndexDims : f[d] \in Nat /\ e[d] \in Nat /\ f[d] <= e[d]
    PROVE  g[IndexDims] \in Nat /\ h[IndexDims] \in Nat /\ g[IndexDims] <= h[IndexDims]
<1> DEFINE Ordered(s) == g[s] \in Nat /\ h[s] \in Nat /\ g[s] <= h[s]
           T == {n \in Nat : \E s \in SUBSET IndexDims : Cardinality(s) = n /\ ~Ordered(s)}
<1>1. \A s \in SUBSET IndexDims :
         g[s] = IF s = {} THEN 0 ELSE f[CHOOSE x \in s : TRUE] + g[s \ {CHOOSE x \in s : TRUE}]
  BY DEF SumOver
<1>2. \A s \in SUBSET IndexDims :
         h[s] = IF s = {} THEN 0 ELSE e[CHOOSE x \in s : TRUE] + h[s \ {CHOOSE x \in s : TRUE}]
  BY DEF SumOver
<1>3. ASSUME T # {} PROVE FALSE
  <2>1. PICK m \in T : \A k \in T : m <= k
    <3>1. T \in SUBSET Nat
      OBVIOUS
    <3> HIDE DEF T
    <3> QED BY <1>3, <3>1, NatMinimum
  <2>2. PICK s \in SUBSET IndexDims : Cardinality(s) = m /\ ~Ordered(s)
    BY <2>1
  <2>3. s # {}
    <3>1. g[{}] = 0 /\ h[{}] = 0
      BY <1>1, <1>2
    <3> QED BY <2>2, <3>1
  <2> DEFINE x == CHOOSE y \in s : TRUE
  <2>4. x \in s /\ g[s] = f[x] + g[s \ {x}] /\ h[s] = e[x] + h[s \ {x}]
    BY <1>1, <1>2, <2>3
  <2> HIDE DEF x
  <2>5. s \ {x} \in SUBSET IndexDims
    OBVIOUS
  <2>6. Cardinality(s \ {x}) = m - 1 /\ m - 1 \in Nat
    BY <2>2, <2>4, <2>5, IndexSubsets
  <2>7. m - 1 \notin T
    BY <2>1, <2>6
  <2>8. Ordered(s \ {x})
    BY <2>5, <2>6, <2>7
  <2>9. f[x] \in Nat /\ e[x] \in Nat /\ f[x] <= e[x]
    BY <2>4
  <2> QED BY <2>2, <2>4, <2>8, <2>9
<1>4. Cardinality(IndexDims) \in Nat
  BY IndexSubsets
<1>5. Ordered(IndexDims)
  BY <1>3, <1>4
<1> QED BY <1>5

\* The width Stats reports is no less than what any of the view's values need.
LEMMA WidthForewarns ==
    ASSUME NEW v, NEW dicts,
           \A d \in IndexDims : /\ IsFiniteSet(v.base.dicts[d]) /\ IsFiniteSet(v.extras[d])
                                /\ v.base.dicts[d] \cap v.extras[d] = {}
                                /\ dicts[d] \subseteq v.base.dicts[d] \cup v.extras[d]
    PROVE  keyBits(dicts) \in Nat /\ IndexKeyBits(v) \in Nat /\ keyBits(dicts) <= IndexKeyBits(v)
<1> DEFINE f == [d \in IndexDims |-> dictBits(Cardinality(dicts[d]))]
           e == [d \in IndexDims |-> dictBits(DictEntries(v)[d])]
<1>1. PICK g : SumOver(g, f) /\ keyBits(dicts) = g[IndexDims]
  BY KeyBitsIs
<1>2. PICK h : SumOver(h, e) /\ IndexKeyBits(v) = h[IndexDims]
  BY IndexKeyBitsIs
<1>3. ASSUME NEW d \in IndexDims PROVE f[d] \in Nat /\ e[d] \in Nat /\ f[d] <= e[d]
  <2> DEFINE A == v.base.dicts[d]
             B == v.extras[d]
  <2>1. Cardinality(A \cup B) = Cardinality(A) + Cardinality(B) /\ IsFiniteSet(A \cup B)
    <3>1. IsFiniteSet(A) /\ IsFiniteSet(B) /\ A \cap B = {}
      OBVIOUS
    <3> HIDE DEF A, B
    <3>2. /\ IsFiniteSet(A \cup B)
          /\ Cardinality(A \cup B) = Cardinality(A) + Cardinality(B) - Cardinality(A \cap B)
      BY <3>1, FS_Union
    <3>3. Cardinality(A \cap B) = 0 /\ Cardinality(A) \in Nat /\ Cardinality(B) \in Nat
      BY <3>1, FS_EmptySet, FS_CardinalityType
    <3> QED BY <3>2, <3>3
  <2>2. dicts[d] \subseteq A \cup B
    OBVIOUS
  <2>3. d \in Dims
    BY SchemaAssumption
  <2>4. DictEntries(v)[d] = Cardinality(A \cup B)
    BY <2>1, <2>3 DEF DictEntries
  <2> HIDE DEF A, B
  <2>5. /\ Cardinality(A \cup B) \in Nat /\ Cardinality(dicts[d]) \in Nat
        /\ Cardinality(dicts[d]) <= Cardinality(A \cup B)
    BY <2>1, <2>2, FS_Subset, FS_CardinalityType
  <2>6. f[d] = dictBits(Cardinality(dicts[d])) /\ e[d] = dictBits(Cardinality(A \cup B))
    BY <2>4
  <2> HIDE DEF f, e
  <2>7. Cardinality(dicts[d]) \in 0 .. Cardinality(A \cup B)
    BY <2>5
  <2>8. /\ dictBits(Cardinality(dicts[d])) \in Nat /\ dictBits(Cardinality(A \cup B)) \in Nat
    BY <2>5, DictBits
  <2> QED BY <2>5, <2>6, <2>7, <2>8, DictBitsMono
<1> HIDE DEF f, e
<1> QED BY <1>1, <1>2, <1>3, SumsMono
=============================================================================
