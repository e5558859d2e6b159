----------------------------- MODULE ColumnProofs -----------------------------
(* What the calls of ColumnTable keep of the columns, for every schema, table *)
(* and batch, and that they implement the operations of View.                 *)
EXTENDS ColumnTable, ColumnLemmas

-----------------------------------------------------------------------------
(* Upserts, seen through the abstraction.                                     *)

\* A value of the base dictionary has an id below its length, a value of the
\* extras one above.
LEMMA AbsValues ==
    ASSUME NEW v, NEW d, DictPair(v, d), NEW id \in 0 .. idSpace(v, d) - 1
    PROVE  /\ dimString(v, d, id) \in Range(v.base.dicts[d]) <=> id < Len(v.base.dicts[d])
           /\ dimString(v, d, id) \in Range(v.extras[d]) <=> ~(id < Len(v.base.dicts[d]))
<1> DEFINE b == v.base.dicts[d]
           e == v.extras[d]
<1>1. b \in Seq(Spellings) /\ e \in Seq(Spellings)
  BY DEF DictPair
<1>2. /\ DOMAIN b = 1 .. Len(b) /\ Len(b) \in Nat /\ DOMAIN e = 1 .. Len(e) /\ Len(e) \in Nat
  BY <1>1
<1>3. /\ idSpace(v, d) = Len(b) + Len(e)
      /\ \A x : dimString(v, d, x) = IF x < Len(b) THEN b[x + 1] ELSE e[(x - Len(b)) + 1]
  BY DEF idSpace, dimString
<1>4. \A x, y \in 0 .. idSpace(v, d) - 1 : dimString(v, d, x) = dimString(v, d, y) => x = y
  BY DimStrings
<1> HIDE DEF b, e
<1>5. ASSUME NEW i \in DOMAIN b PROVE i - 1 \in 0 .. idSpace(v, d) - 1 /\ dimString(v, d, i - 1) = b[i] /\ i - 1 < Len(b)
  BY <1>2, <1>3
<1>6. ASSUME NEW i \in DOMAIN e
      PROVE  /\ Len(b) + i - 1 \in 0 .. idSpace(v, d) - 1 /\ ~(Len(b) + i - 1 < Len(b))
             /\ dimString(v, d, Len(b) + i - 1) = e[i]
  <2>1. Len(b) + i - 1 \in 0 .. idSpace(v, d) - 1 /\ ~(Len(b) + i - 1 < Len(b))
    BY <1>2, <1>3
  <2>2. ((Len(b) + i - 1) - Len(b)) + 1 = i
    BY <1>2
  <2> QED BY <1>3, <2>1, <2>2
<1>7. id < Len(b) => dimString(v, d, id) \in Range(b)
  <2>1. id < Len(b) => id + 1 \in DOMAIN b
    BY <1>2
  <2> QED BY <1>3, <2>1 DEF Range
<1>8. ~(id < Len(b)) => dimString(v, d, id) \in Range(e)
  <2>1. ~(id < Len(b)) => (id - Len(b)) + 1 \in DOMAIN e
    BY <1>2, <1>3
  <2> QED BY <1>3, <2>1 DEF Range
<1>9. ASSUME dimString(v, d, id) \in Range(b) PROVE id < Len(b)
  <2>1. PICK i \in DOMAIN b : b[i] = dimString(v, d, id)
    BY <1>9 DEF Range
  <2>2. id = i - 1
    BY <1>4, <1>5, <2>1
  <2> QED BY <1>5, <2>2
<1>10. ASSUME dimString(v, d, id) \in Range(e) PROVE ~(id < Len(b))
  <2>1. PICK i \in DOMAIN e : e[i] = dimString(v, d, id)
    BY <1>10 DEF Range
  <2>2. id = Len(b) + i - 1
    BY <1>4, <1>6, <2>1
  <2> QED BY <1>6, <2>2
<1> QED BY <1>7, <1>8, <1>9, <1>10 DEF b, e

\* The parts of what a view stands for.
AbsParts(v, A) ==
    /\ A.base.rows = {AbsRow(v, v.base.rows[r]) : r \in DOMAIN v.base.rows}
    /\ A.base.dicts = [d \in Dims |-> Range(v.base.dicts[d])]
    /\ A.base.maxUpdated = v.base.maxUpdated /\ A.base.minUpdated = v.base.minUpdated
    /\ A.base.minExpire = v.base.minExpire
    /\ A.delta.rows = {AbsRow(v, v.delta.rows[r]) : r \in DOMAIN v.delta.rows}
    /\ A.delta.maxUpdated = v.delta.maxUpdated /\ A.delta.hasExpiry = v.delta.hasExpiry
    /\ A.extras = [d \in Dims |-> Range(v.extras[d])]
    /\ A.overridden = {AbsRow(v, v.base.rows[r]) : r \in v.overridden}

LEMMA AbsHas ==
    ASSUME NEW v
    PROVE  AbsParts(v, AbsView(v))
<1>1. /\ {AbsRow(v, row) : row \in Range(v.base.rows)} = {AbsRow(v, v.base.rows[r]) : r \in DOMAIN v.base.rows}
      /\ {AbsRow(v, row) : row \in Range(v.delta.rows)} = {AbsRow(v, v.delta.rows[r]) : r \in DOMAIN v.delta.rows}
  BY DEF Range
<1> QED BY <1>1 DEF AbsParts, AbsView

\* The rows an upsert finds are the rows View finds.
LEMMA FoundAbs ==
    ASSUME NEW v \in ColView(Dict), RepOK(v), NEW new, RowFor(v, new)
    PROVE  LET A == AbsView(v)
               row == AbsRow(v, new)
               hit == {x \in A.delta.rows : x.dims = row.dims}
               br == IF hit = {} /\ AllInBase(A, row.dims) THEN findRow(A.base, row.dims) ELSE {}
           IN  /\ hit = {AbsRow(v, v.delta.rows[q]) : q \in At(v, new)}
               /\ br = {AbsRow(v, v.base.rows[r]) : r \in Br(v, new)}
<1> DEFINE A == AbsView(v)
           row == AbsRow(v, new)
           at == At(v, new)
           hit == {x \in A.delta.rows : x.dims = row.dims}
           br == IF hit = {} /\ AllInBase(A, row.dims) THEN findRow(A.base, row.dims) ELSE {}
<1>0. new \in ColRow /\ InSpace(v, new.ids) /\ \A d \in Dims : DictPair(v, d)
  BY DEF RowFor, ColRow, InSpace, RepOK
<1>1. \A q \in DOMAIN v.delta.rows : InSpace(v, v.delta.rows[q].ids)
  BY BaseRowsHave DEF InSpace, ColRow, RepOK, DeltaRowsOK
<1>2. \A r \in DOMAIN v.base.rows : InSpace(v, v.base.rows[r].ids)
  <2>1. \A r \in DOMAIN v.base.rows : v.base.rows[r].ids \in [Dims -> Nat]
    BY BaseRowsHave DEF ColRow
  <2>2. \A d \in Dims : idSpace(v, d) \in Nat
    BY <1>0, DimStrings
  <2>3. \A r \in DOMAIN v.base.rows, d \in Dims : v.base.rows[r].ids[d] < idSpace(v, d)
    BY RowIds, <2>2
  <2> QED BY <2>1, <2>3 DEF InSpace
<1>3. \A q \in DOMAIN v.delta.rows : AbsRow(v, v.delta.rows[q]).dims = row.dims <=> q \in at
  <2>1. ASSUME NEW q \in DOMAIN v.delta.rows PROVE AbsRow(v, v.delta.rows[q]).dims = row.dims <=> q \in at
    <3>1. AbsRow(v, v.delta.rows[q]).dims = row.dims <=> v.delta.rows[q].ids = new.ids
      BY <1>0, <1>1, AbsDims
    <3> QED BY <3>1 DEF At
  <2> QED BY <2>1
<1>4. \A r \in DOMAIN v.base.rows : AbsRow(v, v.base.rows[r]).dims = row.dims <=> v.base.rows[r].ids = new.ids
  BY <1>0, <1>2, AbsDims
<1>5. A.delta.rows = {AbsRow(v, v.delta.rows[q]) : q \in DOMAIN v.delta.rows}
  BY AbsHas DEF AbsParts
<1>6. A.base.rows = {AbsRow(v, v.base.rows[r]) : r \in DOMAIN v.base.rows}
  BY AbsHas DEF AbsParts
<1>7. hit = {AbsRow(v, v.delta.rows[q]) : q \in at}
  <2>1. at \subseteq DOMAIN v.delta.rows
    BY DEF At
  <2> HIDE DEF row, A, at
  <2> QED BY <1>3, <1>5, <2>1
<1>8. hit = {} <=> at = {}
  BY <1>7
<1>9. findRow(A.base, row.dims) = {AbsRow(v, v.base.rows[r]) : r \in {x \in DOMAIN v.base.rows : v.base.rows[x].ids = new.ids}}
  <2> HIDE DEF row, A
  <2> QED BY <1>4, <1>6 DEF findRow
<1>10. AllInBase(A, row.dims) <=> \A d \in Dims : new.ids[d] < Len(v.base.dicts[d])
  <2>1. ASSUME NEW d \in Dims PROVE row.dims[d] \in A.base.dicts[d] <=> new.ids[d] < Len(v.base.dicts[d])
    <3>1. row.dims[d] = dimString(v, d, new.ids[d])
      BY DEF AbsRow
    <3>2. A.base.dicts[d] = Range(v.base.dicts[d])
      <4>1. AbsParts(v, A)
        BY AbsHas
      <4> HIDE DEF A
      <4> QED BY <4>1 DEF AbsParts
    <3>3. new.ids[d] \in 0 .. idSpace(v, d) - 1
      <4>1. idSpace(v, d) \in Nat
        BY <1>0, DimStrings
      <4> QED BY <1>0, <4>1 DEF InSpace
    <3>4. dimString(v, d, new.ids[d]) \in Range(v.base.dicts[d]) <=> new.ids[d] < Len(v.base.dicts[d])
      BY <1>0, <3>3, AbsValues
    <3> QED BY <3>1, <3>2, <3>4
  <2> HIDE DEF row, A
  <2> QED BY <2>1 DEF AllInBase
<1> HIDE DEF row, A, hit, at
<1>11. br = {AbsRow(v, v.base.rows[r]) : r \in Br(v, new)}
  <2> DEFINE R == {x \in DOMAIN v.base.rows : v.base.rows[x].ids = new.ids}
  <2>1. (at = {} => Br(v, new) = R) /\ (at # {} => Br(v, new) = {})
    BY <1>0, BrIs DEF at
  <2>2. CASE at = {}
    <3>1. CASE AllInBase(A, row.dims)
      BY <1>8, <1>9, <2>1, <2>2, <3>1
    <3>2. CASE ~AllInBase(A, row.dims)
      <4>1. Br(v, new) = {}
        BY <1>10, <3>2 DEF Br
      <4> QED BY <3>2, <4>1
    <3> QED BY <3>1, <3>2
  <2>3. CASE at # {}
    BY <1>8, <2>1, <2>3
  <2> QED BY <2>2, <2>3
<1> QED BY <1>7, <1>11 DEF row, A, hit, at

\* The same record of another view of the same dictionaries.
LEMMA AbsRowSame ==
    ASSUME NEW v, NEW u, u.base = v.base, u.extras = v.extras, NEW row
    PROVE  AbsRow(u, row) = AbsRow(v, row)
BY DEF AbsRow, dimString

\* An upsert of the columns is View's upsert of the row it stands for.
LEMMA UpsertAbs ==
    ASSUME NEW v \in ColView(Dict), RepOK(v), NEW new, RowFor(v, new), NEW blocked \in BOOLEAN
    PROVE  AbsView(Upsert(v, new, blocked)) = ApplyRecord(AbsView(v), AbsRow(v, new), blocked)
<1> DEFINE A == AbsView(v)
           row == AbsRow(v, new)
           hit == {x \in A.delta.rows : x.dims = row.dims}
           br == IF hit = {} /\ AllInBase(A, row.dims) THEN findRow(A.base, row.dims) ELSE {}
           stored == ~Superseded(hit \cup br, row.upd) /\ ~Dropped(blocked, hit \cup br)
           u == Upsert(v, new, blocked)
           C == AbsView(u)
           P == ApplyRecord(A, row, blocked)
           st == Stores(v, new, blocked)
           old == v.delta.rows
           rows == u.delta.rows
           abs(x) == AbsRow(v, x)
<1>0. new \in ColRow /\ InSpace(v, new.ids) /\ \A d \in Dims : DictPair(v, d)
  BY DEF RowFor, ColRow, InSpace, RepOK
<1>1. P = [base |-> A.base,
           delta |-> [rows |-> IF stored THEN (A.delta.rows \ hit) \cup {row} ELSE A.delta.rows,
                      maxUpdated |-> IF (stored \/ hit # {}) /\ row.upd > A.delta.maxUpdated
                                     THEN row.upd ELSE A.delta.maxUpdated,
                      hasExpiry |-> A.delta.hasExpiry \/ (stored /\ row.exp # 0)],
           extras |-> Interned(A, row.dims),
           overridden |-> IF stored THEN A.overridden \cup br ELSE A.overridden]
  BY DEF ApplyRecord
<1>2. hit = {abs(old[q]) : q \in At(v, new)} /\ br = {abs(v.base.rows[r]) : r \in Br(v, new)}
  BY FoundAbs
<1>3. AbsParts(v, A) /\ AbsParts(u, C)
  BY AbsHas
<1>4. Upserted(v, new, blocked, u)
  BY UpsertHas
<1>5. row.upd = new.upd /\ row.exp = new.exp /\ \A x : abs(x).upd = x.upd
  BY DEF AbsRow
<1>6. \A q \in DOMAIN old : abs(old[q]).dims = row.dims <=> q \in At(v, new)
  <2>1. ASSUME NEW q \in DOMAIN old PROVE abs(old[q]).dims = row.dims <=> q \in At(v, new)
    <3>1. InSpace(v, old[q].ids)
      BY BaseRowsHave DEF InSpace, ColRow, RepOK, DeltaRowsOK
    <3>2. abs(old[q]).dims = row.dims <=> old[q].ids = new.ids
      BY <1>0, <3>1, AbsDims
    <3> QED BY <3>2 DEF At
  <2> QED BY <2>1
<1>7. st => RowsUpserted(old, At(v, new), new, rows)
  BY <1>0, UpsertRows
<1>8. C = [base |-> C.base, delta |-> C.delta, extras |-> C.extras, overridden |-> C.overridden]
      /\ C.delta = [rows |-> C.delta.rows, maxUpdated |-> C.delta.maxUpdated, hasExpiry |-> C.delta.hasExpiry]
  BY DEF AbsView
<1>9. C.base = A.base
  <2>1. u.base = v.base /\ u.extras = v.extras
    BY <1>4 DEF Upserted
  <2>2. {AbsRow(u, x) : x \in Range(u.base.rows)} = {AbsRow(v, x) : x \in Range(v.base.rows)}
    <3> HIDE DEF u
    <3> QED BY <2>1, AbsRowSame
  <2> HIDE DEF u
  <2> QED BY <2>1, <2>2 DEF AbsView
<1> HIDE DEF A, C, P, u
<1>10. \A x : AbsRow(u, x) = abs(x)
  <2>1. u.base = v.base /\ u.extras = v.extras
    BY <1>4 DEF Upserted
  <2> QED BY <2>1, AbsRowSame
<1> HIDE DEF row, hit, br
<1>11. stored = st
  <2>1. Superseded(hit \cup br, row.upd) <=> Stale(v, new)
    BY <1>2, <1>5 DEF Superseded, Stale
  <2>2. hit \cup br = {} <=> At(v, new) \cup Br(v, new) = {}
    BY <1>2
  <2>3. Dropped(blocked, hit \cup br) <=> Dropped(blocked, At(v, new) \cup Br(v, new))
    BY <2>2 DEF Dropped
  <2>4. stored \in BOOLEAN /\ st \in BOOLEAN
    BY DEF Stores
  <2> QED BY <2>1, <2>3, <2>4 DEF Stores
<1> HIDE DEF stored, st, abs
<1>12. C.extras = Interned(A, row.dims)
  <2>1. C.extras = [d \in Dims |-> Range(v.extras[d])] /\ A.extras = [d \in Dims |-> Range(v.extras[d])]
        /\ A.base.dicts = [d \in Dims |-> Range(v.base.dicts[d])]
    BY <1>3, <1>4 DEF AbsParts, Upserted
  <2>2. ASSUME NEW d \in Dims PROVE row.dims[d] \in Range(v.base.dicts[d]) \cup Range(v.extras[d])
    <3>1. row.dims[d] = dimString(v, d, new.ids[d])
      BY DEF row, AbsRow
    <3>2. new.ids[d] \in 0 .. idSpace(v, d) - 1
      <4>1. idSpace(v, d) \in Nat
        BY <1>0, DimStrings
      <4> QED BY <1>0, <4>1 DEF InSpace
    <3> QED BY <1>0, <3>1, <3>2, AbsValues
  <2>3. ASSUME NEW d \in Dims PROVE A.extras[d] \cup ({row.dims[d]} \ A.base.dicts[d]) = Range(v.extras[d])
    BY <2>1, <2>2
  <2> QED BY <2>1, <2>3 DEF Interned
<1>13. C.overridden = IF stored THEN A.overridden \cup br ELSE A.overridden
  <2>1. C.overridden = {abs(v.base.rows[r]) : r \in u.overridden}
    BY <1>3, <1>4, <1>10 DEF AbsParts, Upserted
  <2>2. A.overridden = {abs(v.base.rows[r]) : r \in v.overridden}
    BY <1>3 DEF AbsParts, abs
  <2>3. u.overridden = IF stored THEN v.overridden \cup Br(v, new) ELSE v.overridden
    BY <1>4, <1>11 DEF Upserted, st
  <2> QED BY <1>2, <2>1, <2>2, <2>3
<1>14. C.delta.rows = IF stored THEN (A.delta.rows \ hit) \cup {row} ELSE A.delta.rows
  <2>1. C.delta.rows = {abs(rows[r]) : r \in DOMAIN rows}
    BY <1>3, <1>10 DEF AbsParts
  <2>2. A.delta.rows = {abs(old[r]) : r \in DOMAIN old}
    BY <1>3 DEF AbsParts, abs
  <2>3. CASE ~stored
    <3>1. rows = old
      BY <1>4, <1>11, <2>3 DEF Upserted, st
    <3> QED BY <2>1, <2>2, <2>3, <3>1
  <2>4. CASE stored
    <3>1. RowsUpserted(old, At(v, new), new, rows)
      BY <1>7, <1>11, <2>4
    <3>2. row = abs(new)
      BY DEF row, abs
    <3> HIDE DEF rows, old
    <3>3. /\ \A r \in DOMAIN old : r \notin At(v, new) => r \in DOMAIN rows /\ rows[r] = old[r]
          /\ \A r \in DOMAIN rows : rows[r] = new \/ (r \in DOMAIN old /\ r \notin At(v, new) /\ rows[r] = old[r])
          /\ \E r \in DOMAIN rows : rows[r] = new
      BY <3>1 DEF RowsUpserted
    <3>4. \A r \in DOMAIN old : abs(old[r]) \in hit <=> r \in At(v, new)
      <4>1. ASSUME NEW r \in DOMAIN old, abs(old[r]) \in hit PROVE r \in At(v, new)
        <5>1. abs(old[r]).dims = row.dims
          BY <4>1 DEF hit
        <5> QED BY <1>6, <5>1
      <4>2. ASSUME NEW r \in At(v, new) PROVE abs(old[r]) \in hit
        BY <1>2
      <4> QED BY <4>1, <4>2
    <3>5. {abs(rows[r]) : r \in DOMAIN rows} \subseteq ({abs(old[r]) : r \in DOMAIN old} \ hit) \cup {row}
      BY <3>2, <3>3, <3>4
    <3>6. row \in {abs(rows[r]) : r \in DOMAIN rows}
      BY <3>2, <3>3
    <3>7. {abs(old[r]) : r \in DOMAIN old} \ hit \subseteq {abs(rows[r]) : r \in DOMAIN rows}
      BY <3>3, <3>4
    <3> QED BY <2>1, <2>2, <2>4, <3>5, <3>6, <3>7
  <2> QED BY <2>3, <2>4
<1>15. C.delta.maxUpdated = IF (stored \/ hit # {}) /\ row.upd > A.delta.maxUpdated
                            THEN row.upd ELSE A.delta.maxUpdated
  <2>1. hit # {} <=> At(v, new) # {}
    BY <1>2
  <2>2. C.delta.maxUpdated = u.delta.maxUpdated /\ A.delta.maxUpdated = v.delta.maxUpdated
    BY <1>3 DEF AbsParts
  <2>3. u.delta.maxUpdated = IF (stored \/ At(v, new) # {}) /\ new.upd > v.delta.maxUpdated
                             THEN new.upd ELSE v.delta.maxUpdated
    BY <1>4, <1>11 DEF Upserted, st
  <2> QED BY <1>5, <2>1, <2>2, <2>3
<1>16. C.delta.hasExpiry = (A.delta.hasExpiry \/ (stored /\ row.exp # 0))
  BY <1>3, <1>4, <1>5, <1>11 DEF AbsParts, Upserted, st
<1> HIDE DEF A, C, P, row
<1>17. C.delta = [rows |-> IF stored THEN (A.delta.rows \ hit) \cup {row} ELSE A.delta.rows,
                  maxUpdated |-> IF (stored \/ hit # {}) /\ row.upd > A.delta.maxUpdated
                                 THEN row.upd ELSE A.delta.maxUpdated,
                  hasExpiry |-> A.delta.hasExpiry \/ (stored /\ row.exp # 0)]
  BY <1>8, <1>14, <1>15, <1>16
<1>18. C = P
  BY <1>1, <1>8, <1>9, <1>12, <1>13, <1>17
<1> QED BY <1>18 DEF A, C, P, row, u

-----------------------------------------------------------------------------
(* Interning a value.                                                         *)

\* u is v with the value s added to the extras of d.
ValueAdded(v, u, d, s) ==
    /\ u \in ColView(Dict) /\ u.base = v.base /\ u.delta = v.delta /\ u.overridden = v.overridden
    /\ u.extras[d] = Append(v.extras[d], s)
    /\ \A x \in Dims : x # d => u.extras[x] = v.extras[x]

\* The ids of a dimension when a value is added: the old ones and one more.
LEMMA ValueIds ==
    ASSUME NEW v \in ColView(Dict), NEW d \in Dims, DictPair(v, d), NEW s \in Spellings,
           lookupID(v, d, s) = {}, NEW u, ValueAdded(v, u, d, s)
    PROVE  /\ DictPair(u, d) /\ idSpace(u, d) = idSpace(v, d) + 1
           /\ \A id \in 0 .. idSpace(v, d) - 1 : dimString(u, d, id) = dimString(v, d, id)
           /\ dimString(u, d, idSpace(v, d)) = s
<1> DEFINE b == v.base.dicts[d]
           e == v.extras[d]
           N == idSpace(v, d)
           w == b \o e
           z == b \o Append(e, s)
<1>1. b \in Seq(Spellings) /\ e \in Seq(Spellings) /\ \A x, y \in DOMAIN w : w[x] = w[y] => x = y
  BY DEF DictPair, IsInjective
<1>2. /\ u.base.dicts[d] = b /\ u.extras[d] = Append(e, s)
      /\ N = Len(b) + Len(e)
      /\ \A id : dimString(v, d, id) = IF id < Len(b) THEN b[id + 1] ELSE e[(id - Len(b)) + 1]
      /\ \A id : dimString(u, d, id) = IF id < Len(b) THEN b[id + 1] ELSE Append(e, s)[(id - Len(b)) + 1]
      /\ idSpace(u, d) = Len(b) + Len(Append(e, s))
  BY DEF ValueAdded, idSpace, dimString
<1>3. \A id \in 0 .. N - 1 : dimString(v, d, id) # s /\ dimString(v, d, id) = w[id + 1]
  <2>1. ASSUME NEW id \in 0 .. N - 1 PROVE dimString(v, d, id) = w[id + 1]
    <3>1. Len(b) \in Nat /\ Len(e) \in Nat
      BY <1>1
    <3> HIDE DEF b, e, N
    <3>2. CASE id < Len(b)
      <4>1. id + 1 \in 1 .. Len(b)
        BY <3>1, <3>2, <1>2
      <4> QED BY <1>1, <1>2, <3>2, <4>1, ConcatIs
    <3>3. CASE ~(id < Len(b))
      <4>1. (id - Len(b)) + 1 \in 1 .. Len(e) /\ Len(b) + ((id - Len(b)) + 1) = id + 1
        BY <3>1, <3>3, <1>2
      <4>2. w[Len(b) + ((id - Len(b)) + 1)] = e[(id - Len(b)) + 1]
        BY <1>1, <4>1, ConcatIs
      <4> QED BY <1>2, <3>3, <4>1, <4>2
    <3> QED BY <3>2, <3>3
  <2>2. {id \in 0 .. N - 1 : dimString(v, d, id) = s} = {}
    BY LookupIDIs
  <2> HIDE DEF N, w
  <2> QED BY <2>1, <2>2
<1> HIDE DEF b, e, N, w
<1>4. /\ Append(e, s) \in Seq(Spellings) /\ Len(Append(e, s)) = Len(e) + 1 /\ Len(e) \in Nat /\ Len(b) \in Nat
      /\ \A i \in 1 .. Len(e) : Append(e, s)[i] = e[i]
      /\ Append(e, s)[Len(e) + 1] = s
  BY <1>1
<1>5. idSpace(u, d) = N + 1 /\ N \in Nat
  BY <1>2, <1>4
<1>6. \A id \in 0 .. N - 1 : dimString(u, d, id) = dimString(v, d, id)
  <2>1. ASSUME NEW id \in 0 .. N - 1 PROVE dimString(u, d, id) = dimString(v, d, id)
    <3>1. CASE id < Len(b)
      BY <1>2, <3>1
    <3>2. CASE ~(id < Len(b))
      <4>1. (id - Len(b)) + 1 \in 1 .. Len(e)
        BY <1>2, <1>4, <3>2
      <4> QED BY <1>2, <1>4, <3>2, <4>1
    <3> QED BY <3>1, <3>2
  <2> QED BY <2>1
<1>7. dimString(u, d, N) = s
  <2>1. (N - Len(b)) + 1 = Len(e) + 1 /\ ~(N < Len(b))
    BY <1>2, <1>4
  <2> QED BY <1>2, <1>4, <2>1
<1>8. DOMAIN w = 1 .. N /\ DOMAIN z = 1 .. N + 1
  <2>1. DOMAIN (b \o e) = 1 .. Len(b) + Len(e) /\ DOMAIN z = 1 .. Len(b) + Len(Append(e, s))
    BY <1>1, <1>4, ConcatIs
  <2> QED BY <1>2, <1>4, <2>1 DEF w
<1>9. ASSUME NEW i \in 1 .. N PROVE z[i] = w[i] /\ w[i] # s
  <2>1. i - 1 \in 0 .. N - 1 /\ (i - 1) + 1 = i
    BY <1>5
  <2>2. w[i] # s
    BY <1>3, <2>1
  <2>3. CASE i \in 1 .. Len(b)
    <3>1. z[i] = b[i] /\ (b \o e)[i] = b[i]
      BY <1>1, <1>4, <2>3, ConcatIs
    <3> QED BY <2>2, <3>1 DEF w
  <2>4. CASE i \notin 1 .. Len(b)
    <3>1. i - Len(b) \in 1 .. Len(e) /\ Len(b) + (i - Len(b)) = i /\ i - Len(b) \in 1 .. Len(Append(e, s))
      BY <1>2, <1>4, <2>4
    <3>2. z[Len(b) + (i - Len(b))] = Append(e, s)[i - Len(b)] /\ (b \o e)[Len(b) + (i - Len(b))] = e[i - Len(b)]
      BY <1>1, <1>4, <3>1, ConcatIs
    <3> QED BY <1>4, <2>2, <3>1, <3>2 DEF w
  <2> QED BY <2>3, <2>4
<1>10. z[N + 1] = s
  <2>1. z[Len(b) + (Len(e) + 1)] = Append(e, s)[Len(e) + 1]
    <3>1. Len(e) + 1 \in 1 .. Len(Append(e, s))
      BY <1>4
    <3> QED BY <1>1, <1>4, <3>1, ConcatIs
  <2> QED BY <1>2, <1>4, <2>1
<1>11. ASSUME NEW x \in DOMAIN z, NEW y \in DOMAIN z, z[x] = z[y] PROVE x = y
  <2> HIDE DEF z
  <2>1. CASE x \in 1 .. N /\ y \in 1 .. N
    BY <1>1, <1>8, <1>9, <1>11, <2>1
  <2>2. CASE ~(x \in 1 .. N /\ y \in 1 .. N)
    BY <1>5, <1>8, <1>9, <1>10, <1>11, <2>2
  <2> QED BY <2>1, <2>2
<1>12. DictPair(u, d)
  BY <1>1, <1>2, <1>4, <1>11 DEF DictPair, IsInjective
<1> QED BY <1>5, <1>6, <1>7, <1>12 DEF N

\* The values a view knows, per dimension.
Knows(v, d, s) == lookupID(v, d, s) # {}

ExtrasAdded(A, d, s) ==
    [base |-> A.base, delta |-> A.delta, overridden |-> A.overridden,
     extras |-> [x \in Dims |-> IF x = d THEN A.extras[x] \cup {s} ELSE A.extras[x]]]

\* A batch that interns a value keeps the view's rows, and what they stand for.
LEMMA ValueOK ==
    ASSUME NEW v \in ColView(Dict), RepOK(v), Stamped(v), NEW d \in Dims, NEW s \in Spellings,
           lookupID(v, d, s) = {}, NEW u, ValueAdded(v, u, d, s)
    PROVE  /\ RepOK(u) /\ Stamped(u) /\ Knows(u, d, s)
           /\ \A x \in Dims, t \in Spellings : Knows(v, x, t) => Knows(u, x, t)
           /\ AbsView(u) = ExtrasAdded(AbsView(v), d, s)
<1>0. /\ u.base = v.base /\ u.delta = v.delta /\ u.overridden = v.overridden
      /\ u.extras[d] = Append(v.extras[d], s)
      /\ \A x \in Dims : x # d => u.extras[x] = v.extras[x]
  BY DEF ValueAdded
<1>1. \A x \in Dims : DictPair(v, x)
  BY DEF RepOK
<1>2. /\ DictPair(u, d) /\ idSpace(u, d) = idSpace(v, d) + 1
      /\ \A id \in 0 .. idSpace(v, d) - 1 : dimString(u, d, id) = dimString(v, d, id)
      /\ dimString(u, d, idSpace(v, d)) = s
  BY <1>1, ValueIds
<1>3. \A x \in Dims : x # d => /\ DictPair(u, x) /\ idSpace(u, x) = idSpace(v, x)
                               /\ \A id : dimString(u, x, id) = dimString(v, x, id)
  BY <1>0, <1>1 DEF DictPair, idSpace, dimString
<1>4. \A x \in Dims : idSpace(v, x) \in Nat
  BY <1>1, DimStrings
<1>5. ASSUME NEW x \in Dims
      PROVE  /\ DictPair(u, x) /\ idSpace(v, x) <= idSpace(u, x) /\ idSpace(v, x) \in Nat /\ idSpace(u, x) \in Nat
             /\ \A id \in 0 .. idSpace(v, x) - 1 : dimString(u, x, id) = dimString(v, x, id)
  <2>1. CASE x = d
    BY <1>2, <1>4, <2>1
  <2>2. CASE x # d
    BY <1>3, <1>4, <2>2
  <2> QED BY <2>1, <2>2
<1>6. RepOK(u)
  <2>1. SnapOK(u.base) /\ OverridesOK(u)
    BY <1>0 DEF RepOK, OverridesOK
  <2>2. DeltaRowsOK(u)
    <3>1. \A q \in DOMAIN v.delta.rows, x \in Dims : v.delta.rows[q].ids[x] < idSpace(u, x)
      <4>1. ASSUME NEW q \in DOMAIN v.delta.rows, NEW x \in Dims PROVE v.delta.rows[q].ids[x] < idSpace(u, x)
        <5>1. v.delta.rows[q].ids[x] \in 0 .. idSpace(v, x) - 1
          BY RowIds
        <5> QED BY <1>5, <5>1
      <4> QED BY <4>1
    <3> QED BY <1>0, <3>1 DEF RepOK, DeltaRowsOK
  <2> QED BY <1>5, <2>1, <2>2 DEF RepOK
<1>7. Stamped(u)
  BY <1>0 DEF Stamped, ExpiryOK
<1>8. Knows(u, d, s)
  <2>1. idSpace(v, d) \in 0 .. idSpace(u, d) - 1
    BY <1>2, <1>4
  <2>2. lookupID(u, d, s) = {id \in 0 .. idSpace(u, d) - 1 : dimString(u, d, id) = s}
    BY <1>2, LookupIDIs
  <2> QED BY <1>2, <2>1, <2>2 DEF Knows
<1>9. ASSUME NEW x \in Dims, NEW t \in Spellings, Knows(v, x, t) PROVE Knows(u, x, t)
  <2>1. lookupID(v, x, t) = {id \in 0 .. idSpace(v, x) - 1 : dimString(v, x, id) = t}
    BY <1>1, LookupIDIs
  <2>2. lookupID(u, x, t) = {id \in 0 .. idSpace(u, x) - 1 : dimString(u, x, id) = t}
    BY <1>5, LookupIDIs
  <2>3. PICK id \in 0 .. idSpace(v, x) - 1 : dimString(v, x, id) = t
    BY <1>9, <2>1 DEF Knows
  <2>4. id \in 0 .. idSpace(u, x) - 1 /\ dimString(u, x, id) = t
    BY <1>5, <2>3
  <2> QED BY <2>2, <2>4 DEF Knows
<1>10. AbsView(u) = ExtrasAdded(AbsView(v), d, s)
  <2>1. ASSUME NEW row, \A x \in Dims : row.ids[x] \in 0 .. idSpace(v, x) - 1
        PROVE  AbsRow(u, row) = AbsRow(v, row)
    <3>1. \A x \in Dims : dimString(u, x, row.ids[x]) = dimString(v, x, row.ids[x])
      BY <1>5, <2>1
    <3> QED BY <3>1 DEF AbsRow
  <2>2. \A r \in DOMAIN v.base.rows : AbsRow(u, v.base.rows[r]) = AbsRow(v, v.base.rows[r])
    BY <2>1, RowIds
  <2>3. \A r \in DOMAIN v.delta.rows : AbsRow(u, v.delta.rows[r]) = AbsRow(v, v.delta.rows[r])
    BY <2>1, RowIds
  <2>4. v.overridden \subseteq DOMAIN v.base.rows
    BY DEF RepOK, OverridesOK
  <2>5. /\ {AbsRow(u, row) : row \in Range(u.base.rows)} = {AbsRow(v, row) : row \in Range(v.base.rows)}
        /\ {AbsRow(u, row) : row \in Range(u.delta.rows)} = {AbsRow(v, row) : row \in Range(v.delta.rows)}
        /\ {AbsRow(u, u.base.rows[r]) : r \in u.overridden} = {AbsRow(v, v.base.rows[r]) : r \in v.overridden}
    BY <1>0, <2>2, <2>3, <2>4 DEF Range
  <2>6. [x \in Dims |-> Range(u.extras[x])]
        = [x \in Dims |-> IF x = d THEN Range(v.extras[x]) \cup {s} ELSE Range(v.extras[x])]
    <3>1. v.extras[d] \in Seq(Spellings)
      BY <1>1 DEF DictPair
    <3>2. Range(Append(v.extras[d], s)) = Range(v.extras[d]) \cup {s}
      <4> DEFINE e == v.extras[d]
      <4>1. /\ DOMAIN e = 1 .. Len(e) /\ Len(e) \in Nat /\ DOMAIN Append(e, s) = 1 .. Len(e) + 1
            /\ \A i \in 1 .. Len(e) : Append(e, s)[i] = e[i]
            /\ Append(e, s)[Len(e) + 1] = s
        BY <3>1
      <4> HIDE DEF e
      <4>2. 1 .. Len(e) + 1 = (1 .. Len(e)) \cup {Len(e) + 1}
        BY <4>1
      <4> DEFINE a == Append(e, s)
      <4> HIDE DEF a
      <4>3. Range(a) = Range(e) \cup {s}
        BY <4>1, <4>2 DEF Range, a
      <4> QED BY <4>3 DEF a, e
    <3> QED BY <1>0, <3>2
  <2>7. AbsView(v).extras = [x \in Dims |-> Range(v.extras[x])]
    BY DEF AbsView
  <2>8. [x \in Dims |-> Range(u.extras[x])]
        = [x \in Dims |-> IF x = d THEN AbsView(v).extras[x] \cup {s} ELSE AbsView(v).extras[x]]
    BY <2>6, <2>7
  <2>9. /\ AbsView(u).base = AbsView(v).base /\ AbsView(u).delta = AbsView(v).delta
        /\ AbsView(u).overridden = AbsView(v).overridden
    BY <1>0, <2>5 DEF AbsView
  <2>10. AbsView(u) = [base |-> AbsView(u).base, delta |-> AbsView(u).delta,
                       extras |-> [x \in Dims |-> Range(u.extras[x])], overridden |-> AbsView(u).overridden]
    BY DEF AbsView
  <2> QED BY <2>8, <2>9, <2>10 DEF ExtrasAdded
<1> QED BY <1>6, <1>7, <1>8, <1>9, <1>10

-----------------------------------------------------------------------------
(* A batch: the dictionaries it writes are its own.                           *)

Calls == [heap: Heaps, view: ColView(Refs), owned: SUBSET Dims, failed: BOOLEAN]

Seen(c) == Deref(c.heap, c.view)

\* c is a call on the view v published with the heap h: it has left that view's
\* dictionaries alone, and the extras it has at an address of its own it owns.
CallOn(c, h, v) ==
    /\ c \in Calls
    /\ \A d \in Dims : c.heap[d][BaseRef] = h[d][BaseRef] /\ c.heap[d][ExtrasRef] = h[d][ExtrasRef]
    /\ c.view.base = v.base /\ c.view.base.dicts = Everywhere(BaseRef)
    /\ \A d \in Dims : c.view.extras[d] = IF d \in c.owned THEN NewExtrasRef ELSE ExtrasRef

GoodCall(c, h, v) == CallOn(c, h, v) /\ RepOK(Seen(c)) /\ Stamped(Seen(c))

\* The call o has its own extras in d, with the values c had.
Owns(c, o, d) ==
    /\ o \in Calls
    /\ \A x \in Dims : x # d => o.heap[x] = c.heap[x] /\ o.view.extras[x] = c.view.extras[x]
    /\ \A k \in Refs : k # NewExtrasRef => o.heap[d][k] = c.heap[d][k]
    /\ o.heap[d][NewExtrasRef] = c.heap[d][c.view.extras[d]]
    /\ o.view.extras[d] = NewExtrasRef
    /\ o.view.base = c.view.base /\ o.view.delta = c.view.delta /\ o.view.overridden = c.view.overridden
    /\ o.owned = c.owned \cup {d} /\ o.failed = c.failed

LEMMA OwnExtrasIs ==
    ASSUME NEW c, NEW h, NEW v, CallOn(c, h, v), NEW d \in Dims
    PROVE  Owns(c, OwnExtras(c, d), d)
<1> USE DEF BaseRef, ExtrasRef, NewExtrasRef, Refs
<1>1. /\ c \in Calls /\ c.heap \in Heaps /\ c.view \in ColView(Refs) /\ c.owned \in SUBSET Dims /\ c.failed \in BOOLEAN
      /\ c.view.extras[d] = IF d \in c.owned THEN NewExtrasRef ELSE ExtrasRef
  BY DEF CallOn, Calls
<1>2. CASE d \in c.owned
  <2>1. OwnExtras(c, d) = c /\ c.owned \cup {d} = c.owned /\ c.view.extras[d] = NewExtrasRef
    BY <1>1, <1>2 DEF OwnExtras
  <2> QED BY <1>1, <2>1 DEF Owns
<1>3. CASE d \notin c.owned
  <2> DEFINE e == c.heap[d][c.view.extras[d]]
             hd == [c.heap[d] EXCEPT ![NewExtrasRef] = e]
             nh == [c.heap EXCEPT ![d] = hd]
             ne == [c.view.extras EXCEPT ![d] = NewExtrasRef]
             nv == [c.view EXCEPT !.extras = ne]
             o == [c EXCEPT !.heap = nh, !.view = nv, !.owned = c.owned \cup {d}]
  <2>1. OwnExtras(c, d) = o
    BY <1>3 DEF OwnExtras, CloneExtras
  <2>2. /\ c.heap[d] \in [Refs -> Dict] /\ c.view.extras \in [Dims -> Refs] /\ c.view.extras[d] \in Refs
    BY <1>1 DEF Heaps, ColView
  <2>3. e \in Dict
    BY <2>2
  <2> HIDE DEF e
  <2>4. hd \in [Refs -> Dict] /\ hd[NewExtrasRef] = e /\ \A k \in Refs : k # NewExtrasRef => hd[k] = c.heap[d][k]
    BY <2>2, <2>3
  <2> HIDE DEF hd
  <2>5. nh \in Heaps /\ nh[d] = hd /\ \A x \in Dims : x # d => nh[x] = c.heap[x]
    BY <1>1, <2>4 DEF Heaps
  <2>6. ne \in [Dims -> Refs] /\ ne[d] = NewExtrasRef /\ \A x \in Dims : x # d => ne[x] = c.view.extras[x]
    BY <2>2
  <2> HIDE DEF nh, ne
  <2>7. /\ nv \in ColView(Refs) /\ nv.extras = ne
        /\ nv.base = c.view.base /\ nv.delta = c.view.delta /\ nv.overridden = c.view.overridden
    BY <1>1, <2>6 DEF ColView
  <2> HIDE DEF nv
  <2>8. o \in Calls /\ o.heap = nh /\ o.view = nv /\ o.owned = c.owned \cup {d} /\ o.failed = c.failed
    BY <1>1, <2>5, <2>7 DEF Calls
  <2> HIDE DEF o
  <2>9. Owns(c, o, d)
    BY <2>4, <2>5, <2>6, <2>7, <2>8 DEF Owns, e
  <2> QED BY <2>1, <2>9
<1> QED BY <1>2, <1>3

LEMMA SnapEqual ==
    ASSUME NEW D, NEW a \in SnapRec(D), NEW b \in SnapRec(D),
           a.dicts = b.dicts, a.shifts = b.shifts, a.rows = b.rows, a.keys = b.keys,
           a.maxUpdated = b.maxUpdated, a.minUpdated = b.minUpdated, a.minExpire = b.minExpire
    PROVE  a = b
<1>1. \A x \in SnapRec(D) : x = [dicts |-> x.dicts, shifts |-> x.shifts, rows |-> x.rows, keys |-> x.keys,
                                  maxUpdated |-> x.maxUpdated, minUpdated |-> x.minUpdated,
                                  minExpire |-> x.minExpire]
  BY DEF SnapRec
<1> QED BY <1>1

LEMMA KnowsIs ==
    ASSUME NEW v, NEW d, DictPair(v, d), NEW s
    PROVE  /\ Knows(v, d, s) <=> s \in Range(v.base.dicts[d]) \cup Range(v.extras[d])
           /\ ~Knows(v, d, s) => lookup(v.extras[d], s) = {}
<1>1. DictOK(v.base.dicts[d]) /\ DictOK(v.extras[d])
  BY DimStrings
<1>2. /\ s \in Range(v.base.dicts[d]) <=> lookup(v.base.dicts[d], s) # {}
      /\ s \in Range(v.extras[d]) <=> lookup(v.extras[d], s) # {}
  BY <1>1, LookupIs
<1>3. {Len(v.base.dicts[d]) + id : id \in lookup(v.extras[d], s)} = {} <=> lookup(v.extras[d], s) = {}
  OBVIOUS
<1> QED BY <1>2, <1>3 DEF Knows, lookupID

\* A view whose extras have the values of t in the dimensions of S.
InternedIn(A, t, S) ==
    [base |-> A.base, delta |-> A.delta, overridden |-> A.overridden,
     extras |-> [x \in Dims |-> IF x \in S THEN A.extras[x] \cup ({t[x]} \ A.base.dicts[x])
                                ELSE A.extras[x]]]

LEMMA AbsRecord ==
    ASSUME NEW v
    PROVE  LET A == AbsView(v)
           IN  /\ A = [base |-> A.base, delta |-> A.delta, overridden |-> A.overridden, extras |-> A.extras]
               /\ A.extras = [d \in Dims |-> Range(v.extras[d])]
               /\ A.base.dicts = [d \in Dims |-> Range(v.base.dicts[d])]
BY DEF AbsView

\* Interning one more value.
LEMMA InternedMore ==
    ASSUME NEW A, NEW t, NEW S, NEW d \in Dims
    PROVE  InternedIn(InternedIn(A, t, S), t, {d}) = InternedIn(A, t, S \cup {d})
<1> DEFINE B == InternedIn(A, t, S)
<1>1. /\ B.base = A.base /\ B.delta = A.delta /\ B.overridden = A.overridden
      /\ B.extras = [x \in Dims |-> IF x \in S THEN A.extras[x] \cup ({t[x]} \ A.base.dicts[x])
                                    ELSE A.extras[x]]
  BY DEF InternedIn
<1> HIDE DEF B
<1>2. [x \in Dims |-> IF x \in {d} THEN B.extras[x] \cup ({t[x]} \ A.base.dicts[x]) ELSE B.extras[x]]
      = [x \in Dims |-> IF x \in S \cup {d} THEN A.extras[x] \cup ({t[x]} \ A.base.dicts[x])
                        ELSE A.extras[x]]
  <2>1. ASSUME NEW x \in Dims
        PROVE  (IF x \in {d} THEN B.extras[x] \cup ({t[x]} \ A.base.dicts[x]) ELSE B.extras[x])
               = (IF x \in S \cup {d} THEN A.extras[x] \cup ({t[x]} \ A.base.dicts[x]) ELSE A.extras[x])
    BY <1>1
  <2> QED BY <2>1
<1>3. InternedIn(B, t, {d}) = InternedIn(A, t, S \cup {d})
  BY <1>1, <1>2 DEF InternedIn
<1> QED BY <1>3 DEF B

LEMMA InternedKnown ==
    ASSUME NEW v, NEW d \in Dims, DictPair(v, d), NEW t
    PROVE  /\ Knows(v, d, t[d]) => InternedIn(AbsView(v), t, {d}) = AbsView(v)
           /\ ~Knows(v, d, t[d]) => InternedIn(AbsView(v), t, {d}) = ExtrasAdded(AbsView(v), d, t[d])
<1> DEFINE A == AbsView(v)
<1>1. /\ A = [base |-> A.base, delta |-> A.delta, overridden |-> A.overridden, extras |-> A.extras]
      /\ A.extras = [x \in Dims |-> Range(v.extras[x])]
      /\ A.base.dicts = [x \in Dims |-> Range(v.base.dicts[x])]
  BY AbsRecord
<1>2. Knows(v, d, t[d]) <=> t[d] \in A.base.dicts[d] \/ t[d] \in A.extras[d]
  BY <1>1, KnowsIs
<1> HIDE DEF A
<1>3. ASSUME Knows(v, d, t[d])
      PROVE  [x \in Dims |-> IF x \in {d} THEN A.extras[x] \cup ({t[x]} \ A.base.dicts[x]) ELSE A.extras[x]]
             = A.extras
  <2>1. ASSUME NEW x \in Dims
        PROVE  (IF x \in {d} THEN A.extras[x] \cup ({t[x]} \ A.base.dicts[x]) ELSE A.extras[x]) = A.extras[x]
    BY <1>2, <1>3
  <2>2. A.extras = [x \in Dims |-> A.extras[x]]
    BY <1>1
  <2> QED BY <2>1, <2>2
<1>4. ASSUME ~Knows(v, d, t[d])
      PROVE  [x \in Dims |-> IF x \in {d} THEN A.extras[x] \cup ({t[x]} \ A.base.dicts[x]) ELSE A.extras[x]]
             = [x \in Dims |-> IF x = d THEN A.extras[x] \cup {t[d]} ELSE A.extras[x]]
  <2>1. ASSUME NEW x \in Dims
        PROVE  (IF x \in {d} THEN A.extras[x] \cup ({t[x]} \ A.base.dicts[x]) ELSE A.extras[x])
               = (IF x = d THEN A.extras[x] \cup {t[d]} ELSE A.extras[x])
    BY <1>2, <1>4
  <2> QED BY <2>1
<1>5. Knows(v, d, t[d]) => InternedIn(A, t, {d}) = A
  BY <1>1, <1>3 DEF InternedIn
<1>6. ~Knows(v, d, t[d]) => InternedIn(A, t, {d}) = ExtrasAdded(A, d, t[d])
  BY <1>4 DEF InternedIn, ExtrasAdded
<1> QED BY <1>5, <1>6 DEF A

\* What interning the value of a record in one dimension makes of a call.
InternStep(c, u, d, t) ==
    /\ u.view.delta = c.view.delta /\ u.view.overridden = c.view.overridden
    /\ u.failed = (c.failed \/ t[d] = NonInt)
    /\ ~u.failed => /\ Knows(Seen(u), d, t[d])
                    /\ \A x \in Dims, s \in Spellings : Knows(Seen(c), x, s) => Knows(Seen(u), x, s)
                    /\ AbsView(Seen(u)) = InternedIn(AbsView(Seen(c)), t, {d})

LEMMA InternIs ==
    ASSUME NEW c, NEW h, NEW v, GoodCall(c, h, v), NEW d \in Dims, NEW r,
           Resolve(r)[d] \in Spellings \cup {NonInt}
    PROVE  GoodCall(Intern(c, d, r), h, v) /\ InternStep(c, Intern(c, d, r), d, Resolve(r))
<1> USE DEF BaseRef, ExtrasRef, NewExtrasRef, Refs
<1> DEFINE t == Resolve(r)
           s == t[d]
           o == OwnExtras(c, d)
           u == Intern(c, d, r)
           a == Seen(c)
<1>0. CallOn(c, h, v) /\ RepOK(a) /\ Stamped(a)
  BY DEF GoodCall
<1>1. c \in Calls /\ c.heap \in Heaps /\ c.view \in ColView(Refs) /\ c.failed \in BOOLEAN /\ c.owned \in SUBSET Dims
  BY <1>0 DEF CallOn, Calls
<1>2. u = IF c.failed \/ s = NonInt THEN [c EXCEPT !.failed = TRUE]
          ELSE IF lookupID(a, d, s) # {} THEN c
          ELSE [o EXCEPT !.heap[d][o.view.extras[d]] = getOrAdd(@, s)]
  BY DEF Intern, Seen
<1>3. Owns(c, o, d)
  BY <1>0, OwnExtrasIs
<1>a. \A x \in Dims : DictPair(a, x)
  BY <1>0 DEF RepOK
<1> HIDE DEF u, s, t, o
<1>4. CASE c.failed \/ s = NonInt
  <2>1. u = [c EXCEPT !.failed = TRUE]
    BY <1>2, <1>4
  <2>2. u \in Calls /\ u.heap = c.heap /\ u.view = c.view /\ u.owned = c.owned /\ u.failed
    BY <1>1, <2>1 DEF Calls
  <2>3. GoodCall(u, h, v)
    BY <1>0, <2>2 DEF GoodCall, CallOn, Seen
  <2>4. InternStep(c, u, d, t)
    BY <1>4, <2>2 DEF InternStep, s, Calls
  <2> QED BY <2>3, <2>4 DEF u, t
<1>5. CASE ~c.failed /\ s # NonInt /\ lookupID(a, d, s) # {}
  <2>1. u = c
    BY <1>2, <1>5
  <2>2. Knows(a, d, t[d])
    BY <1>5 DEF Knows, s
  <2>3. InternedIn(AbsView(a), t, {d}) = AbsView(a)
    BY <1>a, <2>2, InternedKnown
  <2>4. u.failed = (c.failed \/ t[d] = NonInt)
    BY <1>1, <1>5, <2>1 DEF s
  <2> QED BY <1>5, <2>1, <2>2, <2>3, <2>4 DEF InternStep, u, t
<1>6. CASE ~c.failed /\ s # NonInt /\ lookupID(a, d, s) = {}
  <2>1. u = [o EXCEPT !.heap[d][o.view.extras[d]] = getOrAdd(@, s)]
    BY <1>2, <1>6
  <2>2. s \in Spellings
    BY <1>6 DEF s, t
  <2>3. /\ o \in Calls /\ o.heap \in Heaps /\ o.view \in ColView(Refs) /\ o.view.extras[d] = NewExtrasRef
        /\ o.heap[d] \in [Refs -> Dict]
    BY <1>3 DEF Owns, Calls, Heaps
  <2> DEFINE e == c.heap[d][c.view.extras[d]]
             hd == [o.heap[d] EXCEPT ![NewExtrasRef] = Append(e, s)]
             nh == [o.heap EXCEPT ![d] = hd]
  <2>4. /\ a.extras = [x \in Dims |-> c.heap[x][c.view.extras[x]]]
        /\ a.base.dicts = [x \in Dims |-> c.heap[x][c.view.base.dicts[x]]]
        /\ a \in ColView(Dict)
    BY <1>1, DerefIs DEF Seen
  <2>5. a.extras[d] = e /\ e \in Seq(Spellings)
    BY <1>a, <2>4 DEF DictPair
  <2>6. ~Knows(a, d, s)
    BY <1>6 DEF Knows
  <2>7. lookup(e, s) = {}
    <3>1. lookup(a.extras[d], s) = {}
      BY <1>a, <2>6, KnowsIs
    <3> QED BY <3>1, <2>5
  <2>8. o.heap[d][NewExtrasRef] = e
    BY <1>3 DEF Owns
  <2> HIDE DEF e
  <2>9. u = [o EXCEPT !.heap = nh]
    BY <2>1, <2>3, <2>7, <2>8 DEF getOrAdd
  <2>10. Append(e, s) \in Dict
    BY <2>2, <2>5 DEF Dict
  <2>11. hd \in [Refs -> Dict] /\ hd[NewExtrasRef] = Append(e, s) /\ \A k \in Refs : k # NewExtrasRef => hd[k] = o.heap[d][k]
    BY <2>3, <2>10
  <2> HIDE DEF hd
  <2>12. nh \in Heaps /\ nh[d] = hd /\ \A x \in Dims : x # d => nh[x] = o.heap[x]
    BY <2>3, <2>11 DEF Heaps
  <2> HIDE DEF nh
  <2>13. u \in Calls /\ u.heap = nh /\ u.view = o.view /\ u.owned = o.owned /\ u.failed = o.failed
    BY <2>3, <2>9, <2>12 DEF Calls
  <2>14. /\ \A x \in Dims : x # d => o.heap[x] = c.heap[x] /\ o.view.extras[x] = c.view.extras[x]
         /\ \A k \in Refs : k # NewExtrasRef => o.heap[d][k] = c.heap[d][k]
         /\ o.view.base = c.view.base /\ o.view.delta = c.view.delta /\ o.view.overridden = c.view.overridden
         /\ o.owned = c.owned \cup {d} /\ o.failed = c.failed
    BY <1>3 DEF Owns
  <2>15. \A x \in Dims : c.view.base.dicts[x] = BaseRef
    BY <1>0 DEF CallOn, Everywhere
  <2>16. CallOn(u, h, v)
    <3>1. \A x \in Dims : u.heap[x][BaseRef] = h[x][BaseRef] /\ u.heap[x][ExtrasRef] = h[x][ExtrasRef]
      <4>1. ASSUME NEW x \in Dims
            PROVE  u.heap[x][BaseRef] = c.heap[x][BaseRef] /\ u.heap[x][ExtrasRef] = c.heap[x][ExtrasRef]
        <5>1. CASE x = d
          BY <2>11, <2>12, <2>13, <2>14, <5>1
        <5>2. CASE x # d
          BY <2>12, <2>13, <2>14, <5>2
        <5> QED BY <5>1, <5>2
      <4> QED BY <4>1, <1>0 DEF CallOn
    <3>2. \A x \in Dims : u.view.extras[x] = IF x \in u.owned THEN NewExtrasRef ELSE ExtrasRef
      BY <1>0, <2>3, <2>13, <2>14 DEF CallOn
    <3> QED BY <1>0, <2>13, <2>14, <3>1, <3>2 DEF CallOn
  <2> DEFINE b == Seen(u)
  <2>c. b = Deref(nh, o.view) /\ nh \in Heaps /\ o.view \in ColView(Refs)
    BY <2>3, <2>12, <2>13 DEF Seen
  <2> HIDE DEF b
  <2>17. /\ b \in ColView(Dict)
         /\ b.extras = [x \in Dims |-> nh[x][o.view.extras[x]]]
         /\ b.base.dicts = [x \in Dims |-> nh[x][o.view.base.dicts[x]]]
    BY <2>c, DerefIs
  <2>b. /\ b.base.rows = o.view.base.rows /\ b.base.keys = o.view.base.keys /\ b.base.shifts = o.view.base.shifts
        /\ b.base.maxUpdated = o.view.base.maxUpdated /\ b.base.minUpdated = o.view.base.minUpdated
        /\ b.base.minExpire = o.view.base.minExpire /\ b.delta = o.view.delta /\ b.overridden = o.view.overridden
    BY <2>c, DerefIs
  <2>a. /\ a.base.rows = c.view.base.rows /\ a.base.keys = c.view.base.keys /\ a.base.shifts = c.view.base.shifts
        /\ a.base.maxUpdated = c.view.base.maxUpdated /\ a.base.minUpdated = c.view.base.minUpdated
        /\ a.base.minExpire = c.view.base.minExpire /\ a.delta = c.view.delta /\ a.overridden = c.view.overridden
    BY <1>1, DerefIs DEF Seen
  <2> HIDE DEF a
  <2>18. b.extras[d] = Append(e, s) /\ \A x \in Dims : x # d => b.extras[x] = a.extras[x]
    <3>1. b.extras[d] = nh[d][o.view.extras[d]]
      BY <2>17
    <3>2. b.extras[d] = Append(e, s)
      BY <2>3, <2>11, <2>12, <3>1
    <3>3. ASSUME NEW x \in Dims, x # d PROVE b.extras[x] = a.extras[x]
      <4>1. b.extras[x] = nh[x][o.view.extras[x]] /\ a.extras[x] = c.heap[x][c.view.extras[x]]
        BY <2>4, <2>17
      <4> QED BY <2>12, <2>14, <3>3, <4>1
    <3> QED BY <3>2, <3>3
  <2>19. b.base.dicts = a.base.dicts
    <3>1. ASSUME NEW x \in Dims PROVE nh[x][o.view.base.dicts[x]] = c.heap[x][c.view.base.dicts[x]]
      <4>1. o.view.base.dicts[x] = BaseRef /\ c.view.base.dicts[x] = BaseRef
        BY <2>14, <2>15
      <4>2. CASE x = d
        BY <2>11, <2>12, <2>14, <4>1, <4>2
      <4>3. CASE x # d
        BY <2>12, <2>14, <4>1, <4>3
      <4> QED BY <4>2, <4>3
    <3> QED BY <3>1, <2>4, <2>17
  <2>20. b.base = a.base /\ b.delta = a.delta /\ b.overridden = a.overridden
    <3>1. a.base \in SnapRec(Dict) /\ b.base \in SnapRec(Dict)
      BY <2>4, <2>17 DEF ColView
    <3>2. /\ b.base.rows = a.base.rows /\ b.base.keys = a.base.keys /\ b.base.shifts = a.base.shifts
          /\ b.base.maxUpdated = a.base.maxUpdated /\ b.base.minUpdated = a.base.minUpdated
          /\ b.base.minExpire = a.base.minExpire /\ b.delta = a.delta /\ b.overridden = a.overridden
      BY <2>a, <2>b, <2>14
    <3> QED BY <2>19, <3>1, <3>2, SnapEqual
  <2>21. ValueAdded(a, b, d, s)
    BY <2>5, <2>17, <2>18, <2>20 DEF ValueAdded
  <2>22. /\ RepOK(b) /\ Stamped(b) /\ Knows(b, d, s)
         /\ \A x \in Dims, w \in Spellings : Knows(a, x, w) => Knows(b, x, w)
         /\ AbsView(b) = ExtrasAdded(AbsView(a), d, s)
    BY <1>0, <1>6, <2>2, <2>4, <2>21, ValueOK
  <2>23. InternedIn(AbsView(a), t, {d}) = ExtrasAdded(AbsView(a), d, s)
    BY <1>a, <2>6, InternedKnown DEF s
  <2>24. GoodCall(u, h, v)
    BY <2>16, <2>22 DEF GoodCall, b
  <2>25. u.failed = (c.failed \/ t[d] = NonInt)
    BY <1>1, <1>6, <2>13, <2>14 DEF s
  <2>26. InternStep(c, u, d, t)
    BY <2>13, <2>14, <2>22, <2>23, <2>25 DEF InternStep, a, b, s
  <2> QED BY <2>24, <2>26 DEF u, t
<1> QED BY <1>4, <1>5, <1>6

InternOp(c, e, d) == Intern(e, d, c.r)

\* The first n dimensions of a record with tuple t are interned.
InternState(c, h, v, t, n, e) ==
    /\ GoodCall(e, h, v)
    /\ e.view.delta = c.view.delta /\ e.view.overridden = c.view.overridden
    /\ e.failed <=> c.failed \/ \E i \in 1 .. n : t[DimOrder[i]] = NonInt
    /\ ~e.failed => /\ \A i \in 1 .. n : Knows(Seen(e), DimOrder[i], t[DimOrder[i]])
                    /\ AbsView(Seen(e)) = InternedIn(AbsView(Seen(c)), t, {DimOrder[i] : i \in 1 .. n})

InternInv(c, s, n, e) == InternState(c.call, c.heap, c.view, Resolve(c.r), n, e)

Interns == INSTANCE Loops WITH Op <- InternOp, Inv <- InternInv

InternAll(c, r) == FoldLeft(LAMBDA e, d : Intern(e, d, r), c, DimOrder)

\* A tuple as Resolve gives it, perhaps with integers that do not parse.
Resolved(t) == \A d \in Dims : t[d] \in Spellings \cup {NonInt}

LEMMA InternStepState ==
    ASSUME NEW c, NEW h, NEW v, NEW r, Resolved(Resolve(r)), NEW n \in Nat, NEW e,
           InternState(c, h, v, Resolve(r), n, e), DimOrder[n + 1] \in Dims,
           \A i \in 1 .. n : DimOrder[i] \in Dims
    PROVE  InternState(c, h, v, Resolve(r), n + 1, Intern(e, DimOrder[n + 1], r))
<1> DEFINE t == Resolve(r)
           d == DimOrder[n + 1]
           u == Intern(e, d, r)
           A == AbsView(Seen(c))
<1>1. GoodCall(e, h, v) /\ t[d] \in Spellings \cup {NonInt} /\ NonInt \notin Spellings
  BY SchemaAssumption DEF InternState, Resolved
<1>2. GoodCall(u, h, v) /\ InternStep(e, u, d, t)
  BY <1>1, InternIs
<1> HIDE DEF t, u
<1>3. /\ e.view.delta = c.view.delta /\ e.view.overridden = c.view.overridden
      /\ e.failed <=> c.failed \/ \E i \in 1 .. n : t[DimOrder[i]] = NonInt
      /\ ~e.failed => /\ \A i \in 1 .. n : Knows(Seen(e), DimOrder[i], t[DimOrder[i]])
                      /\ AbsView(Seen(e)) = InternedIn(A, t, {DimOrder[i] : i \in 1 .. n})
  BY DEF InternState, t
<1>4. /\ u.view.delta = e.view.delta /\ u.view.overridden = e.view.overridden
      /\ u.failed <=> e.failed \/ t[d] = NonInt
      /\ ~u.failed => /\ Knows(Seen(u), d, t[d])
                      /\ \A x \in Dims, s \in Spellings : Knows(Seen(e), x, s) => Knows(Seen(u), x, s)
                      /\ AbsView(Seen(u)) = InternedIn(AbsView(Seen(e)), t, {d})
  BY <1>2 DEF InternStep
<1>5. 1 .. n + 1 = (1 .. n) \cup {n + 1}
  OBVIOUS
<1>6. u.failed <=> c.failed \/ \E i \in 1 .. n + 1 : t[DimOrder[i]] = NonInt
  BY <1>3, <1>4, <1>5
<1>7. ASSUME ~u.failed
      PROVE  /\ \A i \in 1 .. n + 1 : Knows(Seen(u), DimOrder[i], t[DimOrder[i]])
             /\ AbsView(Seen(u)) = InternedIn(A, t, {DimOrder[i] : i \in 1 .. n + 1})
  <2>1. \A i \in 1 .. n : DimOrder[i] \in Dims /\ t[DimOrder[i]] \in Spellings
    BY <1>3, <1>4, <1>7 DEF Resolved, t
  <2>2. \A i \in 1 .. n : Knows(Seen(u), DimOrder[i], t[DimOrder[i]])
    BY <1>3, <1>4, <1>7, <2>1
  <2>3. {DimOrder[i] : i \in 1 .. n + 1} = {DimOrder[i] : i \in 1 .. n} \cup {d}
    BY <1>5
  <2>4. AbsView(Seen(u)) = InternedIn(InternedIn(A, t, {DimOrder[i] : i \in 1 .. n}), t, {d})
    BY <1>3, <1>4, <1>7
  <2>5. AbsView(Seen(u)) = InternedIn(A, t, {DimOrder[i] : i \in 1 .. n} \cup {d})
    <3> DEFINE S == {DimOrder[i] : i \in 1 .. n}
    <3> HIDE DEF S, A
    <3>1. InternedIn(InternedIn(A, t, S), t, {d}) = InternedIn(A, t, S \cup {d})
      BY InternedMore
    <3> QED BY <2>4, <3>1 DEF S
  <2> QED BY <1>4, <1>5, <1>7, <2>2, <2>3, <2>5
<1> QED BY <1>2, <1>3, <1>4, <1>6, <1>7 DEF InternState, t, u

LEMMA InternedNone ==
    ASSUME NEW v, NEW t
    PROVE  InternedIn(AbsView(v), t, {}) = AbsView(v)
<1> DEFINE A == AbsView(v)
<1>1. /\ A = [base |-> A.base, delta |-> A.delta, overridden |-> A.overridden, extras |-> A.extras]
      /\ A.extras = [d \in Dims |-> Range(v.extras[d])]
  BY AbsRecord
<1> HIDE DEF A
<1>2. A.extras = [x \in Dims |-> IF x \in {} THEN A.extras[x] \cup ({t[x]} \ A.base.dicts[x])
                                 ELSE A.extras[x]]
  BY <1>1
<1>3. InternedIn(A, t, {}) = A
  BY <1>1, <1>2 DEF InternedIn
<1> QED BY <1>3 DEF A

\* A record is interned in all its dimensions, or the call has failed.
RecordKnown(c, h, v, t, e) ==
    /\ GoodCall(e, h, v)
    /\ e.view.delta = c.view.delta /\ e.view.overridden = c.view.overridden
    /\ e.failed <=> c.failed \/ \E d \in Dims : t[d] = NonInt
    /\ ~e.failed => /\ \A d \in Dims : Knows(Seen(e), d, t[d])
                    /\ AbsView(Seen(e)) = InternedIn(AbsView(Seen(c)), t, Dims)

LEMMA InternAllIs ==
    ASSUME NEW c, NEW h, NEW v, GoodCall(c, h, v), NEW r, Resolved(Resolve(r))
    PROVE  RecordKnown(c, h, v, Resolve(r), InternAll(c, r))
<1> DEFINE t == Resolve(r)
           N == Cardinality(Dims)
           ctx == [call |-> c, heap |-> h, view |-> v, r |-> r]
           u == InternAll(c, r)
<1>1. /\ N \in Nat /\ DOMAIN DimOrder = 1 .. N /\ \A i \in 1 .. N : DimOrder[i] \in Dims
      /\ {DimOrder[i] : i \in 1 .. N} = Dims
  <2>1. N \in Nat
    BY SchemaAssumption, FS_CardinalityType
  <2> QED BY <2>1, OrderAssumption DEF Range
<1>2. u = Interns!Fold(ctx, c, DimOrder)
  BY DEF InternAll, FoldLeft, MapThenFoldSet, Max, Interns!Fold, Interns!MapThenFoldSet, Interns!Top, InternOp
<1>3. ctx.call = c /\ ctx.heap = h /\ ctx.view = v /\ ctx.r = r
  OBVIOUS
<1> HIDE DEF ctx, u, N
<1>4. InternState(c, h, v, t, 0, c)
  <2>1. 1 .. 0 = {}
    OBVIOUS
  <2>2. {DimOrder[i] : i \in 1 .. 0} = {}
    BY <2>1
  <2>3. AbsView(Seen(c)) = InternedIn(AbsView(Seen(c)), t, {DimOrder[i] : i \in 1 .. 0})
    BY <2>2, InternedNone
  <2> QED BY <2>1, <2>3 DEF InternState
<1>5. ASSUME NEW n \in 0 .. N - 1, NEW e, InternInv(ctx, DimOrder, n, e)
      PROVE  InternInv(ctx, DimOrder, n + 1, InternOp(ctx, e, DimOrder[n + 1]))
  <2>1. InternState(c, h, v, t, n, e)
    BY <1>3, <1>5 DEF InternInv
  <2>2. n \in Nat /\ DimOrder[n + 1] \in Dims /\ \A i \in 1 .. n : DimOrder[i] \in Dims
    BY <1>1
  <2>3. InternState(c, h, v, t, n + 1, Intern(e, DimOrder[n + 1], r))
    BY <2>1, <2>2, InternStepState
  <2> QED BY <1>3, <2>3 DEF InternInv, InternOp
<1>6. InternInv(ctx, DimOrder, 0, c)
  BY <1>3, <1>4 DEF InternInv
<1>7. InternInv(ctx, DimOrder, N, Interns!Fold(ctx, c, DimOrder))
  BY <1>1, <1>5, <1>6, Interns!FoldInvariant
<1>8. InternState(c, h, v, t, N, u)
  BY <1>2, <1>3, <1>7 DEF InternInv
<1> HIDE DEF t
<1>9. /\ GoodCall(u, h, v)
      /\ u.view.delta = c.view.delta /\ u.view.overridden = c.view.overridden
      /\ u.failed <=> c.failed \/ \E i \in 1 .. N : t[DimOrder[i]] = NonInt
      /\ ~u.failed => /\ \A i \in 1 .. N : Knows(Seen(u), DimOrder[i], t[DimOrder[i]])
                      /\ AbsView(Seen(u)) = InternedIn(AbsView(Seen(c)), t, {DimOrder[i] : i \in 1 .. N})
  BY <1>8 DEF InternState
<1>10. \A d \in Dims : \E i \in 1 .. N : DimOrder[i] = d
  BY <1>1
<1>11. u.failed <=> c.failed \/ \E d \in Dims : t[d] = NonInt
  BY <1>1, <1>9, <1>10
<1>12. ~u.failed => /\ \A d \in Dims : Knows(Seen(u), d, t[d])
                    /\ AbsView(Seen(u)) = InternedIn(AbsView(Seen(c)), t, Dims)
  BY <1>1, <1>9, <1>10
<1>13. RecordKnown(c, h, v, t, u)
  BY <1>9, <1>11, <1>12 DEF RecordKnown
<1> QED BY <1>13 DEF t, u

LEMMA ViewEqual ==
    ASSUME NEW D, NEW a \in ColView(D), NEW b \in ColView(D),
           a.base = b.base, a.extras = b.extras, a.overridden = b.overridden, a.delta = b.delta
    PROVE  a = b
<1>1. \A x \in ColView(D) : x = [base |-> x.base, extras |-> x.extras, overridden |-> x.overridden, delta |-> x.delta]
  BY DEF ColView
<1> QED BY <1>1

\* An upsert of a row whose values are interned is an upsert of the row.
LEMMA ApplyInterned ==
    ASSUME NEW A, NEW row, NEW blocked
    PROVE  ApplyRecord(InternedIn(A, row.dims, Dims), row, blocked) = ApplyRecord(A, row, blocked)
<1> DEFINE B == InternedIn(A, row.dims, Dims)
<1>1. /\ B.base = A.base /\ B.delta = A.delta /\ B.overridden = A.overridden
      /\ B.extras = [x \in Dims |-> A.extras[x] \cup ({row.dims[x]} \ A.base.dicts[x])]
  BY DEF InternedIn
<1> HIDE DEF B
<1>2. Interned(B, row.dims) = Interned(A, row.dims)
  <2>1. ASSUME NEW x \in Dims
        PROVE  B.extras[x] \cup ({row.dims[x]} \ B.base.dicts[x]) = A.extras[x] \cup ({row.dims[x]} \ A.base.dicts[x])
    BY <1>1
  <2> QED BY <2>1 DEF Interned
<1>3. AllInBase(B, row.dims) = AllInBase(A, row.dims)
  BY <1>1 DEF AllInBase
<1>4. ApplyRecord(B, row, blocked) = ApplyRecord(A, row, blocked)
  BY <1>1, <1>2, <1>3 DEF ApplyRecord
<1> QED BY <1>4 DEF B

LEMMA ResolveIs ==
    ASSUME NEW r \in Record
    PROVE  /\ Resolved(Resolve(r)) /\ (Parses(r) <=> \A d \in Dims : Resolve(r)[d] # NonInt)
           /\ Resolve(r) = [d \in Dims |-> Resolve(r)[d]]
<1>1. /\ \A d \in Dims : r.dims[d] \in Spellings
      /\ Resolve(r) = [d \in Dims |-> IF d \in IntDims THEN ParseInt[r.dims[d]] ELSE r.dims[d]]
  BY DEF Record, Tuple, Resolve
<1> QED BY <1>1, SchemaAssumption DEF Resolved, Parses

\* What one record makes of a call.
RecordDone(c, h, v, r, cutoff, blocked, u) ==
    /\ GoodCall(u, h, v)
    /\ u.failed <=> c.failed \/ Rejected(r, cutoff)
    /\ ~u.failed => AbsView(Seen(u)) = IF Aged(r, cutoff) THEN AbsView(Seen(c))
                                       ELSE ApplyRecord(AbsView(Seen(c)), ToRow(r), blocked)

LEMMA UpsertRecordIs ==
    ASSUME NEW c, NEW h, NEW v, GoodCall(c, h, v), NEW r \in Record, r.upd # 0, NEW cutoff \in Nat,
           NEW blocked \in BOOLEAN
    PROVE  RecordDone(c, h, v, r, cutoff, blocked, UpsertRecord(c, r, cutoff, blocked))
<1> DEFINE t == Resolve(r)
           e == InternAll(c, r)
           w == Seen(e)
           ids == [d \in Dims |-> CHOOSE id \in lookupID(w, d, t[d]) : TRUE]
           row == newRow(ids, r)
           new == Upsert(w, row, blocked)
           u == UpsertRecord(c, r, cutoff, blocked)
<1>1. u = IF c.failed \/ ~r.arity THEN [c EXCEPT !.failed = TRUE]
          ELSE IF Aged(r, cutoff) THEN c
          ELSE IF e.failed THEN e
          ELSE [e EXCEPT !.view.delta = new.delta, !.view.overridden = new.overridden]
  BY DEF UpsertRecord, InternAll, Seen
<1>2. c \in Calls /\ c.failed \in BOOLEAN /\ r.arity \in BOOLEAN /\ r.upd \in Int
  BY TimeAssumption DEF GoodCall, CallOn, Calls, Record, Time
<1>3. /\ Resolved(t) /\ (Parses(r) <=> \A d \in Dims : t[d] # NonInt)
      /\ t = [d \in Dims |-> t[d]]
  BY ResolveIs
<1>4. RecordKnown(c, h, v, t, e)
  BY <1>3, InternAllIs
<1> HIDE DEF u, e, t
<1>5. CASE c.failed \/ ~r.arity
  <2>1. u = [c EXCEPT !.failed = TRUE]
    BY <1>1, <1>5
  <2>2. u \in Calls /\ u.heap = c.heap /\ u.view = c.view /\ u.owned = c.owned /\ u.failed
    BY <1>2, <2>1 DEF Calls
  <2>3. GoodCall(u, h, v)
    BY <2>2 DEF GoodCall, CallOn, Seen
  <2> QED BY <1>5, <2>2, <2>3 DEF RecordDone, Rejected, u
<1>6. CASE ~c.failed /\ r.arity /\ Aged(r, cutoff)
  <2>1. u = c
    BY <1>1, <1>6
  <2> QED BY <1>6, <2>1 DEF RecordDone, Rejected, u
<1>7. CASE ~c.failed /\ r.arity /\ ~Aged(r, cutoff) /\ e.failed
  <2>1. u = e
    BY <1>1, <1>7
  <2>2. GoodCall(e, h, v) /\ ~Parses(r)
    BY <1>3, <1>4, <1>7 DEF RecordKnown
  <2> QED BY <1>7, <2>1, <2>2 DEF RecordDone, Rejected, u
<1>8. CASE ~c.failed /\ r.arity /\ ~Aged(r, cutoff) /\ ~e.failed
  <2>1. u = [e EXCEPT !.view = [e.view EXCEPT !.delta = new.delta, !.overridden = new.overridden]]
    BY <1>1, <1>8
  <2>2. /\ GoodCall(e, h, v) /\ \A d \in Dims : Knows(w, d, t[d])
        /\ AbsView(w) = InternedIn(AbsView(Seen(c)), t, Dims)
        /\ Parses(r)
    BY <1>3, <1>4, <1>8 DEF RecordKnown
  <2>3. /\ CallOn(e, h, v) /\ RepOK(w) /\ Stamped(w)
        /\ e \in Calls /\ e.heap \in Heaps /\ e.view \in ColView(Refs)
    BY <2>2 DEF GoodCall, CallOn, Calls
  <2>4. w \in ColView(Dict) /\ \A d \in Dims : DictPair(w, d)
    <3>1. w \in ColView(Dict)
      BY <2>3, DerefIs DEF Seen
    <3> QED BY <2>3, <3>1 DEF RepOK
  <2>a. w = Deref(e.heap, e.view)
    BY DEF Seen
  <2> HIDE DEF w
  <2>5. ASSUME NEW d \in Dims
        PROVE  ids[d] \in Nat /\ ids[d] < idSpace(w, d) /\ dimString(w, d, ids[d]) = t[d]
    <3>1. lookupID(w, d, t[d]) = {id \in 0 .. idSpace(w, d) - 1 : dimString(w, d, id) = t[d]}
      BY <2>4, LookupIDIs
    <3>3. idSpace(w, d) \in Nat
      BY <2>4, DimStrings
    <3>2. ids[d] \in lookupID(w, d, t[d])
      BY <2>2 DEF Knows
    <3> HIDE DEF ids
    <3> QED BY <3>1, <3>2, <3>3
  <2>6. ids \in [Dims -> Nat]
    BY <2>5
  <2> HIDE DEF ids
  <2>7. /\ row \in ColRow /\ row.ids = ids /\ row.upd = r.upd /\ row.exp = expireMilli(r.exp) /\ row.met = r.met
    BY <2>6, NewRowIs DEF newRow
  <2>8. r.upd > 0
    BY <1>2, <1>8 DEF Aged
  <2> HIDE DEF row
  <2>9. RowFor(w, row)
    BY <2>5, <2>7, <2>8 DEF RowFor
  <2>10. new \in ColView(Dict) /\ RepOK(new) /\ Stamped(new)
    BY <2>3, <2>4, <2>9, UpsertOK
  <2>11. AbsView(new) = ApplyRecord(AbsView(w), AbsRow(w, row), blocked)
    BY <2>3, <2>4, <2>9, UpsertAbs
  <2>12. AbsRow(w, row) = ToRow(r)
    <3>1. [d \in Dims |-> dimString(w, d, row.ids[d])] = [d \in Dims |-> t[d]]
      BY <2>5, <2>7
    <3> QED BY <3>1, <1>3, <2>7 DEF AbsRow, ToRow, t
  <2>13. AbsView(new) = ApplyRecord(AbsView(Seen(c)), ToRow(r), blocked)
    <3>1. ToRow(r).dims = t
      BY DEF ToRow, t
    <3> QED BY <2>2, <2>11, <2>12, <3>1, ApplyInterned
  <2>14. new.base = w.base /\ new.extras = w.extras
    <3>1. Upserted(w, row, blocked, new)
      BY <2>4, UpsertHas
    <3> QED BY <3>1 DEF Upserted
  <2> HIDE DEF new
  <2> DEFINE nv == [e.view EXCEPT !.delta = new.delta, !.overridden = new.overridden]
  <2>15. /\ nv \in ColView(Refs) /\ nv.base = e.view.base /\ nv.extras = e.view.extras
         /\ nv.delta = new.delta /\ nv.overridden = new.overridden
    BY <2>3, <2>10 DEF ColView
  <2> HIDE DEF nv
  <2>16. u \in Calls /\ u.heap = e.heap /\ u.view = nv /\ u.owned = e.owned /\ u.failed = e.failed
    BY <2>1, <2>3, <2>15 DEF nv, Calls
  <2>17. CallOn(u, h, v)
    BY <2>3, <2>15, <2>16 DEF CallOn
  <2>18. Seen(u) = new
    <3> DEFINE x == Deref(e.heap, nv)
    <3>1. /\ x \in ColView(Dict) /\ x.overridden = nv.overridden /\ x.delta = nv.delta
          /\ x.extras = [d \in Dims |-> e.heap[d][nv.extras[d]]]
          /\ w.extras = [d \in Dims |-> e.heap[d][e.view.extras[d]]]
          /\ x.base.dicts = [d \in Dims |-> e.heap[d][nv.base.dicts[d]]]
          /\ w.base.dicts = [d \in Dims |-> e.heap[d][e.view.base.dicts[d]]]
      BY <2>3, <2>15, <2>a, DerefIs
    <3>2. /\ x.base.rows = nv.base.rows /\ x.base.keys = nv.base.keys /\ x.base.shifts = nv.base.shifts
          /\ x.base.maxUpdated = nv.base.maxUpdated /\ x.base.minUpdated = nv.base.minUpdated
          /\ x.base.minExpire = nv.base.minExpire
      BY <2>3, <2>15, DerefIs
    <3>3. /\ w.base.rows = nv.base.rows /\ w.base.keys = nv.base.keys /\ w.base.shifts = nv.base.shifts
          /\ w.base.maxUpdated = nv.base.maxUpdated /\ w.base.minUpdated = nv.base.minUpdated
          /\ w.base.minExpire = nv.base.minExpire
      <4>1. /\ w.base.rows = e.view.base.rows /\ w.base.keys = e.view.base.keys
            /\ w.base.shifts = e.view.base.shifts /\ w.base.maxUpdated = e.view.base.maxUpdated
            /\ w.base.minUpdated = e.view.base.minUpdated /\ w.base.minExpire = e.view.base.minExpire
        BY <2>3, <2>a, DerefIs
      <4> QED BY <2>15, <4>1
    <3>4. Seen(u) = x
      BY <2>16 DEF Seen
    <3> HIDE DEF x
    <3>5. x.base \in SnapRec(Dict) /\ w.base \in SnapRec(Dict)
      BY <2>4, <3>1 DEF ColView
    <3>6. x.base = w.base
      <4>1. x.base.dicts = w.base.dicts
        BY <2>15, <3>1
      <4> QED BY <3>2, <3>3, <3>5, <4>1, SnapEqual
    <3>7. x.extras = w.extras
      BY <2>15, <3>1
    <3>8. x = new
      BY <2>10, <2>14, <2>15, <3>1, <3>6, <3>7, ViewEqual
    <3> QED BY <3>4, <3>8
  <2>19. GoodCall(u, h, v)
    BY <2>10, <2>17, <2>18 DEF GoodCall
  <2> QED BY <1>8, <2>2, <2>13, <2>16, <2>18, <2>19 DEF RecordDone, Rejected, u
<1> QED BY <1>2, <1>5, <1>6, <1>7, <1>8

\* The loop over a batch, on the columns and on the view they stand for.
BatchOp(c, e, r) == UpsertRecord(e, r, c.cutoff, c.blocked)

AbsOp(c, A, r) == IF Aged(r, c.cutoff) THEN A ELSE ApplyRecord(A, ToRow(r), c.blocked)

AnyState(c, s, n, A) == TRUE

AbsBatches == INSTANCE Loops WITH Op <- AbsOp, Inv <- AnyState

BatchState(h, v, cutoff, s, n, e, A) ==
    /\ GoodCall(e, h, v)
    /\ e.failed <=> \E i \in 1 .. n : Rejected(s[i], cutoff)
    /\ ~e.failed => AbsView(Seen(e)) = A

BatchInv(c, s, n, e) == BatchState(c.heap, c.view, c.cutoff, s, n, e, c.abs[n])

ColBatches == INSTANCE Loops WITH Op <- BatchOp, Inv <- BatchInv

Batch(h, v, recs, cutoff, blocked) ==
    FoldLeft(LAMBDA e, r : UpsertRecord(e, r, cutoff, blocked), Started(h, v), recs)

AbsBatch(A, recs, cutoff, blocked) ==
    FoldLeft(LAMBDA a, r : IF Aged(r, cutoff) THEN a ELSE ApplyRecord(a, ToRow(r), blocked), A, recs)

LEMMA BatchStep ==
    ASSUME NEW h, NEW v, NEW cutoff \in Nat, NEW blocked \in BOOLEAN, NEW s, NEW n \in Nat, NEW e, NEW A,
           BatchState(h, v, cutoff, s, n, e, A), s[n + 1] \in Record, s[n + 1].upd # 0
    PROVE  BatchState(h, v, cutoff, s, n + 1, UpsertRecord(e, s[n + 1], cutoff, blocked),
                      IF Aged(s[n + 1], cutoff) THEN A ELSE ApplyRecord(A, ToRow(s[n + 1]), blocked))
<1> DEFINE r == s[n + 1]
           u == UpsertRecord(e, r, cutoff, blocked)
<1>1. /\ GoodCall(e, h, v)
      /\ e.failed <=> \E i \in 1 .. n : Rejected(s[i], cutoff)
      /\ ~e.failed => AbsView(Seen(e)) = A
  BY DEF BatchState
<1>2. RecordDone(e, h, v, r, cutoff, blocked, u)
  BY <1>1, UpsertRecordIs
<1> HIDE DEF u
<1>3. /\ GoodCall(u, h, v)
      /\ u.failed <=> e.failed \/ Rejected(r, cutoff)
      /\ ~u.failed => AbsView(Seen(u)) = IF Aged(r, cutoff) THEN AbsView(Seen(e))
                                         ELSE ApplyRecord(AbsView(Seen(e)), ToRow(r), blocked)
  BY <1>2 DEF RecordDone
<1>4. 1 .. n + 1 = (1 .. n) \cup {n + 1}
  OBVIOUS
<1>5. u.failed <=> \E i \in 1 .. n + 1 : Rejected(s[i], cutoff)
  BY <1>1, <1>3, <1>4
<1> QED BY <1>1, <1>3, <1>5 DEF BatchState, u

\* A batch fails when one of its records is rejected; otherwise it makes of the
\* columns what View makes of what they stand for.
LEMMA BatchIs ==
    ASSUME NEW h, NEW v, GoodCall(Started(h, v), h, v), NEW N \in Nat, NEW recs, DOMAIN recs = 1 .. N,
           \A i \in 1 .. N : recs[i] \in Record /\ recs[i].upd # 0,
           NEW cutoff \in Nat, NEW blocked \in BOOLEAN
    PROVE  BatchState(h, v, cutoff, recs, N, Batch(h, v, recs, cutoff, blocked),
                      AbsBatch(AbsView(Deref(h, v)), recs, cutoff, blocked))
<1> DEFINE c == Started(h, v)
           A == AbsView(Deref(h, v))
           actx == [cutoff |-> cutoff, blocked |-> blocked]
           a == AbsBatches!RunOf(actx, A, recs, N)
           ctx == [heap |-> h, view |-> v, cutoff |-> cutoff, blocked |-> blocked, abs |-> a]
           u == Batch(h, v, recs, cutoff, blocked)
           B == AbsBatch(A, recs, cutoff, blocked)
<1>1. u = ColBatches!Fold(ctx, c, recs)
  BY DEF Batch, FoldLeft, MapThenFoldSet, Max, ColBatches!Fold, ColBatches!MapThenFoldSet, ColBatches!Top, BatchOp
<1>2. B = AbsBatches!Fold(actx, A, recs)
  BY DEF AbsBatch, FoldLeft, MapThenFoldSet, Max, AbsBatches!Fold, AbsBatches!MapThenFoldSet, AbsBatches!Top, AbsOp
<1>3. /\ ctx.heap = h /\ ctx.view = v /\ ctx.cutoff = cutoff /\ ctx.blocked = blocked /\ ctx.abs = a
      /\ actx.cutoff = cutoff /\ actx.blocked = blocked
  OBVIOUS
<1>4. AbsBatches!IsRun(a, actx, A, recs, N) /\ AbsBatches!Fold(actx, A, recs) = a[N]
  <2> HIDE DEF actx
  <2> QED BY AbsBatches!FoldRun
<1>5. AbsView(Seen(c)) = A /\ ~c.failed
  BY DEF Seen, Started
<1> HIDE DEF ctx, actx, a, u, B, c, A
<1>6. a[0] = A /\ \A n \in 0 .. N - 1 : a[n + 1] = AbsOp(actx, a[n], recs[n + 1])
  BY <1>4 DEF AbsBatches!IsRun
<1>7. BatchInv(ctx, recs, 0, c)
  <2>1. GoodCall(c, h, v)
    BY DEF c
  <2> QED BY <1>3, <1>5, <1>6, <2>1 DEF BatchInv, BatchState
<1>8. ASSUME NEW n \in 0 .. N - 1, NEW e, BatchInv(ctx, recs, n, e)
      PROVE  BatchInv(ctx, recs, n + 1, BatchOp(ctx, e, recs[n + 1]))
  <2>1. n \in Nat /\ n + 1 \in 1 .. N /\ recs[n + 1] \in Record /\ recs[n + 1].upd # 0
    OBVIOUS
  <2>2. BatchState(h, v, cutoff, recs, n, e, a[n])
    BY <1>3, <1>8 DEF BatchInv
  <2>3. BatchState(h, v, cutoff, recs, n + 1, UpsertRecord(e, recs[n + 1], cutoff, blocked),
                   IF Aged(recs[n + 1], cutoff) THEN a[n] ELSE ApplyRecord(a[n], ToRow(recs[n + 1]), blocked))
    BY <2>1, <2>2, BatchStep
  <2>4. a[n + 1] = IF Aged(recs[n + 1], cutoff) THEN a[n] ELSE ApplyRecord(a[n], ToRow(recs[n + 1]), blocked)
    BY <1>3, <1>6 DEF AbsOp
  <2> QED BY <1>3, <2>3, <2>4 DEF BatchInv, BatchOp
<1>9. BatchInv(ctx, recs, N, ColBatches!Fold(ctx, c, recs))
  BY <1>7, <1>8, ColBatches!FoldInvariant
<1>10. BatchState(h, v, cutoff, recs, N, u, B)
  BY <1>1, <1>2, <1>3, <1>4, <1>9 DEF BatchInv
<1> QED BY <1>10 DEF u, B, A

-----------------------------------------------------------------------------
(* New views of a merge or a dump.                                            *)

\* The extrema of the first n rows, as the snapshot x has them.
ScalarsOK(rows, n, x) ==
    /\ x.maxUpdated >= 0 /\ \A i \in 1 .. n : rows[i].upd <= x.maxUpdated
    /\ x.maxUpdated = 0 \/ \E i \in 1 .. n : rows[i].upd = x.maxUpdated
    /\ IF n = 0 THEN x.minUpdated = 0
       ELSE x.minUpdated > 0 /\ \E i \in 1 .. n : rows[i].upd = x.minUpdated
    /\ \A i \in 1 .. n : x.minUpdated <= rows[i].upd
    /\ \A i \in 1 .. n : rows[i].exp # 0 => x.minExpire # 0 /\ x.minExpire <= rows[i].exp
    /\ x.minExpire # 0 => \E i \in 1 .. n : rows[i].exp = x.minExpire

ScalarInv(c, s, n, x) == TrackInv(c, s, n, x) /\ ScalarsOK(s, n, x)

Scalars == INSTANCE Loops WITH Op <- TrackOp, Inv <- ScalarInv

LEMMA ScalarStep ==
    ASSUME NEW rows, NEW n \in Nat, NEW x, NEW y, NEW row, row = rows[n + 1],
           row.upd \in Time, row.upd > 0, row.exp \in Time,
           \A i \in 1 .. n : rows[i].upd \in Time /\ rows[i].exp \in Time,
           x.maxUpdated \in Time, x.minUpdated \in Time, x.minExpire \in Time,
           y.maxUpdated = (IF row.upd > x.maxUpdated THEN row.upd ELSE x.maxUpdated),
           y.minUpdated = (IF x.minUpdated = 0 \/ row.upd < x.minUpdated THEN row.upd ELSE x.minUpdated),
           y.minExpire = (IF row.exp # 0 /\ (x.minExpire = 0 \/ row.exp < x.minExpire) THEN row.exp
                          ELSE x.minExpire),
           ScalarsOK(rows, n, x)
    PROVE  ScalarsOK(rows, n + 1, y)
<1>1. /\ \A i \in 1 .. n : rows[i].upd \in Int /\ rows[i].exp \in Int
      /\ row.upd \in Int /\ row.exp \in Int /\ row.upd > 0
      /\ x.maxUpdated \in Int /\ x.minUpdated \in Int /\ x.minExpire \in Int
      /\ rows[n + 1] = row
  BY ZeroIsTime
<1>2. 1 .. n + 1 = (1 .. n) \cup {n + 1} /\ n + 1 # 0
  OBVIOUS
<1>a. \A i \in 1 .. n + 1 : i \in 1 .. n \/ rows[i] = row
  BY <1>1, <1>2
<1>b. /\ \A i \in 1 .. n : i \in 1 .. n + 1
      /\ n + 1 \in 1 .. n + 1
  BY <1>2
<1>3. /\ x.maxUpdated >= 0 /\ \A i \in 1 .. n : rows[i].upd <= x.maxUpdated
      /\ x.maxUpdated = 0 \/ \E i \in 1 .. n : rows[i].upd = x.maxUpdated
  BY DEF ScalarsOK
<1>4. /\ y.maxUpdated >= 0 /\ \A i \in 1 .. n + 1 : rows[i].upd <= y.maxUpdated
      /\ y.maxUpdated = 0 \/ \E i \in 1 .. n + 1 : rows[i].upd = y.maxUpdated
  <2>1. CASE row.upd > x.maxUpdated
    BY <1>1, <1>3, <1>a, <1>b, <2>1
  <2>2. CASE ~(row.upd > x.maxUpdated)
    BY <1>1, <1>3, <1>a, <1>b, <2>2
  <2> QED BY <2>1, <2>2
<1>5. /\ IF n = 0 THEN x.minUpdated = 0
         ELSE x.minUpdated > 0 /\ \E i \in 1 .. n : rows[i].upd = x.minUpdated
      /\ \A i \in 1 .. n : x.minUpdated <= rows[i].upd
  BY DEF ScalarsOK
<1>6. /\ y.minUpdated > 0 /\ \E i \in 1 .. n + 1 : rows[i].upd = y.minUpdated
      /\ \A i \in 1 .. n + 1 : y.minUpdated <= rows[i].upd
  <2>1. CASE n = 0
    <3>1. y.minUpdated = row.upd /\ 1 .. n = {}
      BY <1>5, <2>1
    <3> QED BY <1>1, <1>a, <1>b, <3>1
  <2>2. CASE n # 0 /\ row.upd < x.minUpdated
    BY <1>1, <1>5, <1>a, <1>b, <2>2
  <2>3. CASE n # 0 /\ ~(row.upd < x.minUpdated)
    <3>1. y.minUpdated = x.minUpdated
      BY <1>1, <1>5, <2>3
    <3> QED BY <1>1, <1>5, <1>a, <1>b, <2>3, <3>1
  <2> QED BY <2>1, <2>2, <2>3
<1>7. /\ \A i \in 1 .. n : rows[i].exp # 0 => x.minExpire # 0 /\ x.minExpire <= rows[i].exp
      /\ x.minExpire # 0 => \E i \in 1 .. n : rows[i].exp = x.minExpire
  BY DEF ScalarsOK
<1>8. /\ \A i \in 1 .. n + 1 : rows[i].exp # 0 => y.minExpire # 0 /\ y.minExpire <= rows[i].exp
      /\ y.minExpire # 0 => \E i \in 1 .. n + 1 : rows[i].exp = y.minExpire
  <2>1. CASE row.exp # 0 /\ (x.minExpire = 0 \/ row.exp < x.minExpire)
    <3>1. y.minExpire = row.exp
      BY <2>1
    <3> QED BY <1>1, <1>7, <1>a, <1>b, <2>1, <3>1
  <2>2. CASE ~(row.exp # 0 /\ (x.minExpire = 0 \/ row.exp < x.minExpire))
    <3>1. y.minExpire = x.minExpire
      BY <2>2
    <3> QED BY <1>1, <1>7, <1>a, <1>b, <2>2, <3>1
  <2> QED BY <2>1, <2>2
<1> QED BY <1>2, <1>4, <1>6, <1>8 DEF ScalarsOK

\* The snapshot NewColumns makes has the extrema of its rows.
LEMMA NewScalars ==
    ASSUME NEW dicts, NEW keyed \in Seq(Entry), \A i \in DOMAIN keyed : keyed[i].row.upd > 0
    PROVE  ScalarsOK(NewColumns(dicts, keyed).rows, Len(keyed), NewColumns(dicts, keyed))
<1> DEFINE rows == [i \in DOMAIN keyed |-> keyed[i].row]
           c == [dicts |-> dicts, shifts |-> computeShifts(dicts), rows |-> rows,
                 keys |-> [i \in DOMAIN keyed |-> keyed[i].key],
                 maxUpdated |-> 0, minUpdated |-> 0, minExpire |-> 0]
           s == NewColumns(dicts, keyed)
<1>1. s = Scalars!Fold(c, c, rows)
  BY DEF NewColumns, FoldLeft, MapThenFoldSet, Max, Scalars!Fold, Scalars!MapThenFoldSet, Scalars!Top, TrackOp
<1>2. /\ DOMAIN rows = 1 .. Len(keyed) /\ Len(keyed) \in Nat
      /\ \A i \in 1 .. Len(keyed) : rows[i].upd \in Time /\ rows[i].exp \in Time /\ rows[i].upd > 0
  <2>1. \A i \in 1 .. Len(keyed) : keyed[i] \in Entry
    OBVIOUS
  <2> QED BY <2>1 DEF Entry, ColRow
<1>3. TrackInv(c, rows, 0, c)
  <2>1. 0 \in Time
    BY ZeroIsTime
  <2> QED BY <2>1 DEF TrackInv
<1>4. ScalarsOK(rows, 0, c)
  BY DEF ScalarsOK
<1> HIDE DEF s
<1>5. ASSUME NEW n \in 0 .. Len(keyed) - 1, NEW x, ScalarInv(c, rows, n, x)
      PROVE  ScalarInv(c, rows, n + 1, TrackOp(c, x, rows[n + 1]))
  <2> DEFINE row == rows[n + 1]
             y == TrackOp(c, x, row)
  <2>1. row.upd \in Time /\ row.exp \in Time /\ row.upd > 0 /\ n \in Nat
        /\ \A i \in 1 .. n : rows[i].upd \in Time /\ rows[i].exp \in Time
    BY <1>2
  <2> HIDE DEF c, rows
  <2>2. TrackInv(c, rows, n, x) /\ ScalarsOK(rows, n, x)
    BY <1>5 DEF ScalarInv
  <2> HIDE DEF row
  <2>3. TrackInv(c, rows, n + 1, y)
    BY <2>1, <2>2 DEF TrackInv, TrackOp, Track
  <2>4. /\ x.maxUpdated \in Time /\ x.minUpdated \in Time /\ x.minExpire \in Time
        /\ y.maxUpdated = (IF row.upd > x.maxUpdated THEN row.upd ELSE x.maxUpdated)
        /\ y.minUpdated = (IF x.minUpdated = 0 \/ row.upd < x.minUpdated THEN row.upd ELSE x.minUpdated)
        /\ y.minExpire = (IF row.exp # 0 /\ (x.minExpire = 0 \/ row.exp < x.minExpire) THEN row.exp
                          ELSE x.minExpire)
    BY <2>1, <2>2 DEF TrackInv, TrackOp, Track
  <2> HIDE DEF y
  <2>5. ScalarsOK(rows, n + 1, y)
    BY <2>1, <2>2, <2>4, ScalarStep DEF row
  <2> QED BY <2>3, <2>5 DEF ScalarInv, y, row
<1>6. ScalarInv(c, rows, Len(keyed), Scalars!Fold(c, c, rows))
  <2>1. ScalarInv(c, rows, 0, c)
    BY <1>3, <1>4 DEF ScalarInv
  <2> HIDE DEF c, rows
  <2> QED BY <1>2, <1>5, <2>1, Scalars!FoldInvariant
<1>7. s.rows = rows
  BY NewColumnsHas DEF s
<1> QED BY <1>1, <1>6, <1>7 DEF ScalarInv, s

\* s is a snapshot whose columns are right.
GoodSnap(s) ==
    /\ s \in SnapRec(Dict) /\ SnapOK(s)
    /\ \A r \in DOMAIN s.rows : s.rows[r].upd > 0
    /\ ScalarsOK(s.rows, Len(s.rows), s)

LEMMA ShiftsNat ==
    ASSUME NEW dicts, WidthsOf(dicts)
    PROVE  computeShifts(dicts) \in [Prefix -> Nat]
<1>1. \A i \in Prefix : computeShifts(dicts)[i] \in Nat
  BY ShiftsStep
<1>2. computeShifts(dicts) = [i \in Prefix |-> computeShifts(dicts)[i]]
  BY DEF computeShifts
<1> QED BY <1>1, <1>2

LEMMA BuiltHas ==
    ASSUME NEW s, NEW dicts \in [Dims -> Dict], \A d \in Dims : DictOK(dicts[d]), NEW rows,
           BuiltOf(s, dicts, rows), \A row \in rows : row.upd > 0
    PROVE  /\ GoodSnap(s) /\ s.dicts = dicts
           /\ {s.rows[r] : r \in DOMAIN s.rows} = rows
<1>1. PICK keyed : /\ EntriesOK(dicts, keyed) /\ s = NewColumns(dicts, keyed)
                   /\ {keyed[i].row : i \in DOMAIN keyed} = rows
  BY DEF BuiltOf
<1>2. keyed \in Seq(Entry)
  BY <1>1 DEF EntriesOK
<1>3. SnapOK(s) /\ s.dicts = dicts
  BY <1>1, NewColumnsOK
<1> DEFINE R == [i \in DOMAIN keyed |-> keyed[i].row]
           K == [i \in DOMAIN keyed |-> keyed[i].key]
<1>4. s \in [dicts: {dicts}, shifts: {computeShifts(dicts)}, rows: {R}, keys: {K},
             maxUpdated: Time, minUpdated: Time, minExpire: Time]
  BY <1>1, <1>2, NewColumnsHas
<1>5. R \in Seq(ColRow) /\ K \in Seq(Nat)
  <2>1. DOMAIN keyed = 1 .. Len(keyed) /\ Len(keyed) \in Nat /\ \A i \in DOMAIN keyed : keyed[i] \in Entry
    BY <1>2
  <2> QED BY <2>1 DEF Entry
<1>6. computeShifts(dicts) \in [Prefix -> Nat]
  BY ShiftsNat DEF WidthsOf, Dict
<1>7. s.rows = R
  BY <1>4
<1>8. {s.rows[r] : r \in DOMAIN s.rows} = rows
  BY <1>1, <1>7
<1> HIDE DEF R, K
<1>9. s \in SnapRec(Dict)
  BY <1>4, <1>5, <1>6 DEF SnapRec
<1>10. \A r \in DOMAIN s.rows : s.rows[r].upd > 0
  BY <1>8
<1>11. ScalarsOK(s.rows, Len(s.rows), s)
  <2>1. \A i \in DOMAIN keyed : keyed[i].row.upd > 0
    BY <1>1
  <2>2. ScalarsOK(s.rows, Len(keyed), s)
    BY <1>1, <1>2, <2>1, NewScalars
  <2>3. Len(s.rows) = Len(keyed)
    BY <1>2, <1>7 DEF R
  <2> QED BY <2>2, <2>3
<1> QED BY <1>3, <1>8, <1>9, <1>10, <1>11 DEF GoodSnap

NoExtras == [d \in Dims |-> <<>>]

\* A new view has no delta.
IsNewView(s, u) ==
    /\ u \in ColView(Dict) /\ RepOK(u) /\ Stamped(u)
    /\ u.base = s /\ u.extras = NoExtras /\ u.overridden = {}
    /\ u.delta = [rows |-> <<>>, maxUpdated |-> 0, hasExpiry |-> FALSE]

LEMMA NewColumnViewOK ==
    ASSUME NEW s, GoodSnap(s)
    PROVE  IsNewView(s, newColumnView(s, NoExtras))
<1> DEFINE u == newColumnView(s, NoExtras)
           D == [rows |-> <<>>, maxUpdated |-> 0, hasExpiry |-> FALSE]
<1>1. s \in SnapRec(Dict) /\ SnapOK(s) /\ \A r \in DOMAIN s.rows : s.rows[r].upd > 0
  BY DEF GoodSnap
<1>2. u.base = s /\ u.extras = NoExtras /\ u.overridden = {} /\ u.delta = D
      /\ u = [base |-> s, extras |-> NoExtras, overridden |-> {}, delta |-> D]
  BY DEF newColumnView
<1>3. D \in DeltaRec /\ D.rows = <<>>
  BY TimeAssumption DEF DeltaRec, Time
<1>4. NoExtras \in [Dims -> Dict] /\ \A d \in Dims : NoExtras[d] = <<>>
  BY DEF NoExtras, Dict
<1> HIDE DEF u, D
<1>5. u \in ColView(Dict)
  BY <1>1, <1>2, <1>3, <1>4 DEF ColView
<1>6. ASSUME NEW d \in Dims PROVE DictPair(u, d)
  <2> DEFINE b == s.dicts[d]
  <2>1. b \in Seq(Spellings) /\ IsInjective(b)
    BY <1>1 DEF SnapOK, DictOK
  <2>2. u.base.dicts[d] = b /\ u.extras[d] = <<>>
    BY <1>2, <1>4
  <2> HIDE DEF b
  <2>3. b \o <<>> = b
    BY <2>1
  <2> QED BY <2>1, <2>2, <2>3 DEF DictPair
<1>7. u.delta.rows = <<>> /\ DOMAIN u.delta.rows = {}
  BY <1>2, <1>3
<1>8. DeltaRowsOK(u) /\ OverridesOK(u)
  <2>1. u.delta.rows \in Seq(ColRow)
    BY <1>7
  <2>2. {r \in DOMAIN u.base.rows : \E q \in DOMAIN u.delta.rows : u.delta.rows[q].ids = u.base.rows[r].ids} = {}
    BY <1>7
  <2> QED BY <1>2, <1>7, <2>1, <2>2 DEF DeltaRowsOK, OverridesOK
<1>9. RepOK(u) /\ Stamped(u)
  <2>1. \A r \in DOMAIN s.rows : s.rows[r].exp # 0 => s.minExpire # 0 /\ s.minExpire <= s.rows[r].exp
    <3>1. DOMAIN s.rows = 1 .. Len(s.rows)
      BY <1>1 DEF SnapOK
    <3> QED BY <3>1 DEF GoodSnap, ScalarsOK
  <2>2. ExpiryOK(u)
    BY <1>2, <1>7, <2>1 DEF ExpiryOK
  <2> QED BY <1>1, <1>2, <1>6, <1>7, <1>8, <2>2 DEF RepOK, Stamped
<1> QED BY <1>2, <1>5, <1>9 DEF IsNewView, u, D

-----------------------------------------------------------------------------
(* The steps.                                                                 *)

Base == view.base.dicts = Everywhere(BaseRef) /\ view.extras = Everywhere(ExtrasRef)

GoodView(h, v) == v \in ColView(Refs) /\ RepOK(Deref(h, v)) /\ Stamped(Deref(h, v))

\* What the published view shares with the heap, the addresses it has, is right,
\* and so is the view that is not published yet.
ColumnInv ==
    /\ heap \in Heaps
    /\ GoodView(heap, view) /\ Base
    /\ \A v \in built : GoodView(heap, v)

\* Two heaps with the same published dictionaries.
SamePublished(g, h) ==
    \A d \in Dims : g[d][BaseRef] = h[d][BaseRef] /\ g[d][ExtrasRef] = h[d][ExtrasRef]

LEMMA Frozen ==
    ASSUME NEW g, NEW h, Base, SamePublished(g, h)
    PROVE  Deref(g, view) = Deref(h, view)
<1>1. \A d \in Dims : view.base.dicts[d] = BaseRef /\ view.extras[d] = ExtrasRef
  BY DEF Base, Everywhere
<1>2. [d \in Dims |-> g[d][view.base.dicts[d]]] = [d \in Dims |-> h[d][view.base.dicts[d]]]
  BY <1>1 DEF SamePublished
<1>3. [d \in Dims |-> g[d][view.extras[d]]] = [d \in Dims |-> h[d][view.extras[d]]]
  BY <1>1 DEF SamePublished
<1> QED BY <1>2, <1>3 DEF Deref

\* A merge or a dump leaves the published dictionaries alone, and builds a view
\* of its snapshot.
LEMMA BuildIs ==
    ASSUME ColumnInv, NEW snap, GoodSnap(snap), NEW shared,
           \A d \in Dims : d \in shared => snap.dicts[d] = heap[d][BaseRef],
           Build(snap, shared)
    PROVE  /\ heap' \in Heaps /\ SamePublished(heap', heap) /\ view' = view
           /\ \A v \in built' : v \in ColView(Refs) /\ Deref(heap', v) = newColumnView(snap, NoExtras)
<1> USE DEF BaseRef, ExtrasRef, NewBaseRef, NewExtrasRef, Refs
<1> DEFINE refs == [d \in Dims |-> IF d \in shared THEN BaseRef ELSE NewBaseRef]
           sb == [snap EXCEPT !.dicts = refs]
           ex == Everywhere(NewExtrasRef)
           nv == newColumnView(sb, ex)
<1>1. /\ heap' = [d \in Dims |->
                   [heap[d] EXCEPT ![NewBaseRef] = IF d \in shared THEN @ ELSE snap.dicts[d],
                                   ![NewExtrasRef] = <<>>]]
      /\ built' = {nv} /\ view' = view
  BY DEF Build
<1>2. snap \in SnapRec(Dict) /\ snap.dicts \in [Dims -> Dict]
  BY DEF GoodSnap, SnapRec
<1>3. ASSUME NEW d \in Dims
      PROVE  /\ heap'[d] \in [Refs -> Dict]
             /\ heap'[d][BaseRef] = heap[d][BaseRef] /\ heap'[d][ExtrasRef] = heap[d][ExtrasRef]
             /\ heap'[d][NewExtrasRef] = <<>>
             /\ d \notin shared => heap'[d][NewBaseRef] = snap.dicts[d]
  <2>1. heap[d] \in [Refs -> Dict] /\ snap.dicts[d] \in Dict /\ <<>> \in Dict
    BY <1>2 DEF ColumnInv, Heaps, Dict
  <2>2. heap'[d] = [heap[d] EXCEPT ![NewBaseRef] = IF d \in shared THEN @ ELSE snap.dicts[d],
                                   ![NewExtrasRef] = <<>>]
    BY <1>1
  <2> QED BY <2>1, <2>2
<1>4. heap' \in Heaps
  BY <1>1, <1>3 DEF Heaps
<1>5. SamePublished(heap', heap)
  BY <1>3 DEF SamePublished
<1>6. refs \in [Dims -> Refs] /\ ex \in [Dims -> Refs] /\ \A d \in Dims : ex[d] = NewExtrasRef
  BY DEF Everywhere
<1>7. ASSUME NEW d \in Dims PROVE heap'[d][refs[d]] = snap.dicts[d]
  BY <1>3
<1> HIDE DEF refs, ex
<1>8. /\ sb \in SnapRec(Refs) /\ sb.dicts = refs /\ sb.shifts = snap.shifts /\ sb.rows = snap.rows
      /\ sb.keys = snap.keys /\ sb.maxUpdated = snap.maxUpdated /\ sb.minUpdated = snap.minUpdated
      /\ sb.minExpire = snap.minExpire
  BY <1>2, <1>6 DEF SnapRec
<1> HIDE DEF sb
<1> DEFINE D == [rows |-> <<>>, maxUpdated |-> 0, hasExpiry |-> FALSE]
<1>9. D \in DeltaRec
  BY TimeAssumption DEF DeltaRec, Time
<1>10. /\ nv = [base |-> sb, extras |-> ex, overridden |-> {}, delta |-> D]
       /\ nv.base = sb /\ nv.extras = ex /\ nv.overridden = {} /\ nv.delta = D
  BY DEF newColumnView
<1> HIDE DEF nv, D
<1>11. nv \in ColView(Refs)
  BY <1>6, <1>8, <1>9, <1>10 DEF ColView
<1> DEFINE x == Deref(heap', nv)
           y == newColumnView(snap, NoExtras)
<1>12. /\ x \in ColView(Dict) /\ x.overridden = {} /\ x.delta = D
       /\ x.extras = [d \in Dims |-> heap'[d][ex[d]]]
       /\ x.base.dicts = [d \in Dims |-> heap'[d][refs[d]]]
  <2>1. /\ x \in ColView(Dict) /\ x.overridden = nv.overridden /\ x.delta = nv.delta
        /\ x.extras = [d \in Dims |-> heap'[d][nv.extras[d]]]
        /\ x.base.dicts = [d \in Dims |-> heap'[d][nv.base.dicts[d]]]
    BY <1>4, <1>11, DerefIs
  <2> HIDE DEF x
  <2> QED BY <1>8, <1>10, <2>1
<1>13. /\ x.base.rows = nv.base.rows /\ x.base.keys = nv.base.keys /\ x.base.shifts = nv.base.shifts
       /\ x.base.maxUpdated = nv.base.maxUpdated /\ x.base.minUpdated = nv.base.minUpdated
       /\ x.base.minExpire = nv.base.minExpire
  BY <1>4, <1>11, DerefIs
<1>14. IsNewView(snap, y)
  BY NewColumnViewOK
<1> HIDE DEF x, y
<1>15. y \in ColView(Dict) /\ y.base = snap /\ y.extras = NoExtras /\ y.overridden = {} /\ y.delta = D
  BY <1>14 DEF IsNewView, D
<1>16. x.base = snap
  <2>1. snap.dicts = [d \in Dims |-> snap.dicts[d]]
    BY <1>2
  <2>2. x.base.dicts = snap.dicts
    BY <1>7, <1>12, <2>1
  <2>3. x.base \in SnapRec(Dict)
    BY <1>12 DEF ColView
  <2> QED BY <1>2, <1>8, <1>10, <1>13, <2>2, <2>3, SnapEqual
<1>17. x.extras = NoExtras
  BY <1>3, <1>6, <1>12 DEF NoExtras
<1>18. x = y
  BY <1>12, <1>15, <1>16, <1>17, ViewEqual
<1> QED BY <1>1, <1>4, <1>5, <1>11, <1>18 DEF x, y

\* No cutoff is negative.
LEMMA CutoffNat ==
    ASSUME NEW cutoff \in Table!Cutoffs
    PROVE  cutoff \in Nat
<1>1. PICK t \in Clocks : cutoff = IF TTL <= 0 THEN 0 ELSE t - TTL
  BY DEF Table!Cutoffs, Table!ttlCutoff
<1>2. t \in Int /\ TTL \in Nat /\ TTL < t
  BY ClockAssumption, TimeAssumption DEF Time
<1> QED BY <1>1, <1>2

LEMMA InputIs ==
    ASSUME NEW recs, NEW N, recs \in [1 .. N -> Inputs]
    PROVE  DOMAIN recs = 1 .. N /\ \A i \in 1 .. N : recs[i] \in Record /\ recs[i].upd # 0
BY InputAssumption

LEMMA StartedOK ==
    ASSUME ColumnInv
    PROVE  GoodCall(Started(heap, view), heap, view)
<1> DEFINE c == Started(heap, view)
<1>1. c \in Calls /\ c.heap = heap /\ c.view = view /\ c.owned = {}
  BY DEF Started, Calls, ColumnInv, GoodView
<1> HIDE DEF c
<1>2. RepOK(Seen(c)) /\ Stamped(Seen(c))
  BY <1>1 DEF Seen, ColumnInv, GoodView
<1>3. CallOn(c, heap, view)
  BY <1>1 DEF CallOn, ColumnInv, Base, Everywhere
<1> QED BY <1>2, <1>3 DEF GoodCall, c

\* A batch leaves the published view alone and builds a right one, which stands
\* for what View makes of the published one; unless a record is rejected.
BatchBuilt(recs, cutoff, blocked) ==
    /\ ColumnInv' /\ SamePublished(heap', heap) /\ view' = view
    /\ \A v \in built' : /\ \A i \in DOMAIN recs : ~Rejected(recs[i], cutoff)
                         /\ AbsView(Deref(heap', v)) = AbsBatch(AbsView(Deref(heap, view)), recs, cutoff, blocked)

LEMMA PublishedKept ==
    ASSUME ColumnInv, heap' \in Heaps, SamePublished(heap', heap), view' = view,
           \A v \in built' : GoodView(heap', v)
    PROVE  ColumnInv'
<1>1. Deref(heap', view) = Deref(heap, view)
  BY Frozen DEF ColumnInv
<1> QED BY <1>1 DEF ColumnInv, GoodView, Base

LEMMA ApplyBuilds ==
    ASSUME ColumnInv, NEW N \in Nat, NEW recs \in [1 .. N -> Inputs], NEW cutoff \in Nat, NEW blocked \in BOOLEAN,
           Apply(recs, cutoff, blocked)
    PROVE  BatchBuilt(recs, cutoff, blocked)
<1> USE DEF BaseRef, ExtrasRef, NewBaseRef, NewExtrasRef, Refs
<1> DEFINE c == Batch(heap, view, recs, cutoff, blocked)
           A == AbsBatch(AbsView(Deref(heap, view)), recs, cutoff, blocked)
<1>1. /\ heap' = IF c.failed THEN Collect(c.heap) ELSE c.heap
      /\ built' = IF c.failed THEN {} ELSE {c.view}
      /\ view' = view
  BY DEF Apply, Batch
<1>2. BatchState(heap, view, cutoff, recs, N, c, A)
  BY InputIs, StartedOK, BatchIs
<1> HIDE DEF c, A
<1>3. /\ GoodCall(c, heap, view)
      /\ c.failed <=> \E i \in 1 .. N : Rejected(recs[i], cutoff)
      /\ ~c.failed => AbsView(Seen(c)) = A
  BY <1>2 DEF BatchState
<1>4. /\ c.heap \in Heaps /\ c.view \in ColView(Refs) /\ SamePublished(c.heap, heap)
      /\ RepOK(Deref(c.heap, c.view)) /\ Stamped(Deref(c.heap, c.view))
  BY <1>3 DEF GoodCall, CallOn, Calls, SamePublished, Seen
<1>5. CASE c.failed
  <2>1. heap' = Collect(c.heap) /\ built' = {}
    BY <1>1, <1>5
  <2>2. ASSUME NEW d \in Dims
        PROVE  /\ heap'[d] \in [Refs -> Dict]
               /\ heap'[d][BaseRef] = c.heap[d][BaseRef] /\ heap'[d][ExtrasRef] = c.heap[d][ExtrasRef]
    <3>1. c.heap[d] \in [Refs -> Dict] /\ <<>> \in Dict
      BY <1>4 DEF Heaps, Dict
    <3>2. heap'[d] = [c.heap[d] EXCEPT ![NewBaseRef] = <<>>, ![NewExtrasRef] = <<>>]
      BY <2>1 DEF Collect
    <3> QED BY <3>1, <3>2
  <2>3. heap' \in Heaps
    BY <2>1, <2>2 DEF Collect, Heaps
  <2>4. SamePublished(heap', heap)
    BY <1>4, <2>2 DEF SamePublished
  <2> QED BY <1>1, <2>1, <2>3, <2>4, PublishedKept DEF BatchBuilt
<1>6. CASE ~c.failed
  <2>1. heap' = c.heap /\ built' = {c.view}
    BY <1>1, <1>6
  <2>2. \A v \in built' : GoodView(heap', v)
    BY <1>4, <2>1 DEF GoodView
  <2>3. ColumnInv'
    BY <1>1, <1>4, <2>1, <2>2, PublishedKept
  <2>4. DOMAIN recs = 1 .. N
    OBVIOUS
  <2> QED BY <1>1, <1>3, <1>4, <1>6, <2>1, <2>3, <2>4 DEF BatchBuilt, Seen, A
<1> QED BY <1>5, <1>6

\* A merge or a dump leaves the published view alone and builds a right one.
SnapBuilt(snap) ==
    /\ GoodSnap(snap)
    /\ ColumnInv' /\ SamePublished(heap', heap) /\ view' = view
    /\ \A v \in built' : Deref(heap', v) = newColumnView(snap, NoExtras)

LEMMA BuildOfSnap ==
    ASSUME ColumnInv, NEW snap, GoodSnap(snap), NEW shared,
           \A d \in Dims : d \in shared => snap.dicts[d] = heap[d][BaseRef],
           Build(snap, shared)
    PROVE  SnapBuilt(snap)
<1>1. /\ heap' \in Heaps /\ SamePublished(heap', heap) /\ view' = view
      /\ \A v \in built' : v \in ColView(Refs) /\ Deref(heap', v) = newColumnView(snap, NoExtras)
  BY BuildIs
<1>2. IsNewView(snap, newColumnView(snap, NoExtras))
  BY NewColumnViewOK
<1>3. \A v \in built' : GoodView(heap', v)
  BY <1>1, <1>2 DEF IsNewView, GoodView
<1>4. ColumnInv'
  BY <1>1, <1>3, PublishedKept
<1> QED BY <1>1, <1>4 DEF SnapBuilt

\* The dictionaries of a merge.
LEMMA MergedDictsOK ==
    ASSUME NEW v, RepOK(v), NEW cutoff, NEW now, NEW renumber \in BOOLEAN
    PROVE  LET dicts == mergedDicts(v, cutoff, now, renumber)
           IN  dicts \in [Dims -> Dict] /\ \A d \in Dims : DictOK(dicts[d])
<1> DEFINE dicts == mergedDicts(v, cutoff, now, renumber)
<1>1. ASSUME NEW d \in Dims PROVE DictOK(dicts[d])
  <2>1. Renumbers(v, d, used(v, cutoff, now, d), remap(v, cutoff, now, renumber, dicts)[d], dicts[d])
    BY RemapIs
  <2> QED BY <2>1 DEF Renumbers
<1>2. dicts = [d \in Dims |-> dicts[d]]
  BY DEF mergedDicts
<1> HIDE DEF dicts
<1>3. dicts \in [Dims -> Dict]
  BY <1>1, <1>2 DEF DictOK, Dict
<1> QED BY <1>1, <1>3 DEF dicts

\* The snapshot of a merge, and the rows it has.
MergeSnap(v, cutoff, now, renumber, snap) ==
    /\ GoodSnap(snap) /\ snap.dicts = mergedDicts(v, cutoff, now, renumber)
    /\ {snap.rows[r] : r \in DOMAIN snap.rows}
       = {Renumbered(v, cutoff, now, renumber, row) : row \in KeptRow(v, cutoff, now)}

LEMMA MergeSnapIs ==
    ASSUME NEW v, RepOK(v), Stamped(v), NEW cutoff, NEW now, NEW renumber \in BOOLEAN,
           NEW snap \in zipMerge(v, cutoff, now, renumber)
    PROVE  MergeSnap(v, cutoff, now, renumber, snap)
<1> DEFINE dicts == mergedDicts(v, cutoff, now, renumber)
           rows == {Renumbered(v, cutoff, now, renumber, row) : row \in KeptRow(v, cutoff, now)}
<1>1. BuiltOf(snap, dicts, rows)
  BY MergedIs
<1>2. dicts \in [Dims -> Dict] /\ \A d \in Dims : DictOK(dicts[d])
  BY MergedDictsOK
<1>3. ASSUME NEW row \in KeptRow(v, cutoff, now) PROVE Renumbered(v, cutoff, now, renumber, row).upd > 0
  <2>1. IsRenumbered(v, cutoff, now, remap(v, cutoff, now, renumber, dicts), dicts, row,
                     Renumbered(v, cutoff, now, renumber, row))
    BY RenumberedRow
  <2>2. row.upd > 0
    BY DEF KeptRow, KeptBase, KeptDelta, Stamped
  <2> QED BY <2>1, <2>2 DEF IsRenumbered
<1>4. \A x \in rows : x.upd > 0
  BY <1>3
<1> HIDE DEF dicts, rows
<1>5. GoodSnap(snap) /\ snap.dicts = dicts /\ {snap.rows[r] : r \in DOMAIN snap.rows} = rows
  BY <1>1, <1>2, <1>4, BuiltHas
<1> QED BY <1>5 DEF MergeSnap, dicts, rows

LEMMA CompactBuilds ==
    ASSUME ColumnInv, NEW cutoff, NEW t, NEW renumber \in BOOLEAN, Compact(cutoff, t, renumber)
    PROVE  /\ ~MergeOverflows(Deref(heap, view), cutoff, t, renumber)
           /\ \E snap : SnapBuilt(snap) /\ MergeSnap(Deref(heap, view), cutoff, t, renumber, snap)
<1> DEFINE v == Deref(heap, view)
<1>1. PICK snap \in zipMerge(v, cutoff, t, renumber) : Build(snap, Shared(renumber))
  BY DEF Compact
<1>2. /\ RepOK(v) /\ Stamped(v)
      /\ v.base.dicts = [d \in Dims |-> heap[d][view.base.dicts[d]]]
      /\ v.extras = [d \in Dims |-> heap[d][view.extras[d]]]
      /\ \A d \in Dims : view.base.dicts[d] = BaseRef /\ view.extras[d] = ExtrasRef
  BY DerefIs DEF ColumnInv, GoodView, Base, Everywhere
<1>3. ~MergeOverflows(v, cutoff, t, renumber)
  BY DEF Compact
<1> HIDE DEF v
<1>4. MergeSnap(v, cutoff, t, renumber, snap)
  BY <1>1, <1>2, MergeSnapIs
<1>5. ASSUME NEW d \in Dims, d \in Shared(renumber) PROVE snap.dicts[d] = heap[d][BaseRef]
  <2>1. ~renumber /\ heap[d][ExtrasRef] = <<>>
    BY <1>5 DEF Shared
  <2>2. snap.dicts[d] = Extended(v, d)
    BY <1>4, <2>1 DEF MergeSnap, mergedDicts
  <2> DEFINE b == v.base.dicts[d]
             x == Extended(v, d)
  <2>3. b = heap[d][BaseRef] /\ v.extras[d] = <<>>
    BY <1>2, <2>1
  <2>4. DictPair(v, d)
    BY <1>2 DEF RepOK
  <2>5. b \in Seq(Spellings) /\ idSpace(v, d) = Len(b)
    BY <2>3, <2>4 DEF DictPair, idSpace
  <2>6. DictOK(x) /\ Len(x) = idSpace(v, d) /\ \A id \in 0 .. idSpace(v, d) - 1 : x[id + 1] = dimString(v, d, id)
    BY <2>4, ExtendedIs DEF ExtendState
  <2>7. \A id \in 0 .. Len(b) - 1 : dimString(v, d, id) = b[id + 1]
    <3>1. Len(b) \in Nat
      BY <2>5
    <3>2. \A id : dimString(v, d, id) = IF id < Len(b) THEN b[id + 1] ELSE v.extras[d][(id - Len(b)) + 1]
      BY DEF dimString
    <3> HIDE DEF b
    <3> QED BY <3>1, <3>2
  <2> HIDE DEF b, x
  <2>8. ASSUME NEW i \in 1 .. Len(b) PROVE x[i] = b[i]
    <3>1. i - 1 \in 0 .. Len(b) - 1 /\ (i - 1) + 1 = i
      BY <2>5
    <3> QED BY <2>5, <2>6, <2>7, <3>1
  <2>9. x = b
    BY <2>5, <2>6, <2>8 DEF DictOK
  <2> QED BY <2>2, <2>3, <2>9 DEF x
<1>6. GoodSnap(snap)
  BY <1>4 DEF MergeSnap
<1>7. SnapBuilt(snap)
  BY <1>1, <1>5, <1>6, BuildOfSnap
<1> QED BY <1>3, <1>4, <1>7 DEF v

\* The records of a dump that are kept.
KeptRecs(recs, cutoff) == Pick(recs, {i \in DOMAIN recs : ~Aged(recs[i], cutoff)})

\* kept are the records of recs that are not aged, and they are good.
IsKept(recs, N, cutoff, kept, M) ==
    /\ GoodRecs(kept, M)
    /\ \A x \in 1 .. M : \E i \in 1 .. N : ~Aged(recs[i], cutoff) /\ kept[x] = recs[i]
    /\ \A i \in 1 .. N : ~Aged(recs[i], cutoff) => \E x \in 1 .. M : kept[x] = recs[i]
    /\ \A x \in 1 .. M : kept[x].upd > 0

LEMMA KeptIs ==
    ASSUME NEW N \in Nat, NEW recs \in [1 .. N -> Inputs], NEW cutoff \in Nat,
           \A i \in DOMAIN recs : ~Rejected(recs[i], cutoff)
    PROVE  IsKept(recs, N, cutoff, KeptRecs(recs, cutoff), Len(KeptRecs(recs, cutoff)))
<1> DEFINE S == {i \in DOMAIN recs : ~Aged(recs[i], cutoff)}
           k == KeptRecs(recs, cutoff)
           M == Len(k)
<1>1. DOMAIN recs = 1 .. N /\ \A i \in 1 .. N : recs[i] \in Record /\ recs[i].upd # 0
  BY InputIs
<1>2. k \in Seq(Range(recs))
  BY <1>1, PickOrder DEF KeptRecs
<1>3. PICK at : Picked(at, recs, S, N, k)
  BY <1>1, PickOrder DEF KeptRecs
<1> HIDE DEF k
<1>4. /\ DOMAIN k = 1 .. M /\ M \in Nat
      /\ \A x \in 1 .. M : at[x] \in S \cap (1 .. N) /\ k[x] = recs[at[x]]
      /\ \A i \in S \cap (1 .. N) : \E x \in 1 .. M : at[x] = i
  <2>1. DOMAIN k = 1 .. M /\ M \in Nat
    BY <1>2
  <2> QED BY <1>3, <2>1 DEF Picked
<1>5. ASSUME NEW x \in 1 .. M
      PROVE  /\ k[x] \in Record /\ k[x].upd > 0 /\ Resolve(k[x]) \in Tuple
             /\ at[x] \in 1 .. N /\ ~Aged(recs[at[x]], cutoff) /\ k[x] = recs[at[x]]
  <2> DEFINE r == recs[at[x]]
  <2>1. at[x] \in 1 .. N /\ ~Aged(r, cutoff) /\ k[x] = r
    BY <1>4
  <2>2. r \in Record /\ r.upd # 0 /\ ~Rejected(r, cutoff)
    BY <1>1, <2>1
  <2> HIDE DEF r
  <2>3. r.upd \in Int
    BY <2>2, TimeAssumption DEF Record, Time
  <2>4. r.upd > 0
    BY <2>1, <2>2, <2>3 DEF Aged
  <2>5. Parses(r)
    BY <2>1, <2>2 DEF Rejected
  <2>6. Resolved(Resolve(r)) /\ (\A d \in Dims : Resolve(r)[d] # NonInt) /\ Resolve(r) = [d \in Dims |-> Resolve(r)[d]]
    BY <2>2, <2>5, ResolveIs
  <2>7. Resolve(r) \in Tuple
    BY <2>6 DEF Resolved, Tuple
  <2> QED BY <2>1, <2>2, <2>4, <2>7 DEF r
<1>6. GoodRecs(k, M)
  BY <1>4, <1>5 DEF GoodRecs
<1>7. ASSUME NEW i \in 1 .. N, ~Aged(recs[i], cutoff) PROVE \E x \in 1 .. M : k[x] = recs[i]
  <2>1. i \in S \cap (1 .. N)
    BY <1>1, <1>7
  <2> QED BY <1>4, <2>1
<1>8. \A x \in 1 .. M : \E i \in 1 .. N : ~Aged(recs[i], cutoff) /\ k[x] = recs[i]
  BY <1>5
<1> QED BY <1>5, <1>6, <1>7, <1>8 DEF IsKept, k

\* The snapshot of a dump of kept, and the rows it has.
DumpSnap(kept, M, now, snap) ==
    /\ GoodSnap(snap) /\ snap.dicts = builtDicts(kept)
    /\ \E e : IsDump(e, kept, M) /\ {snap.rows[r] : r \in DOMAIN snap.rows} = DumpRows(e, now)

LEMMA BuiltDictsOK ==
    ASSUME NEW kept, NEW M, GoodRecs(kept, M)
    PROVE  builtDicts(kept) \in [Dims -> Dict] /\ \A d \in Dims : DictOK(builtDicts(kept)[d])
<1>1. ASSUME NEW d \in Dims PROVE DictOK(builtDicts(kept)[d])
  <2>1. M \in Nat /\ DOMAIN kept = 1 .. M /\ \A i \in 1 .. M : Resolve(kept[i])[d] \in Spellings
    BY DEF GoodRecs, Tuple
  <2> QED BY <2>1, BuiltDictsIs
<1>2. builtDicts(kept) = [d \in Dims |-> builtDicts(kept)[d]]
  BY DEF builtDicts
<1> QED BY <1>1, <1>2 DEF DictOK, Dict

LEMMA DumpSnapIs ==
    ASSUME NEW kept, NEW M, GoodRecs(kept, M), \A x \in 1 .. M : kept[x].upd > 0, NEW now,
           NEW snap \in buildColumns(kept, now)
    PROVE  DumpSnap(kept, M, now, snap)
<1>1. PICK e : IsDump(e, kept, M) /\ BuiltOf(snap, builtDicts(kept), DumpRows(e, now))
  BY BuiltIs
<1>2. builtDicts(kept) \in [Dims -> Dict] /\ \A d \in Dims : DictOK(builtDicts(kept)[d])
  BY BuiltDictsOK
<1>3. ASSUME NEW i \in 1 .. M PROVE e[i].row.upd > 0
  <2>1. PICK j \in 1 .. M : e[i] = builtEntries(kept)[j]
    BY <1>1 DEF IsDump
  <2>2. DOMAIN kept = 1 .. M
    BY DEF GoodRecs
  <2>3. e[i].row = newRow(idsOf(builtDicts(kept), kept[j]), kept[j])
    BY <2>1, <2>2 DEF builtEntries, entry
  <2> QED BY <2>3 DEF newRow
<1>4. DOMAIN e = 1 .. M
  BY <1>1 DEF IsDump, DumpSorted
<1>5. \A row \in DumpRows(e, now) : row.upd > 0
  BY <1>3, <1>4 DEF DumpRows, Firsts
<1>6. GoodSnap(snap) /\ snap.dicts = builtDicts(kept) /\ {snap.rows[r] : r \in DOMAIN snap.rows} = DumpRows(e, now)
  BY <1>1, <1>2, <1>5, BuiltHas
<1> QED BY <1>1, <1>6 DEF DumpSnap

LEMMA ReplaceBuilds ==
    ASSUME ColumnInv, NEW N \in Nat, NEW recs \in [1 .. N -> Inputs], NEW cutoff \in Nat, NEW t,
           Replace(recs, cutoff, t)
    PROVE  LET kept == KeptRecs(recs, cutoff)
           IN  /\ \A i \in DOMAIN recs : ~Rejected(recs[i], cutoff)
               /\ ~BuildOverflows(kept)
               /\ IsKept(recs, N, cutoff, kept, Len(kept))
               /\ \E snap : SnapBuilt(snap) /\ DumpSnap(kept, Len(kept), t, snap)
<1> DEFINE kept == KeptRecs(recs, cutoff)
<1>1. /\ \A i \in DOMAIN recs : ~Rejected(recs[i], cutoff)
      /\ ~BuildOverflows(kept)
      /\ \E snap \in buildColumns(kept, t) : Build(snap, {})
  BY DEF Replace, KeptRecs
<1>2. PICK snap \in buildColumns(kept, t) : Build(snap, {})
  BY <1>1
<1>3. IsKept(recs, N, cutoff, kept, Len(kept))
  BY <1>1, KeptIs
<1> HIDE DEF kept
<1>4. DumpSnap(kept, Len(kept), t, snap)
  BY <1>3, <1>2, DumpSnapIs DEF IsKept
<1>5. GoodSnap(snap)
  BY <1>4 DEF DumpSnap
<1>6. SnapBuilt(snap)
  BY <1>2, <1>5, BuildOfSnap
<1> QED BY <1>1, <1>3, <1>4, <1>6 DEF kept

\* Publishing changes addresses, not what they hold.
LEMMA PublishIs ==
    ASSUME ColumnInv, Publish
    PROVE  /\ ColumnInv' /\ built' = {}
           /\ \E v \in built : Deref(heap', view') = Deref(heap, v)
<1> USE DEF BaseRef, ExtrasRef, Refs
<1>1. PICK v \in built :
        /\ heap' = [d \in Dims |-> <<heap[d][v.base.dicts[d]], heap[d][v.extras[d]], <<>>, <<>>>>]
        /\ view' = [v EXCEPT !.base.dicts = Everywhere(BaseRef), !.extras = Everywhere(ExtrasRef)]
        /\ built' = {}
  BY DEF Publish
<1>2. heap \in Heaps /\ v \in ColView(Refs) /\ RepOK(Deref(heap, v)) /\ Stamped(Deref(heap, v))
  BY DEF ColumnInv, GoodView
<1>3. v.base \in SnapRec(Refs) /\ v.base.dicts \in [Dims -> Refs] /\ v.extras \in [Dims -> Refs]
  BY <1>2 DEF ColView, SnapRec
<1> DEFINE one == Everywhere(BaseRef)
           two == Everywhere(ExtrasRef)
           nb == [v.base EXCEPT !.dicts = one]
           w == [v EXCEPT !.base = nb, !.extras = two]
<1>4. view' = w
  BY <1>1
<1>5. one \in [Dims -> Refs] /\ two \in [Dims -> Refs] /\ \A d \in Dims : one[d] = BaseRef /\ two[d] = ExtrasRef
  BY DEF Everywhere
<1> HIDE DEF one, two
<1>6. /\ nb \in SnapRec(Refs) /\ nb.dicts = one /\ nb.shifts = v.base.shifts /\ nb.rows = v.base.rows
      /\ nb.keys = v.base.keys /\ nb.maxUpdated = v.base.maxUpdated /\ nb.minUpdated = v.base.minUpdated
      /\ nb.minExpire = v.base.minExpire
  BY <1>3, <1>5 DEF SnapRec
<1> HIDE DEF nb
<1>7. /\ w \in ColView(Refs) /\ w.base = nb /\ w.extras = two /\ w.overridden = v.overridden /\ w.delta = v.delta
  BY <1>2, <1>5, <1>6 DEF ColView
<1> HIDE DEF w
<1>8. ASSUME NEW d \in Dims
      PROVE  /\ heap'[d] \in [Refs -> Dict]
             /\ heap'[d][BaseRef] = heap[d][v.base.dicts[d]] /\ heap'[d][ExtrasRef] = heap[d][v.extras[d]]
  <2>1. heap[d] \in [Refs -> Dict] /\ v.base.dicts[d] \in Refs /\ v.extras[d] \in Refs
    BY <1>2, <1>3 DEF Heaps
  <2>2. heap[d][v.base.dicts[d]] \in Dict /\ heap[d][v.extras[d]] \in Dict /\ <<>> \in Dict
    BY <2>1 DEF Dict
  <2>3. heap'[d] = <<heap[d][v.base.dicts[d]], heap[d][v.extras[d]], <<>>, <<>>>>
    BY <1>1
  <2> QED BY <2>2, <2>3
<1>9. heap' \in Heaps
  BY <1>1, <1>8 DEF Heaps
<1> DEFINE x == Deref(heap', w)
           y == Deref(heap, v)
<1>10. /\ x \in ColView(Dict) /\ x.overridden = w.overridden /\ x.delta = w.delta
       /\ x.extras = [d \in Dims |-> heap'[d][w.extras[d]]]
       /\ x.base.dicts = [d \in Dims |-> heap'[d][w.base.dicts[d]]]
       /\ x.base.rows = w.base.rows /\ x.base.keys = w.base.keys /\ x.base.shifts = w.base.shifts
       /\ x.base.maxUpdated = w.base.maxUpdated /\ x.base.minUpdated = w.base.minUpdated
       /\ x.base.minExpire = w.base.minExpire
  BY <1>7, <1>9, DerefIs
<1>11. /\ y \in ColView(Dict) /\ y.overridden = v.overridden /\ y.delta = v.delta
       /\ y.extras = [d \in Dims |-> heap[d][v.extras[d]]]
       /\ y.base.dicts = [d \in Dims |-> heap[d][v.base.dicts[d]]]
       /\ y.base.rows = v.base.rows /\ y.base.keys = v.base.keys /\ y.base.shifts = v.base.shifts
       /\ y.base.maxUpdated = v.base.maxUpdated /\ y.base.minUpdated = v.base.minUpdated
       /\ y.base.minExpire = v.base.minExpire
  BY <1>2, DerefIs
<1> HIDE DEF x, y
<1>12. x.extras = y.extras /\ x.base.dicts = y.base.dicts
  BY <1>5, <1>6, <1>7, <1>8, <1>10, <1>11
<1>13. x.base = y.base
  <2>1. x.base \in SnapRec(Dict) /\ y.base \in SnapRec(Dict)
    BY <1>10, <1>11 DEF ColView
  <2>2. /\ x.base.rows = y.base.rows /\ x.base.keys = y.base.keys /\ x.base.shifts = y.base.shifts
        /\ x.base.maxUpdated = y.base.maxUpdated /\ x.base.minUpdated = y.base.minUpdated
        /\ x.base.minExpire = y.base.minExpire
    BY <1>6, <1>7, <1>10, <1>11
  <2> QED BY <1>12, <2>1, <2>2, SnapEqual
<1>14. x = y
  BY <1>7, <1>10, <1>11, <1>12, <1>13, ViewEqual
<1>15. Deref(heap', view') = Deref(heap, v)
  BY <1>4, <1>14 DEF x, y
<1>16. GoodView(heap', view')
  BY <1>2, <1>4, <1>7, <1>15 DEF GoodView
<1>17. Base'
  BY <1>4, <1>6, <1>7 DEF Base, one, two
<1>18. ColumnInv'
  BY <1>1, <1>9, <1>16, <1>17 DEF ColumnInv, GoodView
<1> QED BY <1>1, <1>15, <1>18

\* New publishes a right, empty view.
LEMMA EmptyBuilt == BuiltOf(emptyColumns, NoExtras, {})
<1>1. EntriesOK(NoExtras, <<>>)
  BY DEF EntriesOK, KeysAscend, IdsDiffer
<1>2. emptyColumns = NewColumns(NoExtras, <<>>)
  BY DEF emptyColumns, NoExtras
<1>3. {<<>>[i].row : i \in DOMAIN <<>>} = {}
  OBVIOUS
<1> QED BY <1>1, <1>2, <1>3 DEF BuiltOf

LEMMA EmptySnap == GoodSnap(emptyColumns) /\ emptyColumns.dicts = NoExtras
                   /\ {emptyColumns.rows[r] : r \in DOMAIN emptyColumns.rows} = {}
<1>1. NoExtras \in [Dims -> Dict] /\ \A d \in Dims : DictOK(NoExtras[d])
  BY DEF NoExtras, Dict, DictOK, IsInjective
<1> DEFINE R == {}
<1>2. (\A row \in R : row.upd > 0) /\ BuiltOf(emptyColumns, NoExtras, R)
  BY EmptyBuilt
<1> HIDE DEF R
<1>3. GoodSnap(emptyColumns) /\ emptyColumns.dicts = NoExtras
      /\ {emptyColumns.rows[r] : r \in DOMAIN emptyColumns.rows} = R
  BY <1>1, <1>2, BuiltHas
<1> QED BY <1>3 DEF R

LEMMA InitOK ==
    ASSUME Init
    PROVE  ColumnInv /\ built = {} /\ Deref(heap, view) = newColumnView(emptyColumns, NoExtras)
<1> USE DEF BaseRef, ExtrasRef, Refs
<1> DEFINE one == Everywhere(BaseRef)
           two == Everywhere(ExtrasRef)
           sb == [emptyColumns EXCEPT !.dicts = one]
           D == [rows |-> <<>>, maxUpdated |-> 0, hasExpiry |-> FALSE]
<1>1. /\ heap = [d \in Dims |-> <<<<>>, <<>>, <<>>, <<>>>>]
      /\ view = newColumnView(sb, two) /\ built = {}
  BY DEF Init
<1>2. heap \in Heaps /\ \A d \in Dims : heap[d][BaseRef] = <<>> /\ heap[d][ExtrasRef] = <<>>
  <2>1. ASSUME NEW d \in Dims
        PROVE  heap[d] \in [Refs -> Dict] /\ heap[d][BaseRef] = <<>> /\ heap[d][ExtrasRef] = <<>>
    <3>1. heap[d] = <<<<>>, <<>>, <<>>, <<>>>> /\ <<>> \in Dict
      BY <1>1 DEF Dict
    <3> QED BY <3>1
  <2> QED BY <1>1, <2>1 DEF Heaps
<1>3. emptyColumns \in SnapRec(Dict) /\ emptyColumns.dicts = NoExtras
  BY EmptySnap DEF GoodSnap
<1>4. one \in [Dims -> Refs] /\ two \in [Dims -> Refs] /\ \A d \in Dims : one[d] = BaseRef /\ two[d] = ExtrasRef
  BY DEF Everywhere
<1> HIDE DEF one, two
<1>5. /\ sb \in SnapRec(Refs) /\ sb.dicts = one /\ sb.shifts = emptyColumns.shifts
      /\ sb.rows = emptyColumns.rows /\ sb.keys = emptyColumns.keys
      /\ sb.maxUpdated = emptyColumns.maxUpdated /\ sb.minUpdated = emptyColumns.minUpdated
      /\ sb.minExpire = emptyColumns.minExpire
  BY <1>3, <1>4 DEF SnapRec
<1> HIDE DEF sb
<1>6. D \in DeltaRec
  BY TimeAssumption DEF DeltaRec, Time
<1>7. /\ view = [base |-> sb, extras |-> two, overridden |-> {}, delta |-> D]
      /\ view.base = sb /\ view.extras = two /\ view.overridden = {} /\ view.delta = D
  BY <1>1 DEF newColumnView
<1> HIDE DEF D
<1>8. view \in ColView(Refs)
  BY <1>4, <1>5, <1>6, <1>7 DEF ColView
<1> DEFINE x == Deref(heap, view)
           y == newColumnView(emptyColumns, NoExtras)
<1>9. /\ x \in ColView(Dict) /\ x.overridden = view.overridden /\ x.delta = view.delta
      /\ x.extras = [d \in Dims |-> heap[d][view.extras[d]]]
      /\ x.base.dicts = [d \in Dims |-> heap[d][view.base.dicts[d]]]
      /\ x.base.rows = view.base.rows /\ x.base.keys = view.base.keys /\ x.base.shifts = view.base.shifts
      /\ x.base.maxUpdated = view.base.maxUpdated /\ x.base.minUpdated = view.base.minUpdated
      /\ x.base.minExpire = view.base.minExpire
  BY <1>2, <1>8, DerefIs
<1>10. IsNewView(emptyColumns, y)
  BY EmptySnap, NewColumnViewOK
<1> HIDE DEF x, y
<1>11. /\ y \in ColView(Dict) /\ y.base = emptyColumns /\ y.extras = NoExtras /\ y.overridden = {} /\ y.delta = D
       /\ RepOK(y) /\ Stamped(y)
  BY <1>10 DEF IsNewView, D
<1>12. x.base.dicts = NoExtras /\ x.extras = NoExtras
  BY <1>2, <1>4, <1>5, <1>7, <1>9 DEF NoExtras
<1>13. x.base = emptyColumns
  <2>1. x.base \in SnapRec(Dict)
    BY <1>9 DEF ColView
  <2>2. /\ x.base.rows = emptyColumns.rows /\ x.base.keys = emptyColumns.keys
        /\ x.base.shifts = emptyColumns.shifts /\ x.base.maxUpdated = emptyColumns.maxUpdated
        /\ x.base.minUpdated = emptyColumns.minUpdated /\ x.base.minExpire = emptyColumns.minExpire
    BY <1>5, <1>7, <1>9
  <2> QED BY <1>3, <1>12, <2>1, <2>2, SnapEqual
<1>14. x = y
  BY <1>7, <1>9, <1>11, <1>12, <1>13, ViewEqual
<1>15. GoodView(heap, view)
  BY <1>8, <1>11, <1>14 DEF GoodView, x
<1>16. Base
  BY <1>5, <1>7 DEF Base, one, two
<1> QED BY <1>1, <1>2, <1>14, <1>15, <1>16 DEF ColumnInv, x, y

\* A call builds a view and leaves the published one alone.
LEMMA CallKeeps ==
    ASSUME ColumnInv, Call
    PROVE  ColumnInv' /\ SamePublished(heap', heap) /\ view' = view
<1>1. PICK cutoff \in Table!Cutoffs :
         \/ \E recs \in Table!Batches, blocked \in BOOLEAN : Apply(recs, cutoff, blocked)
         \/ \E t \in Clocks, renumber \in BOOLEAN : Compact(cutoff, t, renumber)
         \/ \E recs \in Table!Dumps, t \in Clocks : Replace(recs, cutoff, t)
  BY DEF Call
<1>2. cutoff \in Nat
  BY CutoffNat
<1>3. ASSUME NEW recs \in Table!Batches, NEW blocked \in BOOLEAN, Apply(recs, cutoff, blocked)
      PROVE  ColumnInv' /\ SamePublished(heap', heap) /\ view' = view
  <2>1. PICK n \in 1 .. MaxApply : recs \in [1 .. n -> Inputs]
    BY DEF Table!Batches
  <2>2. n \in Nat
    BY <2>1, ClockAssumption
  <2> QED BY <1>2, <1>3, <2>1, <2>2, ApplyBuilds DEF BatchBuilt
<1>4. ASSUME NEW t \in Clocks, NEW renumber \in BOOLEAN, Compact(cutoff, t, renumber)
      PROVE  ColumnInv' /\ SamePublished(heap', heap) /\ view' = view
  BY <1>4, CompactBuilds DEF SnapBuilt
<1>5. ASSUME NEW recs \in Table!Dumps, NEW t \in Clocks, Replace(recs, cutoff, t)
      PROVE  ColumnInv' /\ SamePublished(heap', heap) /\ view' = view
  <2>1. PICK n \in 0 .. MaxReplace : recs \in [1 .. n -> Inputs]
    BY DEF Table!Dumps
  <2>2. n \in Nat
    BY <2>1, ClockAssumption
  <2> QED BY <1>2, <1>5, <2>1, <2>2, ReplaceBuilds DEF SnapBuilt
<1> QED BY <1>1, <1>3, <1>4, <1>5

LEMMA StepKeeps ==
    ASSUME ColumnInv, [Next]_vars
    PROVE  ColumnInv'
<1>1. CASE Call
  BY <1>1, CallKeeps
<1>2. CASE Publish
  BY <1>2, PublishIs
<1>3. CASE UNCHANGED vars
  BY <1>3 DEF vars, ColumnInv, GoodView, Base
<1> QED BY <1>1, <1>2, <1>3 DEF Next

\* The published columns and those of a call under way are well formed in every
\* state: dictionaries hold each value once, the delta has one row per tuple and
\* overrides exactly the base rows of its tuples (view.go, snapshot.go).
THEOREM ColumnInvariant == Spec => []ColumnInv
<1>1. Init => ColumnInv
  BY InitOK
<1>2. ColumnInv /\ [Next]_vars => ColumnInv'
  BY StepKeeps
<1> QED BY <1>1, <1>2, PTL DEF Spec

\* For every schema and every sequence of calls a published view is what a query
\* relies on: one id per value, keys ascending and each its row's, ids within
\* their fields of the key, the binary search of the base finds exactly the row
\* it is asked for, the delta overrides exactly the base rows it replaces, and no
\* row expires that minExpire and hasExpiry do not announce (ColumnsOK).  This is
\* what QueryCalls assumes of the views a query may get (ViewsAssumption).
THEOREM ColumnsAlwaysOK == Spec => []ColumnsOK
<1>1. ASSUME ColumnInv PROVE ColumnsOK
  <2> DEFINE v == Deref(heap, view)
             s == v.base
  <2>1. RepOK(v)
    BY <1>1 DEF ColumnInv, GoodView
  <2> HIDE DEF v
  <2>2. DictsOK(v)
    BY <2>1 DEF RepOK, DictPair, DictsOK
  <2>3. SnapOK(s)
    BY <2>1 DEF RepOK
  <2> HIDE DEF s
  <2>4. /\ s.shifts = computeShifts(s.dicts)
        /\ s.rows \in Seq(ColRow) /\ s.keys \in Seq(Nat) /\ Len(s.keys) = Len(s.rows)
        /\ DOMAIN s.rows = 1 .. Len(s.rows) /\ Len(s.rows) \in Nat
        /\ \A q, r \in DOMAIN s.rows : q <= r => s.keys[q] <= s.keys[r]
        /\ \A q, r \in DOMAIN s.rows : q # r => s.rows[q].ids # s.rows[r].ids
    BY <2>3 DEF SnapOK
  <2>5. IsSorted(s.keys, <=)
    <3>1. ASSUME NEW i \in 1 .. Len(s.keys), NEW j \in 1 .. Len(s.keys), i < j PROVE s.keys[i] <= s.keys[j]
      <4>1. i \in DOMAIN s.rows /\ j \in DOMAIN s.rows /\ i <= j
        BY <2>4, <3>1
      <4> QED BY <2>4, <4>1
    <3> QED BY <3>1 DEF IsSorted
  <2>6. ASSUME NEW r \in DOMAIN s.rows
        PROVE  /\ s.keys[r] = packKey(s.shifts, s.rows[r].ids)
               /\ \A i \in Prefix : s.rows[r].ids[DimOrder[i]] < 2^dictWidth(s.dicts, i)
               /\ findRowIn(s, s.rows[r].ids) = {r}
    <3>1. s.keys[r] = packKey(s.shifts, s.rows[r].ids) /\ IdsIn(s.dicts, s.rows[r].ids) /\ WidthsOf(s.dicts)
      BY <2>3 DEF SnapOK, WidthsOf, DictOK
    <3>2. s.rows[r].ids \in [Dims -> Nat]
      <4>1. s.rows[r] \in ColRow
        BY <2>4
      <4> QED BY <4>1 DEF ColRow
    <3>3. Fits(s.dicts, s.rows[r].ids)
      BY <3>1, <3>2, IdsFit
    <3>4. \A i \in Prefix : s.rows[r].ids[DimOrder[i]] < 2^dictWidth(s.dicts, i)
      <4>1. ASSUME NEW i \in Prefix PROVE s.rows[r].ids[DimOrder[i]] < 2^dictWidth(s.dicts, i)
        <5>1. dictWidth(s.dicts, i) \in Nat
          BY <3>1, WidthNat
        <5>2. 2^dictWidth(s.dicts, i) \in Nat
          BY <5>1, PowNat
        <5> QED BY <3>3, <5>2 DEF Fits
      <4> QED BY <4>1
    <3>5. findRowIn(s, s.rows[r].ids) = {q \in DOMAIN s.rows : s.rows[q].ids = s.rows[r].ids}
      BY <2>3, <3>2, FindRowIs
    <3>6. {q \in DOMAIN s.rows : s.rows[q].ids = s.rows[r].ids} = {r}
      BY <2>4
    <3> QED BY <3>1, <3>4, <3>5, <3>6
  <2>7. SortedOK(s)
    BY <2>4, <2>5, <2>6 DEF SortedOK
  <2>8. IdsOK(v)
    BY <2>1, <2>3 DEF IdsOK, RepOK, DeltaRowsOK, SnapOK, IdsIn, s
  <2>9. OverlayOK(v)
    BY <2>1 DEF OverlayOK, RepOK, DeltaRowsOK, OverridesOK
  <2>10. ExpiryOK(v)
    BY <1>1 DEF ColumnInv, GoodView, Stamped, v
  <2>11. IsColumns(v)
    <3>1. v \in ColView(Dict)
      BY <1>1, DerefIs DEF ColumnInv, GoodView, v
    <3>2. v.base.minExpire \in Time
      BY <3>1 DEF ColView, SnapRec
    <3>3. \A d \in Dims : v.base.dicts[d] \in Seq(Spellings) /\ v.extras[d] \in Seq(Spellings)
      BY <2>1 DEF RepOK, DictPair
    <3>4. v.delta.rows \in Seq(ColRow)
      BY <2>1 DEF RepOK, DeltaRowsOK
    <3> QED BY <2>4, <3>2, <3>3, <3>4 DEF IsColumns, ColRow, s
  <2> QED BY <2>2, <2>7, <2>8, <2>9, <2>10, <2>11 DEF ColumnsOK, ReadsRight, v, s
<1> QED BY <1>1, ColumnInvariant, PTL

\* No call, however it ends, changes what the published view holds: a batch
\* writes extras it has cloned, a merge or a dump dictionaries of its own.
THEOREM PublishedNeverChanges == Spec => PublishedFrozen
<1>1. ColumnInv /\ [Next]_vars => [built = {} => Deref(heap', view) = Deref(heap, view)]_vars
  <2>1. SUFFICES ASSUME ColumnInv, [Next]_vars, built = {}, ~UNCHANGED vars
                 PROVE  Deref(heap', view) = Deref(heap, view)
    OBVIOUS
  <2>2. Call
    BY <2>1 DEF Next, Publish
  <2>3. SamePublished(heap', heap) /\ Base
    BY <2>1, <2>2, CallKeeps DEF ColumnInv
  <2> QED BY <2>3, Frozen
<1> QED BY <1>1, ColumnInvariant, PTL DEF Spec, PublishedFrozen

-----------------------------------------------------------------------------
(* Snapshots, seen through the abstraction.                                   *)

\* The row of ids of a snapshot's own dictionaries.
RowOf(dicts, row) ==
    [dims |-> [d \in Dims |-> dicts[d][row.ids[d] + 1]],
     upd |-> row.upd, exp |-> row.exp, met |-> row.met]

RowsOf(s) == {RowOf(s.dicts, s.rows[r]) : r \in DOMAIN s.rows}

RangesOf(dicts) == [d \in Dims |-> Range(dicts[d])]

\* Ids in range name rows of View.
LEMMA RowOfIs ==
    ASSUME NEW dicts, \A d \in Dims : DictOK(dicts[d]), NEW row \in ColRow, IdsIn(dicts, row.ids)
    PROVE  /\ RowOf(dicts, row) \in Row
           /\ \A d \in Dims : RowOf(dicts, row).dims[d] = dicts[d][row.ids[d] + 1]
           /\ RowOf(dicts, row).upd = row.upd /\ RowOf(dicts, row).exp = row.exp
<1>1. ASSUME NEW d \in Dims PROVE dicts[d][row.ids[d] + 1] \in Spellings
  <2>1. row.ids[d] \in Nat /\ row.ids[d] < Len(dicts[d])
    BY DEF ColRow, IdsIn
  <2>2. dicts[d] \in Seq(Spellings)
    BY DEF DictOK
  <2>3. row.ids[d] + 1 \in 1 .. Len(dicts[d])
    BY <2>1, <2>2
  <2> QED BY <2>2, <2>3
<1>2. [d \in Dims |-> dicts[d][row.ids[d] + 1]] \in Tuple
  BY <1>1 DEF Tuple
<1>3. row.upd \in Time /\ row.exp \in Time /\ row.met \in Payloads
  BY DEF ColRow
<1> QED BY <1>2, <1>3 DEF RowOf, Row

\* Rows of one tuple have the same ids.
LEMMA RowOfDims ==
    ASSUME NEW dicts, \A d \in Dims : DictOK(dicts[d]),
           NEW a \in ColRow, IdsIn(dicts, a.ids), NEW b \in ColRow, IdsIn(dicts, b.ids)
    PROVE  RowOf(dicts, a).dims = RowOf(dicts, b).dims <=> a.ids = b.ids
<1>1. a.ids \in [Dims -> Nat] /\ b.ids \in [Dims -> Nat]
  BY DEF ColRow
<1>2. ASSUME RowOf(dicts, a).dims = RowOf(dicts, b).dims, NEW d \in Dims PROVE a.ids[d] = b.ids[d]
  <2> DEFINE s == dicts[d]
             x == a.ids[d]
             y == b.ids[d]
  <2>1. s[x + 1] = s[y + 1]
    BY <1>2, RowOfIs
  <2>2. s \in Seq(Spellings) /\ IsInjective(s)
    BY DEF DictOK
  <2>3. x \in Nat /\ y \in Nat /\ x < Len(s) /\ y < Len(s)
    BY <1>1 DEF IdsIn
  <2> HIDE DEF s, x, y
  <2>4. x + 1 \in DOMAIN s /\ y + 1 \in DOMAIN s
    BY <2>2, <2>3
  <2>5. x + 1 = y + 1
    BY <2>1, <2>2, <2>4 DEF IsInjective
  <2> QED BY <2>3, <2>5 DEF x, y
<1>3. RowOf(dicts, a).dims = RowOf(dicts, b).dims => a.ids = b.ids
  BY <1>1, <1>2
<1>4. a.ids = b.ids => RowOf(dicts, a).dims = RowOf(dicts, b).dims
  BY DEF RowOf
<1> QED BY <1>3, <1>4

\* The scalars of a snapshot are those of the rows it stands for.
LEMMA ScalarsAbs ==
    ASSUME NEW s, GoodSnap(s)
    PROVE  /\ RowsOf(s) \in SUBSET Row
           /\ s.maxUpdated = MaxUpdated(RowsOf(s))
           /\ s.minUpdated = MinUpdated(RowsOf(s))
           /\ s.minExpire = MinExpire(RowsOf(s))
<1> DEFINE R == RowsOf(s)
           n == Len(s.rows)
<1>1. /\ \A d \in Dims : DictOK(s.dicts[d])
      /\ DOMAIN s.rows = 1 .. n /\ n \in Nat
      /\ \A r \in 1 .. n : s.rows[r] \in ColRow /\ IdsIn(s.dicts, s.rows[r].ids) /\ s.rows[r].upd > 0
  BY DEF GoodSnap, SnapOK
<1>2. /\ s.maxUpdated \in Time /\ s.minUpdated \in Time /\ s.minExpire \in Time
      /\ ScalarsOK(s.rows, n, s)
  BY DEF GoodSnap, SnapRec
<1> HIDE DEF n
<1>3. R = {RowOf(s.dicts, s.rows[r]) : r \in 1 .. n}
  BY <1>1 DEF RowsOf
<1> HIDE DEF R
<1>4. \A r \in 1 .. n : /\ RowOf(s.dicts, s.rows[r]) \in Row
                        /\ RowOf(s.dicts, s.rows[r]).upd = s.rows[r].upd
                        /\ RowOf(s.dicts, s.rows[r]).exp = s.rows[r].exp
  BY <1>1, RowOfIs
<1>5. /\ \A x \in R : x \in Row /\ \E r \in 1 .. n : x.upd = s.rows[r].upd /\ x.exp = s.rows[r].exp
      /\ \A r \in 1 .. n : \E x \in R : x.upd = s.rows[r].upd /\ x.exp = s.rows[r].exp
  BY <1>3, <1>4
<1>6. R \in SUBSET Row
  BY <1>5
<1>7. s.maxUpdated \in Int /\ s.minUpdated \in Int /\ s.minExpire \in Int
  BY <1>2, ZeroIsTime
<1>8. s.maxUpdated = MaxUpdated(R)
  <2>1. s.maxUpdated >= 0 /\ (\A x \in R : x.upd <= s.maxUpdated)
        /\ (s.maxUpdated = 0 \/ \E x \in R : x.upd = s.maxUpdated)
    BY <1>2, <1>5 DEF ScalarsOK
  <2> QED BY <1>6, <1>7, <2>1, MaxUpdatedUnique
<1>9. s.minUpdated = MinUpdated(R)
  <2>1. CASE n = 0
    <3>1. R = {}
      BY <1>5, <2>1
    <3> QED BY <1>2, <1>6, <2>1, <3>1, MinUpdatedIs DEF ScalarsOK
  <2>2. CASE n # 0
    <3>1. /\ \A x \in R : s.minUpdated <= x.upd
          /\ \E x \in R : x.upd = s.minUpdated
      BY <1>2, <1>5, <2>2 DEF ScalarsOK
    <3>2. /\ MinUpdated(R) \in Int /\ \A x \in R : MinUpdated(R) <= x.upd
          /\ \E x \in R : x.upd = MinUpdated(R)
      BY <1>6, <3>1, MinUpdatedIs, ZeroIsTime
    <3>3. s.minUpdated <= MinUpdated(R) /\ MinUpdated(R) <= s.minUpdated
      BY <3>1, <3>2
    <3> QED BY <1>7, <3>2, <3>3
  <2> QED BY <2>1, <2>2
<1>10. s.minExpire = MinExpire(R)
  <2>1. /\ \A x \in R : x.exp # 0 => s.minExpire # 0 /\ s.minExpire <= x.exp
        /\ s.minExpire # 0 => \E x \in R : x.exp = s.minExpire
    BY <1>2, <1>5 DEF ScalarsOK
  <2>2. /\ MinExpire(R) \in Int
        /\ \A x \in R : x.exp # 0 => MinExpire(R) # 0 /\ MinExpire(R) <= x.exp
        /\ MinExpire(R) # 0 => \E x \in R : x.exp = MinExpire(R)
    BY <1>6, MinExpireIs, ZeroIsTime
  <2>3. s.minExpire # 0 => MinExpire(R) # 0 /\ MinExpire(R) <= s.minExpire
    BY <2>1, <2>2
  <2>4. MinExpire(R) # 0 => s.minExpire # 0 /\ s.minExpire <= MinExpire(R)
    BY <2>1, <2>2
  <2> QED BY <1>7, <2>2, <2>3, <2>4
<1> QED BY <1>6, <1>8, <1>9, <1>10 DEF R

\* A view of a new snapshot stands for the new view of its rows and values.
LEMMA AbsSnap ==
    ASSUME NEW s, GoodSnap(s)
    PROVE  AbsView(newColumnView(s, NoExtras)) = newView(NewSnapshot(RowsOf(s), RangesOf(s.dicts)))
<1> DEFINE u == newColumnView(s, NoExtras)
<1>1. /\ \A d \in Dims : DictOK(s.dicts[d])
      /\ \A r \in DOMAIN s.rows : s.rows[r] \in ColRow /\ IdsIn(s.dicts, s.rows[r].ids)
  BY DEF GoodSnap, SnapOK
<1>2. /\ u.base = s /\ u.extras = NoExtras /\ u.overridden = {} /\ u.delta.rows = <<>>
      /\ u.delta.maxUpdated = 0 /\ u.delta.hasExpiry = FALSE
  BY DEF newColumnView
<1> HIDE DEF u
<1>3. ASSUME NEW r \in DOMAIN s.rows PROVE AbsRow(u, s.rows[r]) = RowOf(s.dicts, s.rows[r])
  <2> DEFINE row == s.rows[r]
  <2>1. \A d \in Dims : row.ids[d] < Len(s.dicts[d])
    BY <1>1 DEF IdsIn
  <2> HIDE DEF row
  <2>2. \A d \in Dims : dimString(u, d, row.ids[d]) = s.dicts[d][row.ids[d] + 1]
    BY <1>2, <2>1 DEF dimString
  <2> QED BY <2>2 DEF AbsRow, RowOf, row
<1>4. {AbsRow(u, row) : row \in Range(u.base.rows)} = RowsOf(s)
  <2>1. {AbsRow(u, row) : row \in Range(s.rows)} = {AbsRow(u, s.rows[r]) : r \in DOMAIN s.rows}
    BY DEF Range
  <2> QED BY <1>2, <1>3, <2>1 DEF RowsOf
<1>5. /\ {AbsRow(u, row) : row \in Range(u.delta.rows)} = {}
      /\ {AbsRow(u, u.base.rows[r]) : r \in u.overridden} = {}
  BY <1>2 DEF Range
<1>6. [d \in Dims |-> Range(u.extras[d])] = NoValues
  BY <1>2 DEF NoExtras, Range, NoValues
<1>7. [d \in Dims |-> Range(u.base.dicts[d])] = RangesOf(s.dicts)
  BY <1>2 DEF RangesOf
<1>8. AbsView(u) = [base |-> [rows |-> RowsOf(s), dicts |-> RangesOf(s.dicts),
                              maxUpdated |-> s.maxUpdated, minUpdated |-> s.minUpdated,
                              minExpire |-> s.minExpire],
                    delta |-> [rows |-> {}, maxUpdated |-> 0, hasExpiry |-> FALSE],
                    extras |-> NoValues, overridden |-> {}]
  BY <1>2, <1>4, <1>5, <1>6, <1>7 DEF AbsView
<1>9. NewSnapshot(RowsOf(s), RangesOf(s.dicts))
      = [rows |-> RowsOf(s), dicts |-> RangesOf(s.dicts), maxUpdated |-> s.maxUpdated,
         minUpdated |-> s.minUpdated, minExpire |-> s.minExpire]
  BY ScalarsAbs DEF NewSnapshot
<1> QED BY <1>8, <1>9 DEF newView, emptyDelta, u

-----------------------------------------------------------------------------
(* Merges.                                                                    *)

\* Rows of ids a view holds stand for rows of View.
LEMMA ViewRow ==
    ASSUME NEW v, RepOK(v)
    PROVE  /\ \A r \in DOMAIN v.base.rows : InSpace(v, v.base.rows[r].ids) /\ v.base.rows[r] \in ColRow
           /\ \A q \in DOMAIN v.delta.rows : InSpace(v, v.delta.rows[q].ids) /\ v.delta.rows[q] \in ColRow
<1>1. /\ \A r \in DOMAIN v.base.rows : v.base.rows[r] \in ColRow
      /\ \A q \in DOMAIN v.delta.rows : v.delta.rows[q] \in ColRow
  BY BaseRowsHave
<1>2. ASSUME NEW r \in DOMAIN v.base.rows, NEW d \in Dims PROVE v.base.rows[r].ids[d] < idSpace(v, d)
  <2>1. v.base.rows[r].ids[d] \in 0 .. idSpace(v, d) - 1 /\ idSpace(v, d) \in Nat
    BY RowIds, DimStrings DEF RepOK
  <2> QED BY <2>1
<1>3. ASSUME NEW q \in DOMAIN v.delta.rows, NEW d \in Dims PROVE v.delta.rows[q].ids[d] < idSpace(v, d)
  <2>1. v.delta.rows[q].ids[d] \in 0 .. idSpace(v, d) - 1 /\ idSpace(v, d) \in Nat
    BY RowIds, DimStrings DEF RepOK
  <2> QED BY <2>1
<1> QED BY <1>1, <1>2, <1>3 DEF InSpace, ColRow

\* A row stays in View exactly when the merge of the columns keeps it.
LEMMA ReclaimedIs ==
    ASSUME NEW v, NEW row \in ColRow, NEW cutoff \in Nat, NEW now
    PROVE  (AbsRow(v, row).upd >= cutoff /\ ~rowExpired(AbsRow(v, row).exp, now))
           <=> ~Reclaimed(row, cutoff, now)
<1>1. AbsRow(v, row).upd = row.upd /\ AbsRow(v, row).exp = row.exp
  BY DEF AbsRow
<1>2. row.upd \in Int
  BY ZeroIsTime DEF ColRow
<1> QED BY <1>1, <1>2 DEF Reclaimed

AbsKept(v, cutoff, now) == {AbsRow(v, row) : row \in KeptRow(v, cutoff, now)}

\* A base row is overridden exactly when the row it stands for is.
LEMMA OverriddenAbs ==
    ASSUME NEW v, RepOK(v), NEW r \in DOMAIN v.base.rows
    PROVE  AbsRow(v, v.base.rows[r]) \in AbsView(v).overridden <=> r \in v.overridden
<1>1. /\ AbsView(v).overridden = {AbsRow(v, v.base.rows[q]) : q \in v.overridden}
      /\ v.overridden \subseteq DOMAIN v.base.rows
  BY AbsHas DEF AbsParts, RepOK, OverridesOK
<1>2. ASSUME NEW q \in DOMAIN v.base.rows, AbsRow(v, v.base.rows[r]) = AbsRow(v, v.base.rows[q])
      PROVE  q = r
  <2>1. AbsRow(v, v.base.rows[r]).dims = AbsRow(v, v.base.rows[q]).dims
    BY <1>2
  <2>2. InSpace(v, v.base.rows[r].ids) /\ InSpace(v, v.base.rows[q].ids) /\ \A d \in Dims : DictPair(v, d)
    BY ViewRow DEF RepOK
  <2>3. v.base.rows[r].ids = v.base.rows[q].ids
    BY <2>1, <2>2, AbsDims
  <2> QED BY <2>3 DEF RepOK, SnapOK
<1> QED BY <1>1, <1>2

\* The rows a merge keeps stand for the survivors.
LEMMA KeptAbs ==
    ASSUME NEW v, RepOK(v), NEW cutoff \in Nat, NEW now
    PROVE  AbsKept(v, cutoff, now) = Survivors(AbsView(v), cutoff, now)
<1> DEFINE A == AbsView(v)
           S == Survivors(A, cutoff, now)
           K == AbsKept(v, cutoff, now)
           unaged(x) == x.upd >= cutoff /\ ~rowExpired(x.exp, now)
<1>1. /\ A.base.rows = {AbsRow(v, v.base.rows[r]) : r \in DOMAIN v.base.rows}
      /\ A.delta.rows = {AbsRow(v, v.delta.rows[r]) : r \in DOMAIN v.delta.rows}
  BY AbsHas DEF AbsParts
<1>2. \A x : x \in S <=> ((x \in A.base.rows /\ x \notin A.overridden) \/ x \in A.delta.rows) /\ unaged(x)
  BY DEF Survivors, Survive, Logical
<1>3. \A r \in DOMAIN v.base.rows : /\ AbsRow(v, v.base.rows[r]) \in A.overridden <=> r \in v.overridden
                                    /\ unaged(AbsRow(v, v.base.rows[r])) <=> ~Reclaimed(v.base.rows[r], cutoff, now)
  BY OverriddenAbs, ReclaimedIs, ViewRow
<1>4. \A q \in DOMAIN v.delta.rows : unaged(AbsRow(v, v.delta.rows[q])) <=> ~Reclaimed(v.delta.rows[q], cutoff, now)
  BY ReclaimedIs, ViewRow
<1>5. \A x : x \in K <=> \/ \E r \in KeptBase(v, cutoff, now) : x = AbsRow(v, v.base.rows[r])
                         \/ \E q \in KeptDelta(v, cutoff, now) : x = AbsRow(v, v.delta.rows[q])
  BY DEF AbsKept, KeptRow
<1> HIDE DEF A, S, K, unaged
<1>6. ASSUME NEW x \in K PROVE x \in S
  <2>1. ASSUME NEW r \in KeptBase(v, cutoff, now), x = AbsRow(v, v.base.rows[r]) PROVE x \in S
    <3>1. r \in DOMAIN v.base.rows /\ r \notin v.overridden /\ ~Reclaimed(v.base.rows[r], cutoff, now)
      BY DEF KeptBase
    <3> QED BY <1>1, <1>2, <1>3, <2>1, <3>1
  <2>2. ASSUME NEW q \in KeptDelta(v, cutoff, now), x = AbsRow(v, v.delta.rows[q]) PROVE x \in S
    <3>1. q \in DOMAIN v.delta.rows /\ ~Reclaimed(v.delta.rows[q], cutoff, now)
      BY DEF KeptDelta
    <3> QED BY <1>1, <1>2, <1>4, <2>2, <3>1
  <2> QED BY <1>5, <2>1, <2>2
<1>7. ASSUME NEW x \in S PROVE x \in K
  <2>1. CASE x \in A.base.rows /\ x \notin A.overridden
    <3>1. PICK r \in DOMAIN v.base.rows : x = AbsRow(v, v.base.rows[r])
      BY <1>1, <2>1
    <3>2. r \in KeptBase(v, cutoff, now)
      BY <1>2, <1>3, <2>1, <3>1 DEF KeptBase
    <3> QED BY <1>5, <3>1, <3>2
  <2>2. CASE x \in A.delta.rows
    <3>1. PICK q \in DOMAIN v.delta.rows : x = AbsRow(v, v.delta.rows[q])
      BY <1>1, <2>2
    <3>2. q \in KeptDelta(v, cutoff, now)
      BY <1>2, <1>4, <3>1 DEF KeptDelta
    <3> QED BY <1>5, <3>1, <3>2
  <2> QED BY <1>2, <2>1, <2>2
<1>8. K = S
  BY <1>6, <1>7
<1> QED BY <1>8 DEF A, S, K

\* The rows of the merged snapshot are the survivors: ids change, values do not.
LEMMA MergedRows ==
    ASSUME NEW v, RepOK(v), NEW cutoff \in Nat, NEW now, NEW renumber \in BOOLEAN,
           NEW snap, MergeSnap(v, cutoff, now, renumber, snap)
    PROVE  RowsOf(snap) = AbsKept(v, cutoff, now)
<1> DEFINE dicts == mergedDicts(v, cutoff, now, renumber)
           map == remap(v, cutoff, now, renumber, dicts)
           K == KeptRow(v, cutoff, now)
           new(row) == Renumbered(v, cutoff, now, renumber, row)
<1>1. snap.dicts = dicts /\ {snap.rows[r] : r \in DOMAIN snap.rows} = {new(row) : row \in K}
  BY DEF MergeSnap
<1>2. ASSUME NEW row \in K PROVE RowOf(dicts, new(row)) = AbsRow(v, row)
  <2>1. IsRenumbered(v, cutoff, now, map, dicts, row, new(row))
    BY RenumberedRow
  <2> HIDE DEF new, dicts, map
  <2>2. /\ new(row).upd = row.upd /\ new(row).exp = row.exp /\ new(row).met = row.met
        /\ \A d \in Dims : dicts[d][new(row).ids[d] + 1] = dimString(v, d, row.ids[d])
    BY <2>1 DEF IsRenumbered
  <2> QED BY <2>2 DEF RowOf, AbsRow
<1> HIDE DEF dicts, K, new
<1>3. RowsOf(snap) = {RowOf(dicts, row) : row \in {snap.rows[r] : r \in DOMAIN snap.rows}}
  BY <1>1 DEF RowsOf
<1>4. {RowOf(dicts, row) : row \in {new(x) : x \in K}} = {RowOf(dicts, new(x)) : x \in K}
  OBVIOUS
<1>5. {RowOf(dicts, new(x)) : x \in K} = {AbsRow(v, x) : x \in K}
  BY <1>2
<1> QED BY <1>1, <1>3, <1>4, <1>5 DEF AbsKept, K

\* The dictionary of an id-stable merge.
LEMMA ExtendedAbs ==
    ASSUME NEW v, NEW d, DictPair(v, d)
    PROVE  Range(Extended(v, d)) = Range(v.base.dicts[d]) \cup Range(v.extras[d])
<1> DEFINE n == idSpace(v, d)
           x == Extended(v, d)
           b == v.base.dicts[d]
           e == v.extras[d]
<1>1. DictOK(x) /\ Len(x) = n /\ \A id \in 0 .. n - 1 : x[id + 1] = dimString(v, d, id)
  BY ExtendedIs DEF ExtendState
<1>2. b \in Seq(Spellings) /\ e \in Seq(Spellings) /\ n = Len(b) + Len(e)
  BY DEF DictPair, idSpace
<1>3. /\ Len(b) \in Nat /\ Len(e) \in Nat /\ n \in Nat
      /\ DOMAIN b = 1 .. Len(b) /\ DOMAIN e = 1 .. Len(e)
  <2> HIDE DEF n, b, e
  <2>1. Len(b) \in Nat /\ Len(e) \in Nat /\ DOMAIN b = 1 .. Len(b) /\ DOMAIN e = 1 .. Len(e)
    BY <1>2
  <2> QED BY <1>2, <2>1
<1>4. DOMAIN x = 1 .. n
  <2>1. x \in Seq(Spellings)
    BY <1>1 DEF DictOK
  <2> QED BY <1>1, <2>1
<1>5. \A id : dimString(v, d, id) = IF id < Len(b) THEN b[id + 1] ELSE e[(id - Len(b)) + 1]
  BY DEF dimString
<1> HIDE DEF n, x, b, e
<1>6. /\ \A i \in 1 .. Len(b) : x[i] = b[i]
      /\ \A i \in 1 .. Len(e) : x[Len(b) + i] = e[i]
  <2>1. ASSUME NEW i \in 1 .. Len(b) PROVE x[i] = b[i]
    <3>1. i - 1 \in 0 .. n - 1 /\ (i - 1) + 1 = i /\ i - 1 < Len(b)
      BY <1>2, <1>3
    <3> QED BY <1>1, <1>5, <3>1
  <2>2. ASSUME NEW i \in 1 .. Len(e) PROVE x[Len(b) + i] = e[i]
    <3> DEFINE id == (Len(b) + i) - 1
    <3>1. id \in 0 .. n - 1 /\ id + 1 = Len(b) + i /\ ~(id < Len(b)) /\ (id - Len(b)) + 1 = i
      BY <1>2, <1>3
    <3> HIDE DEF id
    <3> QED BY <1>1, <1>5, <3>1
  <2> QED BY <2>1, <2>2
<1>7. ASSUME NEW s \in Range(x) PROVE s \in Range(b) \cup Range(e)
  <2>1. PICK i \in 1 .. n : s = x[i]
    BY <1>4 DEF Range
  <2>2. CASE i <= Len(b)
    <3>1. i \in 1 .. Len(b)
      BY <1>3, <2>2
    <3> QED BY <1>3, <1>6, <2>1, <3>1 DEF Range
  <2>3. CASE ~(i <= Len(b))
    <3>1. i - Len(b) \in 1 .. Len(e) /\ Len(b) + (i - Len(b)) = i
      BY <1>2, <1>3, <2>3
    <3> QED BY <1>3, <1>6, <2>1, <3>1 DEF Range
  <2> QED BY <2>2, <2>3
<1>8. ASSUME NEW s \in Range(b) PROVE s \in Range(x)
  <2>1. PICK i \in 1 .. Len(b) : s = b[i]
    BY <1>3 DEF Range
  <2>2. i \in 1 .. n
    BY <1>2, <1>3
  <2> QED BY <1>4, <1>6, <2>1, <2>2 DEF Range
<1>9. ASSUME NEW s \in Range(e) PROVE s \in Range(x)
  <2>1. PICK i \in 1 .. Len(e) : s = e[i]
    BY <1>3 DEF Range
  <2>2. Len(b) + i \in 1 .. n
    BY <1>2, <1>3
  <2> QED BY <1>4, <1>6, <2>1, <2>2 DEF Range
<1>10. Range(x) = Range(b) \cup Range(e)
  BY <1>7, <1>8, <1>9
<1> QED BY <1>10 DEF x, b, e

\* The dictionary of a renumbering merge.
LEMMA CompactedAbs ==
    ASSUME NEW v, RepOK(v), NEW cutoff, NEW now, NEW d \in Dims
    PROVE  Range(Compacted(v, used(v, cutoff, now, d), d)) = {x.dims[d] : x \in AbsKept(v, cutoff, now)}
<1> DEFINE ids == used(v, cutoff, now, d)
           dict == Compacted(v, ids, d)
           n == idSpace(v, d)
           K == KeptRow(v, cutoff, now)
<1>1. CompactState(v, ids, d, n, dict)
  BY CompactedIs DEF RepOK
<1> HIDE DEF dict
<1>2. ids = {row.ids[d] : row \in K}
  BY DEF used, KeptRow
<1>3. \A row \in K : row.ids[d] \in 0 .. n - 1
  BY RowIds DEF KeptRow, KeptBase, KeptDelta
<1> HIDE DEF ids, n, K
<1>4. Range(dict) = {dimString(v, d, id) : id \in ids}
  <2>1. ids \cap (0 .. n - 1) = ids
    BY <1>2, <1>3
  <2>2. /\ \A id \in ids : dimString(v, d, id) \in Range(dict)
        /\ \A i \in DOMAIN dict : \E id \in ids : dict[i] = dimString(v, d, id)
    BY <1>1, <2>1 DEF CompactState
  <2> QED BY <2>2 DEF Range
<1>5. {dimString(v, d, id) : id \in ids} = {dimString(v, d, row.ids[d]) : row \in K}
  BY <1>2
<1>6. \A row \in K : AbsRow(v, row).dims[d] = dimString(v, d, row.ids[d])
  BY DEF AbsRow
<1>7. {x.dims[d] : x \in AbsKept(v, cutoff, now)} = {dimString(v, d, row.ids[d]) : row \in K}
  BY <1>6 DEF AbsKept, K
<1> QED BY <1>4, <1>5, <1>7 DEF dict, ids

\* The dictionaries of a merge stand for those of mergeView.
LEMMA MergedDictsAbs ==
    ASSUME NEW v, RepOK(v), NEW cutoff \in Nat, NEW now, NEW renumber \in BOOLEAN
    PROVE  RangesOf(mergedDicts(v, cutoff, now, renumber))
           = MergedDicts(AbsView(v), Survivors(AbsView(v), cutoff, now), renumber)
<1> DEFINE A == AbsView(v)
           S == Survivors(A, cutoff, now)
<1>1. S = AbsKept(v, cutoff, now)
  BY KeptAbs
<1>2. /\ A.base.dicts = [d \in Dims |-> Range(v.base.dicts[d])]
      /\ A.extras = [d \in Dims |-> Range(v.extras[d])]
  BY AbsHas DEF AbsParts
<1> HIDE DEF A, S
<1>3. CASE renumber
  <2>1. \A d \in Dims : Range(mergedDicts(v, cutoff, now, renumber)[d]) = {x.dims[d] : x \in S}
    BY <1>1, <1>3, CompactedAbs DEF mergedDicts
  <2> QED BY <1>3, <2>1 DEF RangesOf, MergedDicts, ValuesOf, A, S
<1>4. CASE ~renumber
  <2>1. \A d \in Dims : Range(mergedDicts(v, cutoff, now, renumber)[d]) = A.base.dicts[d] \cup A.extras[d]
    BY <1>2, <1>4, ExtendedAbs DEF mergedDicts, RepOK
  <2> QED BY <1>4, <2>1 DEF RangesOf, MergedDicts, A, S
<1> QED BY <1>3, <1>4

\* A merge of the columns is the merge of View, and fits when that does.
MergesTo(A, cutoff, now, renumber, B) ==
    LET m == mergeView(A, cutoff, now, renumber)
    IN  ~KeyOverflow(m.dicts) /\ B = newView(m)

LEMMA MergeAbs ==
    ASSUME NEW v, RepOK(v), NEW cutoff \in Nat, NEW now, NEW renumber \in BOOLEAN,
           ~MergeOverflows(v, cutoff, now, renumber),
           NEW snap, MergeSnap(v, cutoff, now, renumber, snap)
    PROVE  MergesTo(AbsView(v), cutoff, now, renumber, AbsView(newColumnView(snap, NoExtras)))
<1> DEFINE dicts == mergedDicts(v, cutoff, now, renumber)
           S == Survivors(AbsView(v), cutoff, now)
           D == MergedDicts(AbsView(v), S, renumber)
<1>1. GoodSnap(snap) /\ snap.dicts = dicts
  BY DEF MergeSnap
<1>2. RowsOf(snap) = S
  BY MergedRows, KeptAbs
<1>3. RangesOf(dicts) = D
  BY MergedDictsAbs
<1>4. AbsView(newColumnView(snap, NoExtras)) = newView(NewSnapshot(RowsOf(snap), RangesOf(snap.dicts)))
  BY <1>1, AbsSnap
<1>5. mergeView(AbsView(v), cutoff, now, renumber) = NewSnapshot(S, D)
  BY DEF mergeView
<1>6. \A d \in Dims : DictOK(dicts[d])
  BY MergedDictsOK
<1>7. ~(totalBits(dicts) > KeyBudget)
  BY DEF MergeOverflows
<1> HIDE DEF dicts, S, D
<1>8. keyBits(RangesOf(dicts)) = totalBits(dicts)
  BY <1>6, KeyBitsTotal DEF RangesOf
<1>9. ~KeyOverflow(D)
  BY <1>3, <1>7, <1>8 DEF KeyOverflow
<1>10. NewSnapshot(S, D).dicts = D
  BY DEF NewSnapshot
<1> QED BY <1>1, <1>2, <1>3, <1>4, <1>5, <1>9, <1>10 DEF MergesTo

-----------------------------------------------------------------------------
(* Dumps.                                                                     *)

\* The row of View a kept record becomes.
LEMMA EntryAbs ==
    ASSUME NEW kept, NEW M, GoodRecs(kept, M), NEW j \in 1 .. M
    PROVE  LET dicts == builtDicts(kept)
               row == builtEntries(kept)[j].row
           IN  row \in ColRow /\ IdsIn(dicts, row.ids) /\ RowOf(dicts, row) = ToRow(kept[j])
<1> DEFINE dicts == builtDicts(kept)
           ids == idsOf(dicts, kept[j])
           row == builtEntries(kept)[j].row
<1>1. ids \in [Dims -> Nat] /\ IdsIn(dicts, ids) /\ \A d \in Dims : dicts[d][ids[d] + 1] = Resolve(kept[j])[d]
  BY IdsOfIs
<1>2. kept[j] \in Record /\ DOMAIN kept = 1 .. M
  BY DEF GoodRecs
<1>3. row = newRow(ids, kept[j])
  BY <1>2 DEF builtEntries, entry
<1> HIDE DEF dicts, ids, row
<1>4. row \in ColRow
  BY <1>1, <1>2, <1>3, NewRowIs
<1>5. /\ row.ids = ids /\ row.upd = kept[j].upd /\ row.exp = expireMilli(kept[j].exp)
      /\ row.met = kept[j].met
  BY <1>3 DEF newRow
<1>6. [d \in Dims |-> dicts[d][ids[d] + 1]] = Resolve(kept[j])
  BY <1>1 DEF Resolve
<1>7. RowOf(dicts, row) = ToRow(kept[j])
  BY <1>5, <1>6 DEF RowOf, ToRow
<1> QED BY <1>1, <1>4, <1>5, <1>7 DEF dicts, row

\* The rows of the records of a dump.
LEMMA KeptRowsAre ==
    ASSUME NEW recs, NEW N, DOMAIN recs = 1 .. N, NEW cutoff, NEW kept, NEW M, IsKept(recs, N, cutoff, kept, M)
    PROVE  KeptRows(Range(recs), cutoff) = {ToRow(kept[x]) : x \in 1 .. M}
<1>1. {q \in Range(recs) : ~Aged(q, cutoff)} = {kept[x] : x \in 1 .. M}
  <2>1. ASSUME NEW q \in Range(recs), ~Aged(q, cutoff) PROVE \E x \in 1 .. M : q = kept[x]
    <3>1. PICK i \in 1 .. N : q = recs[i]
      BY DEF Range
    <3> QED BY <2>1, <3>1 DEF IsKept
  <2>2. ASSUME NEW x \in 1 .. M PROVE kept[x] \in Range(recs) /\ ~Aged(kept[x], cutoff)
    BY DEF IsKept, Range
  <2> QED BY <2>1, <2>2
<1> QED BY <1>1 DEF KeptRows

\* The dictionaries of a dump hold the values of its rows.
LEMMA DumpDicts ==
    ASSUME NEW kept, NEW M, GoodRecs(kept, M)
    PROVE  RangesOf(builtDicts(kept)) = ValuesOf({ToRow(kept[x]) : x \in 1 .. M})
<1>1. ASSUME NEW d \in Dims
      PROVE  Range(builtDicts(kept)[d]) = {y.dims[d] : y \in {ToRow(kept[x]) : x \in 1 .. M}}
  <2>1. M \in Nat /\ DOMAIN kept = 1 .. M /\ \A i \in 1 .. M : Resolve(kept[i])[d] \in Spellings
    BY DEF GoodRecs, Tuple
  <2>2. /\ DictOK(builtDicts(kept)[d])
        /\ Range(builtDicts(kept)[d]) = {Resolve(kept[i])[d] : i \in 1 .. M}
    BY <2>1, BuiltDictsIs
  <2>3. \A x : ToRow(kept[x]).dims = Resolve(kept[x])
    BY DEF ToRow
  <2> QED BY <2>2, <2>3
<1> QED BY <1>1 DEF RangesOf, ValuesOf

\* Where the sort puts the records: every entry is one of them.
EntryRows(e, kept, M) ==
    /\ \A i \in 1 .. M : \E j \in 1 .. M : RowOf(builtDicts(kept), e[i].row) = ToRow(kept[j])
    /\ \A j \in 1 .. M : \E i \in 1 .. M : RowOf(builtDicts(kept), e[i].row) = ToRow(kept[j])
    /\ \A i \in 1 .. M : e[i].row \in ColRow /\ IdsIn(builtDicts(kept), e[i].row.ids)

LEMMA EntryRowsAre ==
    ASSUME NEW kept, NEW M, GoodRecs(kept, M), NEW e, IsDump(e, kept, M)
    PROVE  EntryRows(e, kept, M)
<1> DEFINE in == builtEntries(kept)
           dicts == builtDicts(kept)
<1>1. /\ \A i \in 1 .. M : \E j \in 1 .. M : e[i] = in[j]
      /\ \A j \in 1 .. M : \E i \in 1 .. M : e[i] = in[j]
  BY DEF IsDump
<1>2. \A j \in 1 .. M : in[j].row \in ColRow /\ IdsIn(dicts, in[j].row.ids) /\ RowOf(dicts, in[j].row) = ToRow(kept[j])
  BY EntryAbs
<1> HIDE DEF in, dicts
<1>3. /\ \A i \in 1 .. M : \E j \in 1 .. M : RowOf(dicts, e[i].row) = ToRow(kept[j])
      /\ \A j \in 1 .. M : \E i \in 1 .. M : RowOf(dicts, e[i].row) = ToRow(kept[j])
      /\ \A i \in 1 .. M : e[i].row \in ColRow /\ IdsIn(dicts, e[i].row.ids)
  BY <1>1, <1>2
<1> QED BY <1>3 DEF EntryRows, dicts

FirstRows(e, dicts) == {RowOf(dicts, e[i].row) : i \in Firsts(e)}

\* The first entries of their tuples are a choice of newest records.
LEMMA FirstsDedupe ==
    ASSUME NEW kept, NEW M, GoodRecs(kept, M), NEW e, IsDump(e, kept, M)
    PROVE  FirstRows(e, builtDicts(kept)) \in Deduped({ToRow(kept[x]) : x \in 1 .. M})
<1> DEFINE dicts == builtDicts(kept)
           R == {ToRow(kept[x]) : x \in 1 .. M}
           K == FirstRows(e, dicts)
           row(i) == RowOf(dicts, e[i].row)
           newest == {x \in R : \A y \in R : y.dims = x.dims => y.upd <= x.upd}
<1>1. /\ \A i \in 1 .. M : row(i) \in R
      /\ \A x \in R : \E i \in 1 .. M : row(i) = x
      /\ \A i \in 1 .. M : e[i].row \in ColRow /\ IdsIn(dicts, e[i].row.ids)
  BY EntryRowsAre DEF EntryRows
<1>2. DumpSorted(e, M, dicts) /\ DOMAIN e = 1 .. M
  BY DEF IsDump, DumpSorted
<1>3. \A d \in Dims : DictOK(dicts[d])
  BY BuiltDictsOK
<1>4. /\ \A i, j \in Firsts(e) : i # j => e[i].row.ids # e[j].row.ids
      /\ \A i \in Firsts(e), j \in 1 .. M : e[i].row.ids = e[j].row.ids => e[j].row.upd <= e[i].row.upd
      /\ \A j \in 1 .. M : \E i \in Firsts(e) : e[i].row.ids = e[j].row.ids
  BY <1>2, FirstsAre
<1>5. Firsts(e) \subseteq 1 .. M
  BY <1>2 DEF Firsts
<1>6. K = {row(i) : i \in Firsts(e)}
  BY DEF FirstRows
<1> HIDE DEF dicts, R, K
<1>7. \A i, j \in 1 .. M : row(i).dims = row(j).dims <=> e[i].row.ids = e[j].row.ids
  BY <1>1, <1>3, RowOfDims
<1>8. \A i \in 1 .. M : row(i).upd = e[i].row.upd
  BY DEF RowOf
<1> HIDE DEF row
<1>9. K \subseteq newest
  <2>1. ASSUME NEW i \in Firsts(e), NEW y \in R, y.dims = row(i).dims PROVE y.upd <= row(i).upd
    <3>1. PICK j \in 1 .. M : row(j) = y
      BY <1>1
    <3> QED BY <1>4, <1>5, <1>7, <1>8, <2>1, <3>1
  <2> QED BY <1>1, <1>5, <1>6, <2>1
<1>10. UniqueTuples(K)
  <2>1. ASSUME NEW i \in Firsts(e), NEW j \in Firsts(e), row(i).dims = row(j).dims PROVE i = j
    BY <1>4, <1>5, <1>7, <2>1
  <2> QED BY <1>6, <2>1 DEF UniqueTuples
<1>11. Tuples(K) = Tuples(R)
  <2>1. \A x \in K : x \in R
    BY <1>9
  <2>2. ASSUME NEW x \in R PROVE \E y \in K : y.dims = x.dims
    <3>1. PICK j \in 1 .. M : row(j) = x
      BY <1>1
    <3>2. PICK i \in Firsts(e) : e[i].row.ids = e[j].row.ids
      BY <1>4
    <3> QED BY <1>5, <1>6, <1>7, <3>1, <3>2
  <2> QED BY <2>1, <2>2 DEF Tuples
<1> QED BY <1>9, <1>10, <1>11 DEF Deduped, K, R, dicts

\* The rows of the snapshot a dump builds.
LEMMA DumpRowsAre ==
    ASSUME NEW kept, NEW M, GoodRecs(kept, M), NEW now, NEW snap, NEW e, IsDump(e, kept, M),
           snap.dicts = builtDicts(kept), {snap.rows[r] : r \in DOMAIN snap.rows} = DumpRows(e, now)
    PROVE  RowsOf(snap) = {x \in FirstRows(e, builtDicts(kept)) : ~rowExpired(x.exp, now)}
<1> DEFINE dicts == builtDicts(kept)
           F == {j \in Firsts(e) : ~rowExpired(e[j].row.exp, now)}
<1>1. RowsOf(snap) = {RowOf(dicts, y) : y \in {snap.rows[r] : r \in DOMAIN snap.rows}}
  BY DEF RowsOf
<1>2. \A i : RowOf(dicts, e[i].row).exp = e[i].row.exp
  BY DEF RowOf
<1> HIDE DEF dicts
<1>3. {RowOf(dicts, y) : y \in {e[i].row : i \in F}} = {RowOf(dicts, e[i].row) : i \in F}
  OBVIOUS
<1>4. {RowOf(dicts, e[i].row) : i \in F} = {x \in {RowOf(dicts, e[i].row) : i \in Firsts(e)} : ~rowExpired(x.exp, now)}
  BY <1>2
<1> QED BY <1>1, <1>3, <1>4 DEF DumpRows, FirstRows, dicts

\* A dump of the columns is a dump of View, and fits when that does.
DumpsTo(recs, cutoff, now, B) ==
    /\ ~BuildFails(Range(recs), cutoff)
    /\ \E s \in buildFromRecords(Range(recs), cutoff, now) : B = newView(s)

LEMMA DumpAbs ==
    ASSUME NEW recs, NEW N, DOMAIN recs = 1 .. N, NEW cutoff, NEW kept, NEW M, IsKept(recs, N, cutoff, kept, M),
           \A i \in DOMAIN recs : ~Rejected(recs[i], cutoff), ~BuildOverflows(kept),
           NEW now, NEW snap, DumpSnap(kept, M, now, snap)
    PROVE  DumpsTo(recs, cutoff, now, AbsView(newColumnView(snap, NoExtras)))
<1> DEFINE dicts == builtDicts(kept)
           rows == {ToRow(kept[x]) : x \in 1 .. M}
           D == ValuesOf(rows)
<1>1. GoodRecs(kept, M)
  BY DEF IsKept
<1>2. GoodSnap(snap) /\ snap.dicts = dicts
  BY DEF DumpSnap
<1>3. PICK e : IsDump(e, kept, M) /\ {snap.rows[r] : r \in DOMAIN snap.rows} = DumpRows(e, now)
  BY DEF DumpSnap
<1> DEFINE K == FirstRows(e, dicts)
<1>4. KeptRows(Range(recs), cutoff) = rows
  BY KeptRowsAre
<1>5. RangesOf(dicts) = D
  BY <1>1, DumpDicts
<1>6. K \in Deduped(rows)
  BY <1>1, <1>3, FirstsDedupe
<1>7. RowsOf(snap) = {x \in K : ~rowExpired(x.exp, now)}
  BY <1>1, <1>2, <1>3, DumpRowsAre
<1>8. AbsView(newColumnView(snap, NoExtras)) = newView(NewSnapshot(RowsOf(snap), RangesOf(snap.dicts)))
  BY <1>2, AbsSnap
<1>9. \A d \in Dims : DictOK(dicts[d])
  BY <1>1, BuiltDictsOK
<1>10. ~(totalBits(dicts) > KeyBudget)
  BY DEF BuildOverflows
<1> HIDE DEF dicts, rows, K
<1>11. keyBits(RangesOf(dicts)) = totalBits(dicts)
  BY <1>9, KeyBitsTotal DEF RangesOf
<1>12. ~KeyOverflow(D)
  BY <1>5, <1>10, <1>11 DEF KeyOverflow
<1>13. ~BuildFails(Range(recs), cutoff)
  <2>1. \A r \in Range(recs) : ~Rejected(r, cutoff)
    BY DEF Range
  <2> QED BY <1>4, <1>12, <2>1 DEF BuildFails
<1>14. NewSnapshot({x \in K : ~rowExpired(x.exp, now)}, D) \in buildFromRecords(Range(recs), cutoff, now)
  BY <1>4, <1>6 DEF buildFromRecords
<1>15. AbsView(newColumnView(snap, NoExtras)) = newView(NewSnapshot({x \in K : ~rowExpired(x.exp, now)}, D))
  BY <1>2, <1>5, <1>7, <1>8
<1> HIDE DEF D
<1> QED BY <1>13, <1>14, <1>15 DEF DumpsTo

-----------------------------------------------------------------------------
(* The steps.                                                                 *)

\* What a call of ViewTable may make of the table A.
TableStep(A, B) ==
    \E cutoff \in Table!Cutoffs :
        \/ \E recs \in Table!Batches, blocked \in BOOLEAN :
              /\ \A i \in DOMAIN recs : ~Rejected(recs[i], cutoff)
              /\ B = AbsBatch(A, recs, cutoff, blocked)
        \/ \E t \in Clocks, renumber \in BOOLEAN : MergesTo(A, cutoff, t, renumber, B)
        \/ \E recs \in Table!Dumps, t \in Clocks : DumpsTo(recs, cutoff, t, B)

\* The view under construction is one call away from the published one.
RefInv ==
    /\ ColumnInv
    /\ \A v \in built : TableStep(AbsView(Deref(heap, view)), AbsView(Deref(heap, v)))

BuiltStep == \A v \in built' : TableStep(AbsView(Deref(heap, view)), AbsView(Deref(heap', v)))

LEMMA ApplyStep ==
    ASSUME ColumnInv, NEW cutoff \in Table!Cutoffs, NEW recs \in Table!Batches, NEW blocked \in BOOLEAN,
           Apply(recs, cutoff, blocked)
    PROVE  BuiltStep
<1>1. PICK n \in 1 .. MaxApply : recs \in [1 .. n -> Inputs]
  BY DEF Table!Batches
<1>2. n \in Nat /\ cutoff \in Nat
  BY <1>1, ClockAssumption, CutoffNat
<1>3. BatchBuilt(recs, cutoff, blocked)
  BY <1>1, <1>2, ApplyBuilds
<1>4. \A v \in built' : /\ \A i \in DOMAIN recs : ~Rejected(recs[i], cutoff)
                        /\ AbsView(Deref(heap', v)) = AbsBatch(AbsView(Deref(heap, view)), recs, cutoff, blocked)
  BY <1>3 DEF BatchBuilt
<1> QED BY <1>4 DEF BuiltStep, TableStep

LEMMA CompactStep ==
    ASSUME ColumnInv, NEW cutoff \in Table!Cutoffs, NEW t \in Clocks, NEW renumber \in BOOLEAN,
           Compact(cutoff, t, renumber)
    PROVE  BuiltStep
<1> DEFINE V == Deref(heap, view)
<1>1. ~MergeOverflows(V, cutoff, t, renumber)
      /\ \E snap : SnapBuilt(snap) /\ MergeSnap(V, cutoff, t, renumber, snap)
  BY CompactBuilds
<1>2. PICK snap : SnapBuilt(snap) /\ MergeSnap(V, cutoff, t, renumber, snap)
  BY <1>1
<1>3. RepOK(V) /\ cutoff \in Nat
  BY CutoffNat DEF ColumnInv, GoodView
<1> HIDE DEF V
<1>4. MergesTo(AbsView(V), cutoff, t, renumber, AbsView(newColumnView(snap, NoExtras)))
  BY <1>1, <1>2, <1>3, MergeAbs
<1>5. \A v \in built' : Deref(heap', v) = newColumnView(snap, NoExtras)
  BY <1>2 DEF SnapBuilt
<1>6. \A v \in built' : MergesTo(AbsView(V), cutoff, t, renumber, AbsView(Deref(heap', v)))
  BY <1>4, <1>5
<1> QED BY <1>6 DEF BuiltStep, TableStep, V

LEMMA ReplaceStep ==
    ASSUME ColumnInv, NEW cutoff \in Table!Cutoffs, NEW recs \in Table!Dumps, NEW t \in Clocks,
           Replace(recs, cutoff, t)
    PROVE  BuiltStep
<1> DEFINE kept == KeptRecs(recs, cutoff)
<1>1. PICK n \in 0 .. MaxReplace : recs \in [1 .. n -> Inputs]
  BY DEF Table!Dumps
<1>2. n \in Nat /\ cutoff \in Nat /\ DOMAIN recs = 1 .. n
  BY <1>1, ClockAssumption, CutoffNat
<1>3. /\ \A i \in DOMAIN recs : ~Rejected(recs[i], cutoff)
      /\ ~BuildOverflows(kept)
      /\ IsKept(recs, n, cutoff, kept, Len(kept))
      /\ \E snap : SnapBuilt(snap) /\ DumpSnap(kept, Len(kept), t, snap)
  BY <1>1, <1>2, ReplaceBuilds
<1>4. PICK snap : SnapBuilt(snap) /\ DumpSnap(kept, Len(kept), t, snap)
  BY <1>3
<1> HIDE DEF kept
<1>5. DumpsTo(recs, cutoff, t, AbsView(newColumnView(snap, NoExtras)))
  BY <1>2, <1>3, <1>4, DumpAbs
<1>6. \A v \in built' : Deref(heap', v) = newColumnView(snap, NoExtras)
  BY <1>4 DEF SnapBuilt
<1>7. \A v \in built' : DumpsTo(recs, cutoff, t, AbsView(Deref(heap', v)))
  BY <1>5, <1>6
<1> QED BY <1>7 DEF BuiltStep, TableStep

LEMMA CallBuilds ==
    ASSUME ColumnInv, Call
    PROVE  BuiltStep
<1>1. PICK cutoff \in Table!Cutoffs :
         \/ \E recs \in Table!Batches, blocked \in BOOLEAN : Apply(recs, cutoff, blocked)
         \/ \E t \in Clocks, renumber \in BOOLEAN : Compact(cutoff, t, renumber)
         \/ \E recs \in Table!Dumps, t \in Clocks : Replace(recs, cutoff, t)
  BY DEF Call
<1>2. ASSUME NEW recs \in Table!Batches, NEW blocked \in BOOLEAN, Apply(recs, cutoff, blocked)
      PROVE  BuiltStep
  BY <1>2, ApplyStep
<1>3. ASSUME NEW t \in Clocks, NEW renumber \in BOOLEAN, Compact(cutoff, t, renumber)
      PROVE  BuiltStep
  BY <1>3, CompactStep
<1>4. ASSUME NEW recs \in Table!Dumps, NEW t \in Clocks, Replace(recs, cutoff, t)
      PROVE  BuiltStep
  BY <1>4, ReplaceStep
<1> QED BY <1>1, <1>2, <1>3, <1>4

\* A call changes nothing that is published.
LEMMA CallStutters ==
    ASSUME ColumnInv, Call
    PROVE  Deref(heap', view') = Deref(heap, view)
BY CallKeeps, Frozen DEF ColumnInv

LEMMA RefStep ==
    ASSUME RefInv, [Next]_vars
    PROVE  RefInv'
<1>1. ColumnInv'
  BY StepKeeps DEF RefInv
<1>2. CASE Call
  <2>1. BuiltStep /\ Deref(heap', view') = Deref(heap, view)
    BY <1>2, CallBuilds, CallStutters DEF RefInv
  <2> QED BY <1>1, <2>1 DEF RefInv, BuiltStep
<1>3. CASE Publish
  <2>1. built' = {}
    BY <1>3, PublishIs DEF RefInv
  <2> QED BY <1>1, <2>1 DEF RefInv
<1>4. CASE UNCHANGED vars
  BY <1>1, <1>4 DEF RefInv, vars
<1> QED BY <1>2, <1>3, <1>4 DEF Next

\* ViewTable is over the same helpers.
LEMMA SameRecords ==
    /\ \A e, n : Table!rowExpired(e, n) <=> rowExpired(e, n)
    /\ \A r, c : Table!Aged(r, c) <=> Aged(r, c)
    /\ \A r, c : Table!Rejected(r, c) <=> Rejected(r, c)
    /\ \A r : Table!ToRow(r) = ToRow(r)
    /\ \A f : Table!Range(f) = Range(f)
<1>1. \A e, n : Table!rowExpired(e, n) <=> rowExpired(e, n)
  BY DEF Table!rowExpired, rowExpired
<1>2. \A r, c : Table!Aged(r, c) <=> Aged(r, c)
  BY DEF Table!Aged, Aged
<1>3. \A r : Table!Parses(r) <=> Parses(r)
  BY DEF Table!Parses, Parses
<1>4. \A r, c : Table!Rejected(r, c) <=> Rejected(r, c)
  BY <1>2, <1>3 DEF Table!Rejected, Rejected
<1>5. \A r : Table!Resolve(r) = Resolve(r)
  BY DEF Table!Resolve, Resolve
<1>6. \A t : Table!expireMilli(t) = expireMilli(t)
  BY DEF Table!expireMilli, expireMilli
<1>7. \A r : Table!ToRow(r) = ToRow(r)
  BY <1>5, <1>6 DEF Table!ToRow, ToRow
<1>8. \A f : Table!Range(f) = Range(f)
  BY DEF Table!Range, Range
<1> QED BY <1>1, <1>2, <1>4, <1>7, <1>8

LEMMA SameSnapshots ==
    /\ \A rows, dicts : Table!NewSnapshot(rows, dicts) = NewSnapshot(rows, dicts)
    /\ \A s : Table!newView(s) = newView(s)
    /\ Table!emptySnapshot = emptySnapshot
    /\ \A dicts : Table!KeyOverflow(dicts) <=> KeyOverflow(dicts)
    /\ \A rows : Table!ValuesOf(rows) = ValuesOf(rows)
<1>1. \A rows : Table!MaxUpdated(rows) = MaxUpdated(rows)
  BY DEF Table!MaxUpdated, MaxUpdated, Table!Max, Max
<1>2. \A rows : Table!MinUpdated(rows) = MinUpdated(rows)
  BY DEF Table!MinUpdated, MinUpdated, Table!Min, Min
<1>3. \A rows : Table!Expiries(rows) = Expiries(rows)
  BY DEF Table!Expiries, Expiries
<1>4. \A rows : Table!MinExpire(rows) = MinExpire(rows)
  <2>1. \A S : Table!Min(S) = Min(S)
    BY DEF Table!Min, Min
  <2> QED BY <1>3, <2>1 DEF Table!MinExpire, MinExpire
<1>5. \A rows, dicts : Table!NewSnapshot(rows, dicts) = NewSnapshot(rows, dicts)
  BY <1>1, <1>2, <1>4 DEF Table!NewSnapshot, NewSnapshot
<1>6. Table!NoValues = NoValues
  BY DEF Table!NoValues, NoValues
<1>7. \A s : Table!newView(s) = newView(s)
  BY <1>6 DEF Table!newView, newView, Table!emptyDelta, emptyDelta
<1>8. Table!emptySnapshot = emptySnapshot
  BY <1>5, <1>6 DEF Table!emptySnapshot, emptySnapshot
<1>9. \A dicts : Table!keyBits(dicts) = keyBits(dicts)
  <2>1. \A n : Table!dictBits(n) = dictBits(n)
    BY DEF Table!dictBits, dictBits
  <2>2. \A S : Table!Cardinality(S) = Cardinality(S)
    BY DEF Table!Cardinality, Cardinality
  <2> QED BY <2>1, <2>2 DEF Table!keyBits, keyBits, Table!MapThenSumSet, MapThenSumSet,
                            Table!MapThenFoldSet, MapThenFoldSet
<1>10. \A dicts : Table!KeyOverflow(dicts) <=> KeyOverflow(dicts)
  BY <1>9 DEF Table!KeyOverflow, KeyOverflow
<1>11. \A rows : Table!ValuesOf(rows) = ValuesOf(rows)
  BY DEF Table!ValuesOf, ValuesOf
<1> QED BY <1>5, <1>7, <1>8, <1>10, <1>11

LEMMA SameUpserts ==
    \A v, row, b : Table!ApplyRecord(v, row, b) = ApplyRecord(v, row, b)
<1>1. \A v, t : Table!AllInBase(v, t) <=> AllInBase(v, t)
  BY DEF Table!AllInBase, AllInBase
<1>2. \A s, t : Table!findRow(s, t) = findRow(s, t)
  BY DEF Table!findRow, findRow
<1>3. \A v, t : Table!Interned(v, t) = Interned(v, t)
  BY DEF Table!Interned, Interned
<1>4. \A rows, u : Table!Superseded(rows, u) <=> Superseded(rows, u)
  BY DEF Table!Superseded, Superseded
<1>5. \A b, f : Table!Dropped(b, f) <=> Dropped(b, f)
  BY DEF Table!Dropped, Dropped
<1>6. ASSUME NEW v, NEW row, NEW b PROVE Table!ApplyRecord(v, row, b) = ApplyRecord(v, row, b)
  <2> DEFINE hit == {x \in v.delta.rows : x.dims = row.dims}
             br == IF hit = {} /\ AllInBase(v, row.dims) THEN findRow(v.base, row.dims) ELSE {}
             stored == ~Superseded(hit \cup br, row.upd) /\ ~Dropped(b, hit \cup br)
             tbr == IF hit = {} /\ Table!AllInBase(v, row.dims) THEN Table!findRow(v.base, row.dims) ELSE {}
             tstored == ~Table!Superseded(hit \cup tbr, row.upd) /\ ~Table!Dropped(b, hit \cup tbr)
             made(B, S, X) ==
                 [base |-> v.base,
                  delta |-> [rows |-> IF S THEN (v.delta.rows \ hit) \cup {row} ELSE v.delta.rows,
                             maxUpdated |-> IF (S \/ hit # {}) /\ row.upd > v.delta.maxUpdated
                                            THEN row.upd ELSE v.delta.maxUpdated,
                             hasExpiry |-> v.delta.hasExpiry \/ (S /\ row.exp # 0)],
                  extras |-> X,
                  overridden |-> IF S THEN v.overridden \cup B ELSE v.overridden]
  <2>1. ApplyRecord(v, row, b) = made(br, stored, Interned(v, row.dims))
    BY DEF ApplyRecord
  <2>2. Table!ApplyRecord(v, row, b) = made(tbr, tstored, Table!Interned(v, row.dims))
    BY DEF Table!ApplyRecord
  <2>3. tbr = br
    BY <1>1, <1>2
  <2>4. tstored = stored
    <3>1. tstored <=> stored
      BY <1>4, <1>5, <2>3
    <3>2. tstored \in BOOLEAN /\ stored \in BOOLEAN
      OBVIOUS
    <3> HIDE DEF tstored, stored
    <3> QED BY <3>1, <3>2
  <2>5. Table!Interned(v, row.dims) = Interned(v, row.dims)
    BY <1>3
  <2> HIDE DEF br, tbr, stored, tstored, made
  <2>6. made(tbr, tstored, Table!Interned(v, row.dims)) = made(br, stored, Interned(v, row.dims))
    BY ONLY <2>3, <2>4, <2>5, Zenon
  <2> QED BY <2>1, <2>2, <2>6
<1> QED BY <1>6

LEMMA SameMerges ==
    /\ \A v, c, n, renumber : Table!mergeView(v, c, n, renumber) = mergeView(v, c, n, renumber)
    /\ \A recs, c : Table!BuildFails(recs, c) <=> BuildFails(recs, c)
    /\ \A recs, c, n : Table!buildFromRecords(recs, c, n) = buildFromRecords(recs, c, n)
<1>1. \A v, c, n : Table!Survivors(v, c, n) = Survivors(v, c, n)
  BY SameRecords DEF Table!Survivors, Survivors, Table!Survive, Survive, Table!Logical, Logical
<1>2. \A v, rows, renumber : Table!MergedDicts(v, rows, renumber) = MergedDicts(v, rows, renumber)
  BY SameSnapshots DEF Table!MergedDicts, MergedDicts
<1>3. \A v, c, n, renumber : Table!mergeView(v, c, n, renumber) = mergeView(v, c, n, renumber)
  BY <1>1, <1>2, SameSnapshots DEF Table!mergeView, mergeView
<1>4. \A recs, c : Table!KeptRows(recs, c) = KeptRows(recs, c)
  BY SameRecords DEF Table!KeptRows, KeptRows
<1>5. \A rows : Table!Deduped(rows) = Deduped(rows)
  BY DEF Table!Deduped, Deduped, Table!UniqueTuples, UniqueTuples, Table!Tuples, Tuples
<1>6. \A recs, c : Table!BuildFails(recs, c) <=> BuildFails(recs, c)
  BY <1>4, SameRecords, SameSnapshots DEF Table!BuildFails, BuildFails
<1>7. \A recs, c, n : Table!buildFromRecords(recs, c, n) = buildFromRecords(recs, c, n)
  BY <1>4, <1>5, SameRecords, SameSnapshots DEF Table!buildFromRecords, buildFromRecords
<1> QED BY <1>3, <1>6, <1>7

\* A batch of ViewTable: the two loops go through the same tables.
TableOp(c, A, r) == IF Table!Aged(r, c.cutoff) THEN A ELSE Table!ApplyRecord(A, Table!ToRow(r), c.blocked)

SameTable(c, s, n, A) == A = c.abs[n]

TableBatches == INSTANCE Loops WITH Op <- TableOp, Inv <- SameTable

TableBatch(A, recs, cutoff, blocked) ==
    Table!FoldLeft(LAMBDA v, r : IF Table!Aged(r, cutoff) THEN v
                                 ELSE Table!ApplyRecord(v, Table!ToRow(r), blocked), A, recs)

LEMMA SameBatch ==
    ASSUME NEW A, NEW N \in Nat, NEW recs, DOMAIN recs = 1 .. N, NEW cutoff, NEW blocked
    PROVE  TableBatch(A, recs, cutoff, blocked) = AbsBatch(A, recs, cutoff, blocked)
<1> DEFINE actx == [cutoff |-> cutoff, blocked |-> blocked]
           a == AbsBatches!RunOf(actx, A, recs, N)
           ctx == [cutoff |-> cutoff, blocked |-> blocked, abs |-> a]
           B == AbsBatch(A, recs, cutoff, blocked)
           T == TableBatch(A, recs, cutoff, blocked)
<1>1. T = TableBatches!Fold(ctx, A, recs)
  BY DEF TableBatch, Table!FoldLeft, Table!MapThenFoldSet, Table!Max, TableBatches!Fold,
         TableBatches!MapThenFoldSet, TableBatches!Top, TableOp
<1>2. B = AbsBatches!Fold(actx, A, recs)
  BY DEF AbsBatch, FoldLeft, MapThenFoldSet, Max, AbsBatches!Fold, AbsBatches!MapThenFoldSet, AbsBatches!Top, AbsOp
<1>3. /\ ctx.cutoff = cutoff /\ ctx.blocked = blocked /\ ctx.abs = a
      /\ actx.cutoff = cutoff /\ actx.blocked = blocked
  OBVIOUS
<1>4. AbsBatches!IsRun(a, actx, A, recs, N) /\ AbsBatches!Fold(actx, A, recs) = a[N]
  <2> HIDE DEF actx
  <2> QED BY AbsBatches!FoldRun
<1> HIDE DEF ctx, actx, a, B, T
<1>5. a[0] = A /\ \A n \in 0 .. N - 1 : a[n + 1] = AbsOp(actx, a[n], recs[n + 1])
  BY <1>4 DEF AbsBatches!IsRun
<1>6. SameTable(ctx, recs, 0, A)
  BY <1>3, <1>5 DEF SameTable
<1>7. ASSUME NEW n \in 0 .. N - 1, NEW e, SameTable(ctx, recs, n, e)
      PROVE  SameTable(ctx, recs, n + 1, TableOp(ctx, e, recs[n + 1]))
  <2>1. TableOp(ctx, e, recs[n + 1]) = AbsOp(actx, e, recs[n + 1])
    BY <1>3, SameRecords, SameUpserts DEF TableOp, AbsOp
  <2> QED BY <1>3, <1>5, <1>7, <2>1 DEF SameTable
<1>8. SameTable(ctx, recs, N, TableBatches!Fold(ctx, A, recs))
  BY <1>6, <1>7, TableBatches!FoldInvariant
<1>9. T = B
  BY <1>1, <1>2, <1>3, <1>4, <1>8 DEF SameTable
<1> QED BY <1>9 DEF T, B

\* A step of ViewTable.
LEMMA TableStepIs ==
    ASSUME TableStep(AbsView(Deref(heap, view)), AbsView(Deref(heap, view))')
    PROVE  Table!Next
<1> DEFINE A == AbsView(Deref(heap, view))
           B == AbsView(Deref(heap', view'))
<1>1. PICK cutoff \in Table!Cutoffs :
        \/ \E recs \in Table!Batches, blocked \in BOOLEAN :
              /\ \A i \in DOMAIN recs : ~Rejected(recs[i], cutoff)
              /\ B = AbsBatch(A, recs, cutoff, blocked)
        \/ \E t \in Clocks, renumber \in BOOLEAN : MergesTo(A, cutoff, t, renumber, B)
        \/ \E recs \in Table!Dumps, t \in Clocks : DumpsTo(recs, cutoff, t, B)
  BY DEF TableStep
<1>2. ASSUME NEW recs \in Table!Batches, NEW blocked \in BOOLEAN,
             \A i \in DOMAIN recs : ~Rejected(recs[i], cutoff), B = AbsBatch(A, recs, cutoff, blocked)
      PROVE  Table!Apply(recs, cutoff, blocked)
  <2>1. PICK n \in 1 .. MaxApply : recs \in [1 .. n -> Inputs]
    BY DEF Table!Batches
  <2>2. n \in Nat /\ DOMAIN recs = 1 .. n
    BY <2>1, ClockAssumption
  <2> HIDE DEF A, B
  <2>3. B = TableBatch(A, recs, cutoff, blocked)
    BY <1>2, <2>2, SameBatch
  <2>4. \A i \in DOMAIN recs : ~Table!Rejected(recs[i], cutoff)
    BY <1>2, SameRecords
  <2> QED BY <2>3, <2>4 DEF Table!Apply, TableBatch, A, B
<1>3. ASSUME NEW t \in Clocks, NEW renumber \in BOOLEAN, MergesTo(A, cutoff, t, renumber, B)
      PROVE  Table!Compact(cutoff, t, renumber)
  <2> HIDE DEF A, B
  <2>1. ~KeyOverflow(mergeView(A, cutoff, t, renumber).dicts) /\ B = newView(mergeView(A, cutoff, t, renumber))
    BY <1>3 DEF MergesTo
  <2>2. /\ ~Table!KeyOverflow(Table!mergeView(A, cutoff, t, renumber).dicts)
        /\ B = Table!newView(Table!mergeView(A, cutoff, t, renumber))
    BY <2>1, SameMerges, SameSnapshots
  <2> QED BY <2>2 DEF Table!Compact, A, B
<1>4. ASSUME NEW recs \in Table!Dumps, NEW t \in Clocks, DumpsTo(recs, cutoff, t, B)
      PROVE  Table!Rebuild(recs, cutoff, t)
  <2> HIDE DEF A, B
  <2>1. /\ ~BuildFails(Range(recs), cutoff)
        /\ \E s \in buildFromRecords(Range(recs), cutoff, t) : B = newView(s)
    BY <1>4 DEF DumpsTo
  <2>2. /\ ~Table!BuildFails(Table!Range(recs), cutoff)
        /\ \E s \in Table!buildFromRecords(Table!Range(recs), cutoff, t) : B = Table!newView(s)
    BY <2>1, SameMerges, SameSnapshots, SameRecords
  <2> QED BY <2>2 DEF Table!Rebuild, B
<1> HIDE DEF A, B
<1> QED BY <1>1, <1>2, <1>3, <1>4 DEF Table!Next

LEMMA StepMaps ==
    ASSUME RefInv, [Next]_vars
    PROVE  [Table!Next]_(AbsView(Deref(heap, view)))
<1>1. CASE Call
  BY <1>1, CallStutters DEF RefInv
<1>2. CASE Publish
  <2>1. PICK v \in built : Deref(heap', view') = Deref(heap, v)
    BY <1>2, PublishIs DEF RefInv
  <2>2. TableStep(AbsView(Deref(heap, view)), AbsView(Deref(heap, v)))
    BY DEF RefInv
  <2>3. TableStep(AbsView(Deref(heap, view)), AbsView(Deref(heap, view))')
    BY <2>1, <2>2
  <2> QED BY <2>3, TableStepIs
<1>3. CASE UNCHANGED vars
  BY <1>3 DEF vars
<1> QED BY <1>1, <1>2, <1>3 DEF Next

LEMMA InitMaps ==
    ASSUME Init
    PROVE  RefInv /\ Table!Init
<1>1. ColumnInv /\ built = {} /\ Deref(heap, view) = newColumnView(emptyColumns, NoExtras)
  BY InitOK
<1>2. /\ GoodSnap(emptyColumns) /\ emptyColumns.dicts = NoExtras
      /\ {emptyColumns.rows[r] : r \in DOMAIN emptyColumns.rows} = {}
  BY EmptySnap
<1>3. RowsOf(emptyColumns) = {}
  BY <1>2 DEF RowsOf
<1>4. RangesOf(NoExtras) = NoValues
  BY DEF RangesOf, NoExtras, NoValues, Range
<1>5. AbsView(newColumnView(emptyColumns, NoExtras)) = newView(emptySnapshot)
  BY <1>2, <1>3, <1>4, AbsSnap DEF emptySnapshot
<1>6. RefInv
  BY <1>1 DEF RefInv
<1>7. Table!Init
  BY <1>1, <1>5, SameSnapshots DEF Table!Init
<1> QED BY <1>6, <1>7

\* The columns implement View for every schema and every sequence of calls: a
\* batch, a merge or a dump makes of the columns what the operation of View makes
\* of the rows and values they stand for, and nothing is seen of it before it is
\* published (applyDelta, zipMerge, buildFromRecords, dictionary sharing).
THEOREM ColumnsImplementView == Spec => ImplementsView
<1>1. Init => RefInv /\ Table!Init
  BY InitMaps
<1>2. RefInv /\ [Next]_vars => RefInv'
  BY RefStep
<1>3. RefInv /\ [Next]_vars => [Table!Next]_(AbsView(Deref(heap, view)))
  BY StepMaps
<1> QED BY <1>1, <1>2, <1>3, PTL DEF Spec, ImplementsView, Table!Spec
=============================================================================
