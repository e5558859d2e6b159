------------------------------- MODULE Records -------------------------------
(* The table's schema, its upsert records and its rows: schema.go, and the    *)
(* record-level helpers of snapshot.go and store.go.  Both the abstract table *)
(* (RefTable) and the columnar engine (View, Store) are written over these.   *)
(*                                                                            *)
(* A dimension value is its spelling.  On an integer dimension the identity   *)
(* is the integer, represented by its canonical spelling, so ParseInt maps    *)
(* "01" and "+1" to "1" and a spelling that is no int64 to NonInt.            *)
(* Times are unix milliseconds.                                               *)
EXTENDS Integers, FiniteSetsExt

CONSTANTS Dims,        \* Schema.Dims, all dimension names
          IndexDims,   \* the dimensions of the packed index prefix
          IntDims,     \* the dimensions declared DimInt
          Spellings,   \* dimension values as the host writes them
          ParseInt,    \* strconv.ParseInt followed by FormatInt
          NonInt,      \* what ParseInt gives for a spelling that is no integer
          Payloads,    \* metric vectors
          MinTime, MaxTime, \* the bounds of the clock's int64 milliseconds
          ZeroTime,    \* the unix milliseconds of Go's zero time.Time
          TTL,         \* Config.TTL
          Inputs       \* the records the host may ever send

Time == MinTime .. MaxTime

Tuple == [Dims -> Spellings]

\* A stored row: canonical dimension tuple, the expire column's 0 = never.
Row == [dims: Tuple, upd: Time, exp: Time, met: Payloads]

\* arity says whether the record has as many dims and metrics as the schema.
Record == [dims: Tuple, arity: BOOLEAN, upd: Time, exp: Time, met: Payloads]

\* schema.validate demands a non-empty index prefix of the dimensions.  The
\* epoch itself is no input UpdatedAt: 0 is a sentinel of the minUpdated column.
ASSUME SchemaAssumption ==
    /\ IsFiniteSet(Dims)
    /\ IndexDims \subseteq Dims /\ IndexDims # {}
    /\ IntDims \subseteq Dims
    /\ NonInt \notin Spellings
    /\ ParseInt \in [Spellings -> Spellings \cup {NonInt}]
    /\ \A s \in Spellings : ParseInt[s] # NonInt => ParseInt[ParseInt[s]] = ParseInt[s]

ASSUME TimeAssumption ==
    /\ MinTime \in Int /\ MaxTime \in Int /\ ZeroTime \in Int
    /\ MinTime <= ZeroTime /\ ZeroTime < 0 /\ 0 < MaxTime
    /\ TTL \in Nat

ASSUME InputAssumption ==
    /\ Inputs \subseteq Record
    /\ \A r \in Inputs : r.upd # 0

-----------------------------------------------------------------------------

ttlCutoff(now) == IF TTL <= 0 THEN 0 ELSE now - TTL

expireMilli(t) == IF t = ZeroTime THEN 0 ELSE t

rowExpired(e, now) == e # 0 /\ e <= now

\* Every integer dimension of r holds an integer.
Parses(r) == \A d \in IntDims : ParseInt[r.dims[d]] # NonInt

\* The dimension tuple r writes to: integer dimensions are canonicalised.
Resolve(r) == [d \in Dims |-> IF d \in IntDims THEN ParseInt[r.dims[d]] ELSE r.dims[d]]

\* The row a well-formed record becomes.
ToRow(r) == [dims |-> Resolve(r), upd |-> r.upd, exp |-> expireMilli(r.exp), met |-> r.met]

\* A record older than the cutoff is skipped before its dimensions are parsed.
Aged(r, cutoff) == r.upd < cutoff

\* Mutant: integer dimensions are not validated.
RejectedArity(r, cutoff) == ~r.arity

\* The record fails the call it is part of.
Rejected(r, cutoff) == ~r.arity \/ (~Aged(r, cutoff) /\ ~Parses(r))

\* The rows that stay when rows aged out by TTL or past their expiry go.
Survive(rows, cutoff, now) == {x \in rows : x.upd >= cutoff /\ ~rowExpired(x.exp, now)}

\* No two rows have the same dimension tuple.
UniqueTuples(rows) == \A x, y \in rows : x.dims = y.dims => x = y

Tuples(rows) == {x.dims : x \in rows}
=============================================================================
