------------------------------ MODULE RefTable ------------------------------
(* What the store promises, after the reference table of reference_test.go    *)
(* ("the semantic oracle for the columnar engine"): one row per dimension     *)
(* tuple, the newest upsert wins, expired rows are invisible, a merge forgets *)
(* what expired.  A batch takes effect as a whole or not at all; a query      *)
(* answers from one table state; the row cap may only turn new tuples away.   *)
EXTENDS Records, Sequences, FiniteSets

CONSTANTS Readers,   \* query goroutines
          MaxRows,   \* Config.MaxRows, 0 = no cap
          StartTime, \* the clock when the process starts
          MaxNow     \* bound on the clock

VARIABLES table,     \* the rows, at most one per tuple
          blocked,   \* new tuples are turned away
          call,      \* the writer call under way: "none", "apply" or "replace"
          pend,      \* the records of that call not processed yet
          work,      \* the table as the call would leave it
          snap,      \* per reader: {the table its query reads}, or {}
          ans,       \* per reader: the rows its query saw
          now        \* the clock

vars == <<table, blocked, call, pend, work, snap, ans, now>>

OverCap(rows) == MaxRows > 0 /\ Cardinality(rows) > MaxRows

\* A record replaces the row of its tuple unless that row is strictly newer.
Upsert(rows, new) ==
    IF \E x \in rows : x.dims = new.dims /\ x.upd > new.upd
    THEN rows
    ELSE {x \in rows : x.dims # new.dims} \cup {new}

\* The tables a full dump may give: for each tuple one of its newest records.
Newest(rows) == {x \in rows : \A y \in rows : y.dims = x.dims => y.upd <= x.upd}
Latest(rows) == {keep \in SUBSET Newest(rows) :
                   UniqueTuples(keep) /\ Tuples(keep) = Tuples(rows)}

Init == /\ table = {} /\ work = {}
        /\ blocked = FALSE
        /\ call = "none" /\ pend = <<>>
        /\ snap = [p \in Readers |-> {}]
        /\ ans = [p \in Readers |-> {}]
        /\ now = StartTime

\* A call begins with some records.
Begin ==
    /\ call = "none"
    /\ call' \in {"apply", "replace"} /\ pend' \in Seq(Inputs)
    /\ UNCHANGED <<table, blocked, work, snap, ans, now>>

\* The next record of a batch is upserted; only a record past the TTL or a new
\* tuple while blocked may be left out.
Process ==
    /\ call = "apply" /\ pend # <<>>
    /\ LET r == Head(pend) IN
         \/ /\ r.arity /\ Parses(r)
            /\ work' = Upsert(work, ToRow(r))
         \/ /\ \/ Aged(r, ttlCutoff(now))
               \/ blocked /\ Parses(r) /\ Resolve(r) \notin Tuples(work)
            /\ UNCHANGED work
    /\ pend' = Tail(pend)
    /\ UNCHANGED <<table, blocked, call, snap, ans, now>>

Finish(rows, b) ==
    /\ table' = rows /\ work' = rows /\ blocked' = b
    /\ call' = "none" /\ pend' = <<>>
    /\ UNCHANGED <<snap, ans, now>>

\* All records are in: the batch takes effect at once.
Commit == call = "apply" /\ pend = <<>> /\ Finish(work, blocked)

\* A batch fails as a whole, and only on a malformed record.
Abort == /\ call = "apply" /\ pend # <<>>
         /\ ~Head(pend).arity \/ ~Parses(Head(pend))
         /\ Finish(table, blocked)

\* A full dump replaces the table, or leaves it alone and may block.
DumpRows(cutoff) == {ToRow(r) : r \in {q \in Range(pend) : ~Aged(q, cutoff)}}

Replace ==
    /\ call = "replace"
    /\ \E cutoff \in {ttlCutoff(n) : n \in StartTime .. now} :
         \/ Finish(table, blocked)
         \/ \E keep \in Latest(DumpRows(cutoff)) :
              LET rows == {x \in keep : ~rowExpired(x.exp, now)} IN
                IF OverCap(rows) THEN Finish(table, TRUE) ELSE Finish(rows, FALSE)

\* A merge forgets aged and expired rows; over the cap it blocks instead.
Reclaim ==
    /\ call = "none"
    /\ \E n \in StartTime .. now :
         LET rows == Survive(table, ttlCutoff(now), n) IN
           IF OverCap(rows) THEN Finish(table, TRUE) ELSE Finish(rows, FALSE)

\* A query fixes the table it reads, and later answers with its visible rows.
Open(p) ==
    /\ snap[p] = {}
    /\ snap' = [snap EXCEPT ![p] = {table}]
    /\ ans' = [ans EXCEPT ![p] = {}]
    /\ UNCHANGED <<table, blocked, call, pend, work, now>>

Answer(p) ==
    /\ \E rows \in snap[p] :
         ans' = [ans EXCEPT ![p] = {x \in rows : ~rowExpired(x.exp, now)}]
    /\ snap' = [snap EXCEPT ![p] = {}]
    /\ UNCHANGED <<table, blocked, call, pend, work, now>>

Tick == /\ now < MaxNow
        /\ now' = now + 1
        /\ UNCHANGED <<table, blocked, call, pend, work, snap, ans>>

Next == \/ Begin \/ Process \/ Commit \/ Abort \/ Replace \/ Reclaim
        \/ \E p \in Readers : Open(p) \/ Answer(p)
        \/ Tick

Spec == Init /\ [][Next]_vars
=============================================================================
