-------------------------------- MODULE Store --------------------------------
(* The store: writers that take turns on one mutex and publish a new view by  *)
(* one atomic store, and readers that load that view without a lock           *)
(* (store.go; the query path of query.go, agg.go and groupby.go).             *)
(*                                                                            *)
(* A step is what another goroutine can observe in between: taking mu and     *)
(* sampling the clock, one record of a batch, one merge, the publication.     *)
EXTENDS View, Sequences

CONSTANTS Writers,    \* goroutines that call Apply, Compact or ReplaceAll
          Readers,    \* goroutines that query
          NoOne,      \* mu is free
          StartTime,  \* the clock when the process starts
          MaxNow,     \* bound on the clock
          MaxBatch,   \* bound on the records of one Apply
          MaxDump     \* bound on the records of one ReplaceAll

VARIABLES view,            \* the published view
          capBlocked,
          lastDictCompact,
          mu,              \* the holder of the mutex
          pc,              \* per writer: the call it is in
          job,             \* per writer: the locals of that call
          ret,             \* how the last writer call ended
          held,            \* per reader: the view its query loaded
          reading,         \* per reader: a query is under way
          res,             \* per reader: the rows its query counted
          now              \* the clock

writerVars == <<view, capBlocked, lastDictCompact, mu, pc, job, ret>>
readerVars == <<held, reading, res>>
vars == <<view, capBlocked, lastDictCompact, mu, pc, job, ret, held, reading, res, now>>

\* The process starts long after 1970: no cutoff is ever negative.
ASSUME StartAssumption ==
    /\ StartTime \in Time /\ MaxNow \in StartTime .. MaxTime
    /\ TTL < StartTime
    /\ MaxBatch \in Nat /\ MaxDump \in Nat
    /\ NoOne \notin Writers

Results == {"none", "ok", "bad_record", "key_overflow", "row_limit"}

\* batch: the records still to process; work: the view applyDelta builds;
\* cutoff and nowMilli: the clock samples; renumber: compact dictionaries too.
Job == [batch: Seq(Inputs), work: AnyView, cutoff: Time, nowMilli: Time, renumber: BOOLEAN]

NoJob == [batch |-> <<>>, work |-> newView(emptySnapshot),
          cutoff |-> 0, nowMilli |-> 0, renumber |-> FALSE]

Nothing == [base |-> {}, delta |-> {}]

Init ==
    /\ view = newView(emptySnapshot)
    /\ capBlocked = FALSE
    /\ lastDictCompact = 0
    /\ mu = NoOne
    /\ pc = [w \in Writers |-> "idle"]
    /\ job = [w \in Writers |-> NoJob]
    /\ ret = "none"
    /\ held = [p \in Readers |-> newView(emptySnapshot)]
    /\ reading = [p \in Readers |-> FALSE]
    /\ res = [p \in Readers |-> Nothing]
    /\ now = StartTime

-----------------------------------------------------------------------------
(* Entering and leaving a call.                                               *)

\* Mutant: the call does not take the mutex.
EnterAlways(w) == pc[w] = "idle"

\* s.mu.Lock() succeeds.
Enter(w) == pc[w] = "idle" /\ mu = NoOne

Lock(w, call, j) ==
    /\ Enter(w)
    /\ mu' = w
    /\ pc' = [pc EXCEPT ![w] = call]
    /\ job' = [job EXCEPT ![w] = j]
    /\ ret' = "none"
    /\ UNCHANGED <<view, capBlocked, lastDictCompact, readerVars, now>>

Return(w, result) ==
    /\ mu' = NoOne
    /\ pc' = [pc EXCEPT ![w] = "idle"]
    /\ job' = [job EXCEPT ![w] = NoJob]
    /\ ret' = result
    /\ UNCHANGED <<readerVars, now>>

Fail(w, result) ==
    Return(w, result) /\ UNCHANGED <<view, capBlocked, lastDictCompact>>

\* Over MaxRows: the old view keeps serving, new tuples are turned away.
Refuse(w) ==
    /\ Return(w, "row_limit")
    /\ capBlocked' = TRUE
    /\ UNCHANGED <<view, lastDictCompact>>

\* swap: the new snapshot starts with an empty delta and lifts the block.
Publish(w, snap) ==
    /\ Return(w, "ok")
    /\ view' = newView(snap)
    /\ capBlocked' = FALSE

-----------------------------------------------------------------------------
(* Apply: upsert a batch into a copy of the delta, publish it at the end.     *)

ApplyBegin(w, recs) ==
    Lock(w, "apply", [NoJob EXCEPT !.batch = recs, !.work = view, !.cutoff = ttlCutoff(now)])

ApplyNext(w) ==
    /\ pc[w] = "apply" /\ job[w].batch # <<>>
    /\ LET r == Head(job[w].batch)
           j == job[w]
       IN  /\ ~Rejected(r, j.cutoff)
           /\ job' = [job EXCEPT ![w].batch = Tail(j.batch),
                                 ![w].work = IF Aged(r, j.cutoff) THEN j.work
                                             ELSE ApplyRecord(j.work, ToRow(r), capBlocked)]
    /\ UNCHANGED <<view, capBlocked, lastDictCompact, mu, pc, ret, readerVars, now>>

ApplyFail(w) ==
    /\ pc[w] = "apply" /\ job[w].batch # <<>>
    /\ Rejected(Head(job[w].batch), job[w].cutoff)
    /\ Fail(w, "bad_record")

ApplyEnd(w) ==
    /\ pc[w] = "apply" /\ job[w].batch = <<>>
    /\ Return(w, "ok")
    /\ view' = job[w].work
    /\ UNCHANGED <<capBlocked, lastDictCompact>>

-----------------------------------------------------------------------------
(* Compact: merge the delta into a fresh base.  nowMilli is sampled on entry, *)
(* the TTL cutoff again by each merge.                                        *)

CompactBegin(w) ==
    Lock(w, "compact", [NoJob EXCEPT !.nowMilli = now,
             !.renumber = DictCompactInterval <= 0 \/ now - lastDictCompact >= DictCompactInterval])

Merged(w) == mergeView(view, ttlCutoff(now), job[w].nowMilli, job[w].renumber)

\* Mutant: the retry merges with the old dictionaries again.
CompactRetrySame(w) ==
    /\ pc[w] = "compact" /\ ~job[w].renumber
    /\ KeyOverflow(Merged(w).dicts)
    /\ UNCHANGED vars

\* An id-stable merge that overflows is retried once with compacted dictionaries.
CompactRetry(w) ==
    /\ pc[w] = "compact" /\ ~job[w].renumber
    /\ KeyOverflow(Merged(w).dicts)
    /\ job' = [job EXCEPT ![w].renumber = TRUE]
    /\ UNCHANGED <<view, capBlocked, lastDictCompact, mu, pc, ret, readerVars, now>>

\* Mutant: an overflow is final even when the dictionaries hold garbage.
CompactOverflowAtOnce(w) ==
    /\ pc[w] = "compact"
    /\ KeyOverflow(Merged(w).dicts)
    /\ Fail(w, "key_overflow")

CompactOverflow(w) ==
    /\ pc[w] = "compact" /\ job[w].renumber
    /\ KeyOverflow(Merged(w).dicts)
    /\ Fail(w, "key_overflow")

CompactRefuse(w) ==
    /\ pc[w] = "compact"
    /\ ~KeyOverflow(Merged(w).dicts) /\ OverCap(Merged(w).rows)
    /\ Refuse(w)

CompactEnd(w) ==
    /\ pc[w] = "compact"
    /\ ~KeyOverflow(Merged(w).dicts) /\ ~OverCap(Merged(w).rows)
    /\ Publish(w, Merged(w))
    /\ lastDictCompact' = IF job[w].renumber THEN job[w].nowMilli ELSE lastDictCompact

-----------------------------------------------------------------------------
(* ReplaceAll: rebuild from a full dump.                                      *)

ReplaceBegin(w, recs) ==
    Lock(w, "replace", [NoJob EXCEPT !.batch = recs, !.cutoff = ttlCutoff(now)])

ReplaceFail(w) ==
    /\ pc[w] = "replace"
    /\ BuildFails(Range(job[w].batch), job[w].cutoff)
    /\ Fail(w, IF \E r \in Range(job[w].batch) : Rejected(r, job[w].cutoff)
               THEN "bad_record" ELSE "key_overflow")

ReplaceEnd(w) ==
    /\ pc[w] = "replace"
    /\ ~BuildFails(Range(job[w].batch), job[w].cutoff)
    /\ \E snap \in buildFromRecords(Range(job[w].batch), job[w].cutoff, now) :
         \/ OverCap(snap.rows) /\ Refuse(w)
         \/ ~OverCap(snap.rows) /\ Publish(w, snap) /\ UNCHANGED lastDictCompact

-----------------------------------------------------------------------------
(* A query: load the view once, sample the clock once, scan base and delta.   *)

QueryLoad(p) ==
    /\ ~reading[p]
    /\ reading' = [reading EXCEPT ![p] = TRUE]
    /\ held' = [held EXCEPT ![p] = view]
    /\ res' = [res EXCEPT ![p] = Nothing]
    /\ UNCHANGED <<writerVars, now>>

\* Mutant: the delta is scanned in a view loaded anew.
QueryScanTorn(p) ==
    /\ reading[p]
    /\ reading' = [reading EXCEPT ![p] = FALSE]
    /\ res' = [res EXCEPT ![p] = [base |-> BaseScan(held[p], now), delta |-> DeltaScan(view, now)]]
    /\ held' = [held EXCEPT ![p] = newView(emptySnapshot)]
    /\ UNCHANGED <<writerVars, now>>

QueryScan(p) ==
    /\ reading[p]
    /\ reading' = [reading EXCEPT ![p] = FALSE]
    /\ res' = [res EXCEPT ![p] = [base |-> BaseScan(held[p], now), delta |-> DeltaScan(held[p], now)]]
    /\ held' = [held EXCEPT ![p] = newView(emptySnapshot)]
    /\ UNCHANGED <<writerVars, now>>

Tick ==
    /\ now < MaxNow
    /\ now' = now + 1
    /\ UNCHANGED <<writerVars, readerVars>>

-----------------------------------------------------------------------------
Batches == UNION {[1 .. n -> Inputs] : n \in 0 .. MaxBatch}
Dumps == UNION {[1 .. n -> Inputs] : n \in 0 .. MaxDump}

WriterStep(w) ==
    \/ ApplyNext(w) \/ ApplyFail(w) \/ ApplyEnd(w)
    \/ CompactRetry(w) \/ CompactOverflow(w) \/ CompactRefuse(w) \/ CompactEnd(w)
    \/ ReplaceFail(w) \/ ReplaceEnd(w)

WriterCall(w) ==
    \/ \E recs \in Batches : ApplyBegin(w, recs)
    \/ CompactBegin(w)
    \/ \E recs \in Dumps : ReplaceBegin(w, recs)

Next ==
    \/ \E w \in Writers : WriterCall(w) \/ WriterStep(w)
    \/ \E p \in Readers : QueryLoad(p) \/ QueryScan(p)
    \/ Tick

Spec == Init /\ [][Next]_vars

\* The goroutine that holds mu never blocks and the Go scheduler does not starve
\* it; nothing is assumed about when calls are made.
FairSpec == Spec /\ \A w \in Writers : WF_vars(WriterStep(w))

-----------------------------------------------------------------------------
(* Properties.                                                                *)

\* Type correctness of the store's state.
TypeOK ==
    /\ view \in AnyView
    /\ capBlocked \in BOOLEAN
    /\ lastDictCompact \in Time
    /\ mu \in Writers \cup {NoOne}
    /\ pc \in [Writers -> {"idle", "apply", "compact", "replace"}]
    /\ job \in [Writers -> Job]
    /\ ret \in Results
    /\ held \in [Readers -> AnyView]
    /\ reading \in [Readers -> BOOLEAN]
    /\ res \in [Readers -> [base: SUBSET Row, delta: SUBSET Row]]
    /\ now \in StartTime .. MaxNow

\* Every view a goroutine can see, the published one, one a query still holds
\* and the copy a batch is building, keeps the relations the code relies on: one
\* row per tuple in base and in delta, the overridden bitmap marks exactly the
\* base rows the delta supersedes, every value is in a dictionary and in one
\* only, and the cached extrema (maxUpdated, minUpdated, minExpire, hasExpiry)
\* describe the rows.
ViewsOK ==
    /\ ViewOK(view)
    /\ \A p \in Readers : ViewOK(held[p])
    /\ \A w \in Writers : ViewOK(job[w].work)

\* mu serialises the calls: whoever is in a call holds it.
LockOK ==
    \A w \in Writers : /\ pc[w] # "idle" <=> mu = w
                       /\ pc[w] = "idle" => job[w] = NoJob

\* What the locals of the call under way owe to the shared state they were taken
\* from, whatever other writers do meanwhile: a batch works on the base that is
\* still the published one, so that ApplyEnd undoes no merge, dump or batch, and
\* while the row cap blocks it has added no tuple; the clock samples are of this
\* run and not ahead of the clock.
JobsOK ==
    /\ LockOK
    /\ \A w \in Writers :
         /\ job[w].cutoff >= 0
         /\ pc[w] \in {"apply", "replace"} =>
                \E n \in StartTime .. now : job[w].cutoff = ttlCutoff(n)
         /\ pc[w] = "compact" => job[w].nowMilli \in StartTime .. now
         /\ pc[w] = "apply" =>
                /\ job[w].work.base = view.base
                /\ capBlocked => Tuples(Logical(job[w].work)) \subseteq Tuples(Logical(view))

\* A query counts no tuple twice: a row upserted into the delta is no longer
\* counted from the base, and no tuple has two rows in either part.
EachTupleOnce ==
    \A p \in Readers :
        /\ UniqueTuples(res[p].base \cup res[p].delta)
        /\ res[p].base \cap res[p].delta = {}

\* The base never grows beyond Config.MaxRows, however rows get into it.
CapRespected == MaxRows > 0 => ~(Cardinality(view.base.rows) > MaxRows)

\* SyncPosition is the newest UpdatedAt of the rows the table holds, neither
\* that of a row superseded since nor one a stale record advanced.
SyncPositionExact == maxUpdated(view) = MaxUpdated(Logical(view))

\* NeedsCompaction says whether a Compact at this moment would merge a delta or
\* reclaim a row: the cached minima miss no aged or expired row, and raise no
\* false alarm that would make the Compactor merge in vain.
NeedsCompactionExact ==
    NeedsCompaction(view, now) <=>
        \/ view.delta.rows # {}
        \/ Survivors(view, ttlCutoff(now), now) # view.base.rows

\* While the row cap blocks, no published step adds a tuple to the table other
\* than a dump that fits and thereby lifts the block.
NoNewTupleWhileBlocked ==
    [][capBlocked /\ capBlocked' => Tuples(Logical(view')) \subseteq Tuples(Logical(view))]_vars

\* Compact reports ErrKeyOverflow only when the live rows alone overflow the key
\* budget: garbage in the dictionaries never makes it fail.
OverflowIsGenuine ==
    [][\A w \in Writers :
         pc[w] = "compact" /\ pc'[w] = "idle" /\ ret' = "key_overflow" =>
            KeyOverflow(ValuesOf(Survivors(view, ttlCutoff(now), job[w].nowMilli)))]_vars

\* Stats warns in time: Compact never reports ErrKeyOverflow on a view whose
\* IndexKeyBits, read without the lock at any moment since the last publication,
\* was within the budget.
KeyBitsForewarn ==
    [][\A w \in Writers :
         pc[w] = "compact" /\ pc'[w] = "idle" /\ ret' = "key_overflow" =>
            IndexKeyBits(view) > KeyBudget]_vars

\* Every call returns; Compact retries an overflow at most once.
EveryCallReturns == \A w \in Writers : pc[w] # "idle" ~> pc[w] = "idle"

-----------------------------------------------------------------------------
(* The store implements the reference table.                                  *)

InCall(call) == mu \in Writers /\ pc[mu] = call

\* The call under way as the table sees it: a merge is none, it takes effect at once.
refCall == IF InCall("apply") THEN "apply" ELSE IF InCall("replace") THEN "replace" ELSE "none"
refPend == IF InCall("apply") \/ InCall("replace") THEN job[mu].batch ELSE <<>>
refWork == IF InCall("apply") THEN Logical(job[mu].work) ELSE Logical(view)
refSnap == [p \in Readers |-> IF reading[p] THEN {Logical(held[p])} ELSE {}]
refAns == [p \in Readers |-> res[p].base \cup res[p].delta]

Ref == INSTANCE RefTable WITH
    table <- Logical(view), blocked <- capBlocked, call <- refCall, pend <- refPend,
    work <- refWork, snap <- refSnap, ans <- refAns, now <- now

\* Every behaviour of the store is one of the reference table: batches upsert in
\* order and as a whole, the newest record of a tuple wins, compaction removes
\* only rows that have aged or expired, and a query answers from the one table state it
\* loaded, with the rows that have not expired when it scans.
ImplementsRefTable == Ref!Spec

-----------------------------------------------------------------------------
(* Statements of the documentation the code does not keep.                    *)

\* schema.go, Config.TTL: "Zero disables TTL eviction"; snapshot.go: a cutoff of
\* "0 keeps all".  So with no TTL every accepted record leaves its tuple present.
ZeroTTLKeepsAll ==
    [][\A w \in Writers :
         TTL = 0 /\ pc[w] = "apply" /\ pc'[w] = "apply" /\ job'[w] # job[w] /\ ~capBlocked =>
            Resolve(Head(job[w].batch)) \in Tuples(Logical(job'[w].work))]_vars
=============================================================================
