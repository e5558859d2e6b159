# A verification development for facetta

facetta is an embedded Go library: an in-memory, columnar aggregation table that a
host keeps in step with an upstream database by pulling changed rows. The host calls
`Apply` with upserts (or `ReplaceAll` with a full dump), queries run concurrently
without locks, a background `Compactor` merges the upserts into the columns, and a
snapshot file lets a restart resume from a sync position.

This directory holds TLA+ modules translated from the Go source, TLC configurations
that check them on small instances, and TLAPS proofs of the main results for all
instances. `PROJECT.json` maps every definition to the lines it models.

## 1. Inventory

| Component | Source | State | Operations | Correct when |
|---|---|---|---|---|
| Schema, records | `schema.go` | immutable schema, config | validation; `Record` with `UpdatedAt`, `ExpireAt` | a record has one canonical dimension tuple whatever its integers' spelling |
| Reference table | `reference_test.go` | map of tuple to row | apply, replaceAll, expire, query | it is the specification ("the semantic oracle") |
| Dictionaries | `dict.go` | string/int to dense id | intern, lookup, clone | each value has one id; shared ones are never written |
| Snapshot (base) | `snapshot.go` | sorted rows, dictionaries, packed index keys, cached `maxUpdated`, `minUpdated`, `minExpire` | `buildFromRecords`, `mergeView`/`zipMerge` | one row per tuple, keys fit 64 bits, cached scalars exact |
| View (delta overlay) | `view.go` | base, delta rows, `extras`, `overridden` bitmap | `applyDelta`, `findRow` | delta shadows exactly what it supersedes |
| Store | `store.go` | `view` pointer, `mu`, `capBlocked`, `lastDictCompact` | `Apply`, `Compact`, `ReplaceAll`, `SyncPosition`, `NeedsCompaction` | linearises to the reference table; the row cap holds; calls return |
| Persistence | `persist.go` | snapshot file, temporary file | `SaveSnapshot`, `LoadSnapshot` | a crash leaves a loadable file; a load leaves a right view |
| Compactor | `compactor.go` | two tickers, counters | `Run`, `compactAndSave` | deltas and expired rows are merged, a cap block is lifted when it can be |
| Query path | `query.go` | none of its own | resolve conditions, plan intervals, sweep base, scan delta | answers from one view, each live row once whatever the plan; the scan budget counts what the sweep visits |
| Aggregates | `agg.go` | accumulators and bitmaps in the scratch | fold rows, finish columns | each column is the aggregate of the selected rows |
| Group by | `groupby.go` | the caller's result buffer: groups, seen distinct values | open, fold, sort groups | one row per key, ascending, each column exact |
| Query scratch | `scratch.go` | `sync.Pool` of buffers | route by shape, grow, release | no slice outgrows its capacity, nothing of one query reaches another |
| Stats | `stats.go` | none | counters for monitoring, key width | the width warns before a merge fails |

Interaction: writers (`Apply`, `Compact`, `ReplaceAll`, the tail of `LoadSnapshot`)
serialise on `mu`, read the published view, and publish a new one with one atomic
pointer store. Readers load that pointer and never lock, so they may hold an old view
while several newer ones are published. `SaveSnapshot` takes no lock either. The
Compactor is one more caller of `Compact` and `SaveSnapshot` that decides on values it
reads without the lock at different moments. A query takes scratch memory from the stack
or from a pool, by the shape of its conditions; what it finds there was written by
whatever query had it before.

What is hard: interleavings of lock-free readers with publications; batches that fail
half-way; long sequences of upserts, dumps and merges that must keep the overridden
bitmap, the extras and the cached extrema exact; the row cap, which changes what later
batches may do; two clocks per call (TTL cutoff and expiry); key overflow with one
retry; crashes around a rename; recovery of a blocked store by a ticker; below that, the
representation: sorted rows under packed keys that must survive id-stable and renumbering
merges, dictionaries shared between views, a planner with several ways to find the same
rows, hand-extended slices and reused scratch. The full list,
with lines, is `hazards` in `PROJECT.json`.

## 2. Modules

```
Records  <-- RefTable                                      abstract table
   ^            ^ refines
  View  <--  Store  <-- StorePersist <-- Compactor         the system
   ^  ^
   |  ViewTable                                            whole calls over View
   |      ^ refines
Columns <-- ColumnTable                                    ids, keys, shared dictionaries
   ^
 Query  <-- QueryCalls                                     plans, folds, groups, scratch

Loops, ViewProofs <-- StoreProofs                          theorems
           ^--- ColumnLemmas <-- ColumnProofs
                     ^--- QueryLemmas <-- QueryProofs <-- QueryAnswers
MCStore, MCPersist, MCCompactor, MCColumns, MCQuery        small instances
```

**Records** (`schema.go` and record helpers). A dimension value is its spelling; on an
integer dimension `ParseInt` maps each spelling to the canonical one of its integer,
which is what interning by integer value does, or to `NonInt`. Times are unix
milliseconds. `Inputs` is the set of records the host may send. Two assumptions matter:
no input has `UpdatedAt` exactly at the epoch, because 0 is the sentinel of
`minUpdated`, and the process starts later than TTL after 1970.

**View**. Pure operators for the immutable view: `ApplyRecord` is one iteration of the
loop of `applyDelta`, `mergeView` the merge, `buildFromRecords` the set of snapshots a
rebuild may produce (the sort is unstable, so equally new duplicates are a choice). Rows
are sets of records, a dictionary is the set of values in it. That rows are sets does
not give uniqueness of tuples: two rows of one tuple are two elements, and no operation
is protected from producing them. Left out: ids, sort order, packed keys (their width
`dictBits`, `KeyOverflow` is kept); they are in `Columns`. `IndexKeyBits` is the width
`Stats` reports.

**Store**. `view`, `capBlocked`, `lastDictCompact`, `mu` are the fields of `Store`;
`pc` and `job` the call each writer goroutine is in and its locals; `held`, `reading`,
`res` a query per reader goroutine. Steps are what others can observe: taking the lock
and sampling the clock (`ApplyBegin`, `CompactBegin`, `ReplaceBegin`), one record of a
batch (`ApplyNext`, `ApplyFail`), one merge attempt (`CompactRetry`, `CompactOverflow`,
`CompactRefuse`, `CompactEnd`), the rebuild (`ReplaceFail`, `ReplaceEnd`), publication
(`ApplyEnd`), and for a query the pointer load and then the two scans with the clock
sampled in between (`QueryLoad`, `QueryScan`). `Tick` moves the clock between any two.

**RefTable**. What the store promises: a set of rows, one per tuple. Batches upsert
record by record into a working copy and take effect at once or not at all; a dump
replaces the table by one of the newest records of each tuple; a reclaim may only remove
aged and expired rows; the cap may only refuse new tuples; a query answers with the rows
of one table state that have not expired when it scans. `Store` implements it under the
mapping `Logical(view)` = base minus overridden plus delta.

**StorePersist**. Adds the file at `SnapshotPath`, savers and loaders. Saving goes through
the temporary file's states (written, synced, renamed, failed at any point). A crash
loses memory and tears a file whose bytes were not synced. Loading reads and validates
without the lock and publishes later under it. Files of an earlier configuration (larger
cap, a dimension that was not yet `DimInt`) are possible initial files. The byte
encoding, format version and schema fingerprint are abstracted to the image and the
validations that can refuse it.

**Compactor**. `Run`'s select loop over two tickers whose channels hold one tick, the
reads of `capBlocked`, `DeltaRows` and `Rows` at their own moments, and
`compactAndSave`. Host writers and readers run beside it.

**Columns**. The representation `View` leaves out, operation by operation: a dictionary is
the sequence of its values, an id a position counted from 0 (an id at or above the length
of the base dictionary is an extras id), a snapshot a sequence of rows of ids sorted by a
packed key, counted from 1. `getOrAdd`, `findRowIn` (binary search of the key, then a
linear look at its equals), `Upsert`, `remap`, `keysStable` and `zipMerge` (carry keys over
or pack them anew), `buildColumns` (sort by key, ids, newest first; equal elements in any
order). `AbsView` is the view of `View` that a column view stands for. The code computes
keys of dropped delta rows and maps unused ids to 0; both are kept.

**ColumnTable**. One published column view, its dictionaries as objects on a heap. A view
has them by address; the published one's are at `BaseRef` and `ExtrasRef`, a call
allocates at `NewBaseRef` and `NewExtrasRef`, so a write that should have gone to a clone
changes the published view. A call is two steps, building a view and publishing it
(`Publish` also renames the addresses, as a collector would). A failed batch builds
nothing but may have written. The lock, the rate limit and the retry are in `Store`; here
any call may follow any other.

**ViewTable**. The same calls over `View`, as the specification `ColumnTable` implements
under `AbsView`.

**Query**. Pure operators over a column view: `resolve` (conditions to ids, where a group
fails or dies), `plan` (the covered prefix of the index dimensions, expansion of IN lists
while it pays and there is room, the intervals found by binary search), `scanRows` (the
budget), `sweep` (intervals in order above a high-water mark), `matched` (which rows some
group accepts), `foldAgg`, `visit` and `groupBy`. At its end, from `reference_test.go`,
what a query should answer: a filter over the logical table and aggregates of it.

**QueryCalls**. Calls in sequence, over views of a given set that `Publish` exchanges. A
call (`Call`) measures its shape, takes a stack scratch or any pooled one and grows it
(`leases`), plans and runs (`run`, `runPlans`), and releases it; the pool may forget
scratches (`Evict`). A call is one step because it reads one immutable view, samples the clock once
and writes memory nobody else has; which view it gets while writers publish is what
`Store` is about. A scratch is its capacities and what a later query could read in it:
accumulators and bitmaps.

## 3. Runs

| Run | Bounds | Shows |
|---|---|---|
| `store_writers` | one writer, batches and dumps of up to 2 of 10 records, `MaxRows` 1, clock 5..6, TTL 2 | `TypeOK`, `ViewsOK`, `CapRespected`, `SyncPositionExact`, refinement, `NoNewTupleWhileBlocked` |
| `store_readers` | two writers, one reader, batches of 1 | `EachTupleOnce`, `JobsOK` and refinement under every interleaving: dropping the lock breaks both of the latter |
| `store_overflow` | three index values, a one-bit key, no cap, rate-limited dictionary compaction | `NeedsCompactionExact`, `OverflowIsGenuine`, `KeyBitsForewarn`, `EveryCallReturns` |
| `persist_file` | one writer, saver, loader; four earlier files; crashes anywhere | `PersistTypeOK`, `FileLoadable`, `LoadedViewsOK`, `CapRespected` |
| `compactor` | the Compactor and one host writer, `MaxRows` 1 | `IngestionRecovers`, `ExpiredRowsReclaimed`, `RunTypeOK` |
| `columns` | five calls: batches of one, dumps of two, of five records; two index dimensions and an integer one | `ColumnsOK`, `PublishedFrozen`, `ImplementsView` |
| `queries` | 22 queries at two instants, three views of at most some 25 rows, a stack scratch and a pool of one | `AnswersExact`, `GroupsExact`, `BudgetBoundsScan`, `NeverGrows`, `StackNeverStarves`, `PooledPinsNothing` |
| `zero_ttl`, `saved_position`, `dump_blocks`, `distinct_columns`, `noncanonical_file` | as small as the case | violations, section 6 |

Why the bounds are enough to be interesting. Two clock values with a TTL of 2 and
`UpdatedAt` 2..5 give rows that are too old from the start, rows that age out during the
run and rows that stay; expiries are past, pending, or never. Batches of two contain a
good record before a bad one, an older after a newer one, and the same integer in two
spellings. A cap of one makes every second tuple a cap case, and the cap is left through
TTL, expiry and dumps. `store_writers` has bases of at most one row because of that cap;
bases of up to three rows occur in `store_overflow`, which is why the exactness of the
cached minima is checked there. Two writers are enough for a lost update, one reader for
a torn read, as neither has further state. Integer `KeyBudget` 1 stands for the 64 bits
of the code: what matters is that live values fit, live plus garbage do not. `dumps` are
off (`MaxDump` 0) in `persist_file` and `compactor` to keep them small: a dump is one
more publication of a right snapshot, except in the case `dump_blocks` isolates.

In `columns` two index dimensions with up to three values make the lower field of the key
grow from one bit to two and so shift the upper one; the further dimension lets two rows
share a key; a record that fails at its last dimension has interned the earlier ones. Five
calls (`MaxCalls`) are enough for a dump, batches that add a value and override a base row,
and two merges of different kinds after them. In `queries` the base has 20 rows because an
expansion must be cheaper than a scan: four combinations times the five bits of a binary
search over 20 rows just pay, which the two-dimension expansion needs. The three views are
a delta alone, base and delta, and the same after an id-stable merge and another batch,
with values only the delta knows, overridden rows and rows that have expired by the
clock. The sizes of the stack scratch, `ExpansionIvs`, `InLinearMax` and the budget
`MaxScanRows` are scaled down so that the queries lie on both sides of each; one pooled
scratch shows what any earlier query leaves to any later one. The queries are given, not
enumerated: one per combination of plan kinds, see the comments in `MCQuery`.

Every bound: `MaxNow` (clock), `MaxBatch`, `MaxDump` (records per call), `Inputs`,
`Writers`, `Readers`, `Savers`, `Loaders`; `MaxApply`, `MaxReplace`, `MaxCalls`, `Clocks` in
`columns`; `Views`, `Queries`, `Clocks`, `MaxPool` in `queries`. Deadlock is checked in every
run but `columns`, which ends when `MaxCalls` is reached.

Fairness. `FairSpec`: the steps of a call already under way are weakly fair (the holder
of `mu` never blocks and the Go scheduler runs it); nothing is assumed about when calls
are made. `CompactorFairSpec`: tickers keep ticking; `Run`'s own steps are weakly fair;
strong fairness for receiving the tidy tick, since `select` picks at random among ready
cases, and for taking the lock, since `sync.Mutex` passes to a waiter in starvation mode.

## 4. What is proved

All theorems hold for every schema, record set, TTL, cap, key budget, clock range, batch
bound and every set of writers, readers, savers and loaders; those on columns and queries
for tables, dictionaries and queries of any size and any scratch sizes. They rest on the
named assumptions of

* `Records`: `SchemaAssumption` (a schema is finite, canonical integers are canonical),
  `TimeAssumption`, `InputAssumption`;
* `View`: `LimitAssumption`, `EmptyKeyFits` (sixteen empty dimensions fit a key);
* `Store`: `StartAssumption`; `ColumnTable`: `ClockAssumption` (the process runs later than
  TTL after 1970); `StorePersist`: `EarlierAssumption` (an earlier process wrote unique
  rows, covered by dictionaries, with their newest position); `Compactor`:
  `RunnerAssumption`;
* `Columns`: `OrderAssumption` (the schema lists every dimension, the index prefix first);
* `Query`: `QueryAssumption` (metrics are integers, the limits natural, and spellings have
  a linear order, that of strings);
  `QueryCalls`: `ScratchAssumption` (the stack has an interval per plan and fewer than
  `ivDemandCap`), `CallsAssumption` (a query is a list of lists of conditions, columns and
  group-by dimensions, right or wrong; the clock is a time), `ViewsAssumption` (every view
  a query may get satisfies `ReadsRight`: exactly what `ColumnsAlwaysOK` proves of the
  views `ColumnTable` publishes).

TLC evaluates them in every run that extends the module.

| Module | Theorems |
|---|---|
| `StoreProofs`, the store | `Invariance` (of `IInv`), `TypeCorrect`, `EveryViewRight`, `BatchFitsView`, `CapNeverExceeded`, `NoDoubleCount`, `SyncPositionCorrect`, `NeedsCompactionCorrect`, `BlockBinds`, `OverflowNeverSpurious`, `WidthWarnsInTime`, `Refinement` |
| `StoreProofs`, its file | `PersistInvariance` (of `PInv`), `PersistTypeCorrect`, `SavedFileLoads`, `LoadedViewsRight`, `LoadWithinCap`, `BlockBindsLoads`, `OverflowGenuineAfterLoads` |
| `StoreProofs`, the goroutine | `CompactorIsStore`, `RunTypeCorrect` |
| `ColumnProofs` | `ColumnInvariant` (of `ColumnInv`), `ColumnsAlwaysOK`, `PublishedNeverChanges`, `ColumnsImplementView` |
| `QueryProofs` | `QueryInvariant` (of `QueryInv`), `BudgetExact`, `ScratchNeverGrows`, `PoolPinsNothing`, `StackPlansAll` |
| `QueryAnswers` | `AnswersAlwaysExact`; for queries of at most 2^8 columns `GroupsAlwaysExact`, `FewColumnsDistinct` |

`ViewProofs`, `ColumnLemmas` and `QueryLemmas` hold the lemmas about single operators,
`Loops` those about loops.

The hypothesis of the last two theorems, `\A q \in Queries : Len(q.aggs) <= 2^8`, is the
bound of the code: `distinct_columns` shows a query of 2^8 + 1 columns whose distinct
counts are wrong, `GroupsAlwaysExact` that none with fewer columns has wrong ones.

The argument for the store. `ViewsOK` alone is not inductive: a batch ends by publishing
its working copy, so the copy must be right too, and it must still have the published base, or the
row cap would not carry over. Hence `IInv` adds `JobsOK`: only the holder of `mu` is in a
call, a batch works on the published base, adds no tuple while blocked, and its clock
samples lie between the start and now. That cutoffs are never negative (so that every
stored row is newer than 1970) is what lets `minUpdated` use 0 for "no row", and it is
the reason for the assumption that the process starts later than TTL after 1970. In an
upsert the delicate conjuncts are the cached maximum, which a stale upsert must not
advance and an equal one must keep reached, and the bitmap: a base row of the tuple is
either already marked, or found by the search, or cannot exist because one value of the
tuple is not in the base dictionaries. For the refinement, aged at the cutoff sampled by
`Apply` implies aged now, which is all the abstract table asks. `WidthWarnsInTime` needs
one more invariant, that every dictionary is finite: then fewer values never need a wider
key, and what a merge keeps is among the values `IndexKeyBits` counts.

The argument for the file. `PInv` adds to `IInv` that a file at the path is synced and
either right by this schema or left by an earlier process, and that whatever a save or a
load holds is right. `ReadOK` is the core: the checks of `readSnapshotFile` make parsing
injective on every dictionary, so distinct rows stay distinct, and the recomputed minima
and the stored position fit them. `RightIsLoadable` is the converse for files of this
schema: their integers are canonical, so parsing changes nothing and no check fires. A
crash finds no unsynced file at the path, hence leaves it alone. A load publishes under
the lock only, so it meets no batch whose base it would exchange.

Loops. The columns and the queries are folds over sequences, and the provers cannot
instantiate a theorem about every operator. `Loops` has the body and the invariant of one
loop as CONSTANTs, and proves that a fold goes through a run of values and keeps what
every step keeps, by the least counterexample over the lengths. A proof takes one
`INSTANCE` of it for each loop; two loops that go through the same elements are compared
through the run of one as the context of the other.

The argument for the columns. `ColumnInv` says that what the addresses of the published
view and of the view under construction refer to represents a table (`RepOK`): injective
dictionaries of canonical values, extras that do not repeat the base, ids in range, keys that
are the packed ids and fit, rows in the order of key and ids with no tuple twice, delta
rows without repetition, the overridden set exactly the base rows of their tuples, exact scalars. It
also says that the published view has its own addresses, so that a write to a clone leaves
it alone. `ColumnLemmas` prove that binary search finds the boundary of any order, that
sorting permutes and orders, that the packed key orders rows by the ids of the index
prefix as long as these fit the bits `keyBits` counts, that the remapping of a merge preserves
or recomputes that order, that the zip of two sorted runs is sorted and drops exactly the overridden and
the reclaimed, and that a rebuild keeps the newest of each tuple. Exact expiry flags need
the exact minima of the view, and these that every stored row is newer than 1970
(`Stamped`). The refinement shows that `AbsView` takes each of these to the operation of
`View`: the id a value gets, the row found, the dictionaries a merge keeps. `ColumnTable` makes a call in two steps where
`ViewTable` makes it in one, so the invariant is that the view under construction is one
abstract call away from the published one (`RefInv`), and publishing is that call.

The argument for the queries. A call is one step and the pool is what joins them, so
`QueryInv` says that no pooled scratch holds a bitmap, whatever query had it. For the
bound on the slices: a scratch is grown to the shape, the shape sums what each group's
conditions need, and resolving or planning a group takes no more than that, for the
intervals because an expansion stops at the room left with one interval reserved for each
group to come. `BudgetExact` takes the loop that counts and the loop that sweeps side by
side: each advances the same high-water mark. For `StackPlansAll`, the product of the
lengths of a group's IN lists (its demand, as `groupIvDemand` caps it) bounds the
combinations an expansion can reach, whichever prefix of the index dimensions it covers; on
the stack the demands sum to at most the intervals there are, so the room left for a group
is always at least its demand, and its plan is the one it would get with any more room.

The argument for the answers. It goes along the path of a query, each part for any view
that satisfies `ReadsRight`, any query and any scratch.

1. Resolving is exact: a group that resolves accepts a row's ids precisely if the row the
   ids stand for meets its conditions; one that is dead accepts none; a failure means a
   wrong condition. Equality of values is equality of ids because dictionaries are
   injective across base and extras.
2. Planning loses nothing: every base row a resolved group accepts lies in one of the
   plan's intervals. For a covered prefix and each combination of an expansion, the rows
   with those ids are a run of keys, and both binary searches find its ends (keys are
   sorted and pack the ids without collision); candidates cut off an IN at the base
   dictionary are ids no base row has. Nothing is asked of the converse: too wide an
   interval costs time, the match decides.
3. The sweep, over the intervals in order of their start, visits each row of their union
   once: the high-water mark is above everything visited (`SweepInv`).
4. Hence `matched` lists, each once, rows that stand one to one for
   `Selected(view, groups, now)` (`MatchedIs`): base rows that are not overridden, have
   not expired and meet some group, then delta rows likewise. `minExpire` and `hasExpiry`
   only skip checks that cannot fail (`ExpiryOK`).
5. Folds over any listing give the aggregates of the set listed: totals of a metric as a
   sum over a bijection, extrema by the first-row rule, distinct counts through the
   bitmap of ids, averages from sum and count. A column starts from zero and an empty
   bitmap, whatever the scratch held: `QueryInv` and the reset make it so.

The argument for the groups. After any number of rows (`GroupState`) there is one group
for each key of ids among them; its columns are those a fold over its rows alone gives;
and a triple (column, group, id) is in the seen set precisely if that group has a row with
that id, which is where the column must fit eight bits. Ids and strings of keys
correspond, so groups are those of the reference. The order by strings is linear on
distinct keys, hence the insertion sort ends in strictly ascending order and loses no row
(`SortedRows`).

Only model-checked: liveness (`EveryCallReturns`, `IngestionRecovers`,
`ExpiredRowsReclaimed`), which is out of the prover's reach, and the violations, which
are counterexamples. Every invariant and every other action or refinement property a
passing run checks is a theorem.

## 5. Not modelled

* The byte encoding, format version and schema fingerprint of the file (`persist.go`,
  `schema.go`): they decide whether a file is this format at all; what is in a file that
  is, and every later validation, is modelled.
* Validation of the schema and the configuration: an assumption on the constants.
* A rename that is lost in a crash: it is taken as durable, though the directory is not
  synced after it (`persist.go:122`). What would be left is the file that was there before,
  whole and loadable too.
* Float rounding: metrics are integers, an average is a fraction.
* Stats counters other than the dictionary entries and the key width: nothing reads them.
* Cancellation of `Run`, which only ends the loop; `seed`, a test helper.
* The result buffer of `QueryGroupBy` across calls: a call that gets as far as grouping
  resets it, so it is modelled as new. The capacities of slices that hold no query's data.
* The composition of `Query` with the steps of `Store`: a query reads one immutable view,
  `Store` shows which, `QueryCalls` what is answered from it.

## 6. Where the code and its documentation differ

* `zero_ttl`: with TTL 0 the cutoff is 0, which is also an instant, so records with an
  `UpdatedAt` before 1970, such as an unset `time.Time`, are dropped although "Zero
  disables TTL eviction" (`schema.go:148`).
* `saved_position`: delta rows left out of a saved file may be older than its position
  (a new tuple with an older `UpdatedAt` than the base's newest row), so a pull from that
  position does not fetch them, although `persist.go:31` says they are newer.
* `noncanonical_file`: a snapshot written before a dimension became `DimInt`, in which
  `01` is the only spelling of its integer, is loaded and the value canonicalised
  (`persist.go:206`), where `schema.go:54`, `README.md:162` and
  `docs/design-rationale.md:225` say non-canonical values are refused and force a full pull.
  Only two spellings of one integer, or a value that is none, are refused. The result is
  right all the same: `LoadedViewsOK` holds of it in `persist_file`. The test
  (`range_test.go:385`) has a value that is no integer, which is refused.
* `dump_blocks`: a `ReplaceAll` refused over the cap blocks new tuples while the table
  served fits; with nothing to compact, no tick lifts the block.
* `distinct_columns`: the key of the seen distinct values narrows the column to eight bits
  (`groupby.go:148`), so column 257 of a group-by counts only what column 1 has not seen.

Seen while reading, without a run:

* `ReplaceAll` may keep either of two equally new records of a tuple, since the sort of
  `buildFromRecords` is unstable and compares nothing further (`snapshot.go:173`); `Apply`
  (`view.go:229`) and the oracle keep the last. `RefTable` allows either.
* An `ExpireAt` of exactly 1970 becomes 0, "never", instead of a tombstone
  (`schema.go:140`).
* A wrong condition is an error only if the conditions of its group before it can be met:
  one whose value the table does not have ends the group first (`query.go:133`, `162`),
  where the README says an error is reported rather than a silent mismatch. `AnswersExact`
  therefore allows such a query an answer.
* `groupby.go:51` says the result is reset first; the returns on wrong arguments come
  before the reset and leave the old groups in it.
* `scratch.go:42` says a plan never probes more than 4096 key ranges; the bound is the
  room in the scratch, which is one more for one group, and more still on a scratch that
  grew for an earlier query. So the same query may be expanded or scanned, and pass the
  budget or not, depending on which scratch the pool gives it.
* `stats.go:25` and `stats_test.go:10` speak of a `FullCompact` that no longer exists;
  `DictEntries` is not monotonic, since any merge may renumber; and a compaction of a view
  whose `IndexKeyBits` exceeds the key may fit, since the retry drops garbage.

## 7. What could follow

The host's pull loop over a restart, composed from the store, its file and an upstream:
which position must be used for no row to be missed, given `saved_position`. It would be
a model of the host, of which the repository has only the advice at `persist.go:31`.
