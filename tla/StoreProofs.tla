----------------------------- MODULE StoreProofs -----------------------------
(* The safety of the store for every schema, every number of writers and      *)
(* readers, every batch and every clock: the inductive invariant of Store and *)
(* what follows from it, that it implements the reference table, and the same *)
(* for its snapshot file and for the background goroutine.                    *)
EXTENDS Compactor, ViewProofs, SequenceTheorems, FiniteSetTheorems

\* The invariant the induction needs: every view in sight is right, only the
\* holder of mu is in a call, and that call's locals fit the published state.
IInv ==
    /\ TypeOK
    /\ ViewsOK
    /\ JobsOK
    /\ CapRespected
    /\ EachTupleOnce

-----------------------------------------------------------------------------
(* Clock samples, batches and the values a call starts from.                  *)

\* ttlCutoff: while the process runs no cutoff is negative.
LEMMA CutoffOK ==
    ASSUME NEW n \in StartTime .. MaxNow
    PROVE  n \in Time /\ n \in Int /\ ttlCutoff(n) \in Time /\ ttlCutoff(n) >= 0
<1>1. n \in Int /\ StartTime <= n /\ n <= MaxTime /\ n >= MinTime /\ TTL < StartTime
    BY StartAssumption, TimeAssumption DEF Time
<1>2. n \in Time
    BY <1>1, TimeAssumption DEF Time
<1>3. TTL \in Nat /\ StartTime \in Int
    BY StartAssumption, TimeAssumption DEF Time
<1>4. n - TTL \in Int /\ 0 <= n - TTL /\ n - TTL <= n
    BY <1>1, <1>3
<1>5. n - TTL \in Time
    BY <1>1, <1>4, TimeAssumption DEF Time
<1> QED BY <1>1, <1>2, <1>4, <1>5, ZeroIsTime DEF ttlCutoff

\* Apply and ReplaceAll receive finite sequences of records.
LEMMA BatchesAreSequences == Batches \subseteq Seq(Inputs) /\ Dumps \subseteq Seq(Inputs)
<1>1. ASSUME NEW m \in Nat
      PROVE  UNION {[1 .. n -> Inputs] : n \in 0 .. m} \subseteq Seq(Inputs)
  <2>1. ASSUME NEW n \in 0 .. m
        PROVE  [1 .. n -> Inputs] \subseteq Seq(Inputs)
      BY SeqDef
  <2> QED BY <2>1
<1> QED BY <1>1, StartAssumption DEF Batches, Dumps

\* The locals of a goroutine that is in no call.
LEMMA NoJobOK ==
    /\ NoJob \in Job
    /\ ViewOK(NoJob.work) /\ NoJob.cutoff = 0
<1>1. newView(emptySnapshot) \in AnyView /\ ViewOK(newView(emptySnapshot))
    BY EmptyOK, NewViewOK
<1>2. <<>> \in Seq(Inputs)
    OBVIOUS
<1> QED BY <1>1, <1>2, ZeroIsTime DEF NoJob, Job

-----------------------------------------------------------------------------
(* The invariant holds initially.                                             *)

LEMMA InitInv == Init => IInv
<1> SUFFICES ASSUME Init PROVE IInv
    OBVIOUS
<1> USE DEF Init
<1>1. newView(emptySnapshot) \in AnyView /\ ViewOK(newView(emptySnapshot))
    BY EmptyOK, NewViewOK
<1>2. StartTime \in StartTime .. MaxNow /\ StartTime \in Int
    BY StartAssumption, TimeAssumption DEF Time
<1>3. TypeOK
    BY <1>1, <1>2, NoJobOK, ZeroIsTime DEF TypeOK, Results, Nothing
<1>4. ViewsOK
    BY <1>1, NoJobOK DEF ViewsOK
<1>5. JobsOK
    BY NoJobOK, StartAssumption DEF JobsOK, LockOK
<1>6. CapRespected
  <2>1. Cardinality({}) = 0
      BY FS_EmptySet
  <2>2. view.base.rows = {}
      BY DEF newView, emptySnapshot, NewSnapshot
  <2> QED BY <2>1, <2>2, LimitAssumption DEF CapRespected
<1>7. EachTupleOnce
    BY DEF EachTupleOnce, Nothing, UniqueTuples
<1> QED BY <1>3, <1>4, <1>5, <1>6, <1>7 DEF IInv

-----------------------------------------------------------------------------
(* The ways a step changes the state: entering a call, working inside one,    *)
(* leaving one.                                                               *)

\* Lock: a call that starts from good locals keeps the invariant.
LEMMA LockKeeps ==
    ASSUME IInv, NEW w \in Writers, NEW c \in {"apply", "compact", "replace"}, NEW j \in Job,
           Lock(w, c, j), ViewOK(j.work), j.cutoff >= 0,
           c \in {"apply", "replace"} => \E n \in StartTime .. now : j.cutoff = ttlCutoff(n),
           c = "compact" => j.nowMilli \in StartTime .. now,
           c = "apply" => j.work = view
    PROVE  IInv'
<1> USE DEF Lock, Enter, IInv, readerVars
<1>1. TypeOK'
    BY DEF TypeOK, Results
<1>2. ViewsOK'
    BY <1>1 DEF ViewsOK, TypeOK
<1>3. \A x \in Writers : pc[x] = "idle" /\ job[x] = NoJob
    BY StartAssumption DEF JobsOK, LockOK
<1>4. pc' = [pc EXCEPT ![w] = c] /\ job' = [job EXCEPT ![w] = j] /\ mu' = w
    OBVIOUS
<1>5. LockOK'
    BY <1>3, <1>4 DEF LockOK, TypeOK
<1>6. JobsOK'
    BY <1>3, <1>4, <1>5, NoJobOK DEF JobsOK, TypeOK
<1>7. CapRespected' /\ EachTupleOnce'
    BY DEF CapRespected, EachTupleOnce
<1> QED BY <1>1, <1>2, <1>6, <1>7

\* Return: a call that leaves a good view behind keeps the invariant.
LEMMA ReturnKeeps ==
    ASSUME IInv, NEW w \in Writers, NEW result \in Results,
           Return(w, result), pc[w] # "idle",
           view' \in AnyView, ViewOK(view'),
           capBlocked' \in BOOLEAN, lastDictCompact' \in Time,
           MaxRows > 0 => ~(Cardinality(view'.base.rows) > MaxRows)
    PROVE  IInv'
<1> USE DEF Return, IInv, readerVars
<1>1. TypeOK'
    BY NoJobOK DEF TypeOK
<1>2. ViewsOK'
    BY NoJobOK DEF ViewsOK, TypeOK
<1>3. \A x \in Writers : x # w => pc[x] = "idle" /\ job[x] = NoJob
    BY DEF JobsOK, LockOK
<1>4. \A x \in Writers : pc'[x] = "idle" /\ job'[x] = NoJob
    BY <1>3 DEF TypeOK
<1>5. JobsOK'
    BY <1>4, NoJobOK, StartAssumption DEF JobsOK, LockOK
<1>6. CapRespected' /\ EachTupleOnce'
    BY DEF CapRespected, EachTupleOnce
<1> QED BY <1>1, <1>2, <1>5, <1>6

-----------------------------------------------------------------------------
(* Every step keeps the invariant, one lemma per kind of call.                *)

\* The facts of the invariant the steps use most.
LEMMA Facts ==
    ASSUME IInv
    PROVE  /\ view \in AnyView /\ ViewOK(view)
           /\ now \in StartTime .. MaxNow /\ now \in Int /\ StartTime \in Int
           /\ capBlocked \in BOOLEAN /\ lastDictCompact \in Time
           /\ \A w \in Writers : job[w] \in Job /\ ViewOK(job[w].work)
           /\ MaxRows > 0 => ~(Cardinality(view.base.rows) > MaxRows)
<1> USE DEF IInv
<1>1. now \in StartTime .. MaxNow /\ now \in Int
    BY CutoffOK DEF TypeOK
<1>2. StartTime \in Int
    BY StartAssumption, TimeAssumption DEF Time
<1> QED BY <1>1, <1>2 DEF TypeOK, ViewsOK, CapRespected

\* The published state is left alone by calls that fail.
LEMMA FailKeeps ==
    ASSUME IInv, NEW w \in Writers, NEW result \in Results, Fail(w, result), pc[w] # "idle"
    PROVE  IInv'
BY Facts, ReturnKeeps DEF Fail

\* A refused call only raises the block.
LEMMA RefuseKeeps ==
    ASSUME IInv, NEW w \in Writers, Refuse(w), pc[w] # "idle"
    PROVE  IInv'
BY Facts, ReturnKeeps DEF Refuse, Results

\* Publishing a right snapshot within the cap.
LEMMA PublishKeeps ==
    ASSUME IInv, NEW w \in Writers, pc[w] # "idle",
           NEW s \in Snapshot, SnapshotOK(s), ~OverCap(s.rows), Publish(w, s),
           lastDictCompact' \in Time
    PROVE  IInv'
<1>1. newView(s) \in AnyView /\ ViewOK(newView(s))
    BY NewViewOK
<1>2. MaxRows > 0 => ~(Cardinality(newView(s).base.rows) > MaxRows)
    BY DEF OverCap, newView
<1> QED BY <1>1, <1>2, ReturnKeeps DEF Publish, Results

\* Apply: taking the lock, one record, failing, publishing.
LEMMA ApplyBeginKeeps ==
    ASSUME IInv, NEW w \in Writers, NEW recs \in Batches, ApplyBegin(w, recs)
    PROVE  IInv'
<1> DEFINE j == [NoJob EXCEPT !.batch = recs, !.work = view, !.cutoff = ttlCutoff(now)]
<1>1. ttlCutoff(now) \in Time /\ ttlCutoff(now) >= 0
    BY Facts, CutoffOK
<1>2. j \in Job /\ j.work = view /\ j.cutoff = ttlCutoff(now)
    BY <1>1, Facts, NoJobOK, BatchesAreSequences DEF Job
<1>3. now \in StartTime .. now
    BY Facts
<1>4. Lock(w, "apply", j)
    BY DEF ApplyBegin
<1> HIDE DEF j
<1> QED BY <1>1, <1>2, <1>3, <1>4, Facts, LockKeeps

LEMMA ApplyNextKeeps ==
    ASSUME IInv, NEW w \in Writers, ApplyNext(w)
    PROVE  IInv'
<1> DEFINE j == job[w]
<1> DEFINE r == Head(j.batch)
<1> DEFINE nxt == IF Aged(r, j.cutoff) THEN j.work ELSE ApplyRecord(j.work, ToRow(r), capBlocked)
<1>1. /\ j \in Job /\ j.work \in AnyView /\ ViewOK(j.work) /\ j.cutoff \in Time
      /\ j.batch \in Seq(Inputs) /\ j.batch # <<>>
      /\ capBlocked \in BOOLEAN
    BY Facts DEF Job, ApplyNext
<1>2. r \in Inputs /\ Tail(j.batch) \in Seq(Inputs)
    BY <1>1
<1>3. j.cutoff >= 0 /\ pc[w] = "apply" /\ mu = w
    BY DEF IInv, JobsOK, LockOK, ApplyNext
<1>4. ~Aged(r, j.cutoff) =>
        /\ ToRow(r) \in Row /\ ToRow(r).upd > 0
        /\ \A d \in IntDims : ParseInt[ToRow(r).dims[d]] = ToRow(r).dims[d]
    BY <1>1, <1>2, <1>3, ToRowOK, KeptIsPositive DEF ApplyNext, Rejected
<1>5. nxt \in AnyView /\ ViewOK(nxt) /\ nxt.base = j.work.base
  <2>1. CASE Aged(r, j.cutoff)
      BY <1>1, <2>1
  <2>2. CASE ~Aged(r, j.cutoff)
    <3>1. nxt = ApplyRecord(j.work, ToRow(r), capBlocked)
        BY <2>2
    <3>2. ApplyRecord(j.work, ToRow(r), capBlocked) \in AnyView
        BY <1>1, <1>4, <2>2, ApplyRecordType
    <3>3. ViewOK(ApplyRecord(j.work, ToRow(r), capBlocked))
        BY <1>1, <1>4, <2>2, ApplyRecordOK
    <3>4. ApplyRecord(j.work, ToRow(r), capBlocked).base = j.work.base
        BY DEF ApplyRecord
    <3> HIDE DEF nxt, j, r
    <3> QED BY <3>1, <3>2, <3>3, <3>4
  <2> QED BY <2>1, <2>2
<1>6. capBlocked => Tuples(Logical(nxt)) \subseteq Tuples(Logical(j.work))
  <2>1. CASE Aged(r, j.cutoff)
      BY <2>1
  <2>2. CASE ~Aged(r, j.cutoff)
      BY <1>1, <1>4, <2>2, ApplyRecordTuples
  <2> QED BY <2>1, <2>2
<1>7. /\ job' = [job EXCEPT ![w].batch = Tail(j.batch), ![w].work = nxt]
      /\ UNCHANGED <<view, capBlocked, lastDictCompact, mu, pc, ret, readerVars, now>>
    BY DEF ApplyNext
<1> HIDE DEF nxt
<1>8. /\ job'[w] = [j EXCEPT !.batch = Tail(j.batch), !.work = nxt]
      /\ \A x \in Writers : x # w => job'[x] = job[x]
    BY <1>7 DEF IInv, TypeOK
<1>9. job'[w] \in Job /\ job'[w].work = nxt /\ job'[w].cutoff = j.cutoff
    BY <1>1, <1>2, <1>5, <1>8 DEF Job
<1>10. job' \in [Writers -> Job]
    BY <1>7, <1>8, <1>9 DEF IInv, TypeOK
<1>11. TypeOK'
    BY <1>7, <1>10 DEF IInv, TypeOK, readerVars
<1>12. ViewsOK'
    BY <1>5, <1>7, <1>8, <1>9 DEF IInv, ViewsOK, readerVars
<1>13. LockOK'
    BY <1>3, <1>7, <1>8 DEF IInv, JobsOK, LockOK
<1>14. JobsOK'
    BY <1>3, <1>5, <1>6, <1>7, <1>8, <1>9, <1>13 DEF IInv, JobsOK
<1>15. CapRespected' /\ EachTupleOnce'
    BY <1>7 DEF IInv, CapRespected, EachTupleOnce, readerVars
<1> QED BY <1>11, <1>12, <1>14, <1>15 DEF IInv

LEMMA ApplyEndKeeps ==
    ASSUME IInv, NEW w \in Writers, ApplyEnd(w)
    PROVE  IInv'
<1>1. job[w].work \in AnyView /\ ViewOK(job[w].work) /\ job[w].work.base = view.base
    BY Facts DEF ApplyEnd, Job, IInv, JobsOK
<1> QED BY <1>1, Facts, ReturnKeeps DEF ApplyEnd, Results

\* Compact: taking the lock, retrying, overflowing, refusing, publishing.
LEMMA CompactBeginKeeps ==
    ASSUME IInv, NEW w \in Writers, CompactBegin(w)
    PROVE  IInv'
<1> DEFINE b == (DictCompactInterval <= 0) \/ (now - lastDictCompact >= DictCompactInterval)
<1> DEFINE j == [NoJob EXCEPT !.nowMilli = now, !.renumber = b]
<1>1. now \in Time /\ now \in StartTime .. now
    BY Facts, CutoffOK
<1>2. b \in BOOLEAN
    OBVIOUS
<1> HIDE DEF b
<1>3. j \in Job /\ j.work = NoJob.work /\ j.cutoff = 0 /\ j.nowMilli = now
    BY <1>1, <1>2, NoJobOK DEF Job
<1>4. Lock(w, "compact", j)
    BY DEF CompactBegin, b
<1> HIDE DEF j
<1> QED BY <1>1, <1>3, <1>4, NoJobOK, LockKeeps

\* What a merge under way would publish.
LEMMA MergedOK ==
    ASSUME IInv, NEW w \in Writers
    PROVE  Merged(w) \in Snapshot /\ (~KeyOverflow(Merged(w).dicts) => SnapshotOK(Merged(w)))
<1>1. job[w].renumber \in BOOLEAN
    BY Facts DEF Job
<1> QED BY <1>1, Facts, MergeOK DEF Merged

LEMMA CompactRetryKeeps ==
    ASSUME IInv, NEW w \in Writers, CompactRetry(w)
    PROVE  IInv'
<1>0. /\ pc[w] = "compact" /\ job' = [job EXCEPT ![w].renumber = TRUE]
      /\ UNCHANGED <<view, capBlocked, lastDictCompact, mu, pc, ret, held, reading, res, now>>
    BY DEF CompactRetry, readerVars
<1>1. /\ job'[w] = [job[w] EXCEPT !.renumber = TRUE] /\ job[w] \in Job
      /\ \A x \in Writers : x # w => job'[x] = job[x]
    BY <1>0, Facts DEF IInv, TypeOK
<1>2. /\ job'[w] \in Job /\ job'[w].work = job[w].work
      /\ job'[w].cutoff = job[w].cutoff /\ job'[w].nowMilli = job[w].nowMilli
    BY <1>1 DEF Job
<1>3. job' \in [Writers -> Job]
    BY <1>0, <1>1, <1>2 DEF IInv, TypeOK
<1>4. TypeOK'
    BY <1>0, <1>3 DEF IInv, TypeOK
<1>5. ViewsOK'
    BY <1>0, <1>1, <1>2 DEF IInv, ViewsOK
<1>6. JobsOK'
    BY <1>0, <1>1, <1>2 DEF IInv, JobsOK, LockOK
<1>7. CapRespected' /\ EachTupleOnce'
    BY <1>0 DEF IInv, CapRespected, EachTupleOnce
<1> QED BY <1>4, <1>5, <1>6, <1>7 DEF IInv

LEMMA CompactEndKeeps ==
    ASSUME IInv, NEW w \in Writers, CompactEnd(w)
    PROVE  IInv'
<1>1. lastDictCompact' \in Time
    BY Facts DEF CompactEnd, Job
<1> QED BY <1>1, MergedOK, PublishKeeps DEF CompactEnd

\* ReplaceAll: taking the lock, failing, refusing or publishing.
LEMMA ReplaceBeginKeeps ==
    ASSUME IInv, NEW w \in Writers, NEW recs \in Dumps, ReplaceBegin(w, recs)
    PROVE  IInv'
<1> DEFINE j == [NoJob EXCEPT !.batch = recs, !.cutoff = ttlCutoff(now)]
<1>1. ttlCutoff(now) \in Time /\ ttlCutoff(now) >= 0
    BY Facts, CutoffOK
<1>2. j \in Job /\ j.work = NoJob.work /\ j.cutoff = ttlCutoff(now)
    BY <1>1, NoJobOK, BatchesAreSequences DEF Job
<1>3. now \in StartTime .. now
    BY Facts
<1>4. Lock(w, "replace", j)
    BY DEF ReplaceBegin
<1> HIDE DEF j
<1> QED BY <1>1, <1>2, <1>3, <1>4, NoJobOK, LockKeeps

LEMMA ReplaceEndKeeps ==
    ASSUME IInv, NEW w \in Writers, ReplaceEnd(w)
    PROVE  IInv'
<1>1. job[w].cutoff \in Time /\ job[w].cutoff >= 0 /\ job[w].batch \in Seq(Inputs)
    BY Facts DEF Job, IInv, JobsOK
<1>2. Range(job[w].batch) \in SUBSET Inputs
    BY <1>1 DEF Range
<1>3. PICK s \in buildFromRecords(Range(job[w].batch), job[w].cutoff, now) :
         \/ OverCap(s.rows) /\ Refuse(w)
         \/ ~OverCap(s.rows) /\ Publish(w, s) /\ UNCHANGED lastDictCompact
    BY DEF ReplaceEnd
<1>4. s \in Snapshot /\ SnapshotOK(s)
    BY <1>1, <1>2, BuildOK DEF ReplaceEnd
<1>5. pc[w] # "idle"
    BY DEF ReplaceEnd
<1> QED BY <1>3, <1>4, <1>5, Facts, RefuseKeeps, PublishKeeps

\* Queries and the clock.
LEMMA QueryLoadKeeps ==
    ASSUME IInv, NEW p \in Readers, QueryLoad(p)
    PROVE  IInv'
<1> USE DEF QueryLoad, writerVars
<1>1. TypeOK'
    BY Facts DEF IInv, TypeOK, Nothing
<1>2. ViewsOK'
    BY Facts DEF IInv, ViewsOK, TypeOK
<1>3. JobsOK' /\ CapRespected'
    BY DEF IInv, JobsOK, LockOK, CapRespected
<1>4. EachTupleOnce'
    BY DEF IInv, EachTupleOnce, TypeOK, Nothing, UniqueTuples
<1> QED BY <1>1, <1>2, <1>3, <1>4 DEF IInv

LEMMA QueryScanKeeps ==
    ASSUME IInv, NEW p \in Readers, QueryScan(p)
    PROVE  IInv'
<1> USE DEF QueryScan, writerVars
<1> DEFINE a == [base |-> BaseScan(held[p], now), delta |-> DeltaScan(held[p], now)]
<1>1. newView(emptySnapshot) \in AnyView /\ ViewOK(newView(emptySnapshot))
    BY EmptyOK, NewViewOK
<1>2. held[p] \in AnyView /\ ViewOK(held[p])
    BY DEF IInv, TypeOK, ViewsOK
<1>3. a \in [base: SUBSET Row, delta: SUBSET Row]
    BY <1>2 DEF BaseScan, DeltaScan, AnyView, Snapshot, Delta
<1>4. res' = [res EXCEPT ![p] = a]
    OBVIOUS
<1>5. UniqueTuples(a.base \cup a.delta) /\ a.base \cap a.delta = {}
    BY <1>2, ScanOnce
<1> HIDE DEF a
<1>6. TypeOK'
    BY <1>1, <1>3, <1>4 DEF IInv, TypeOK
<1>7. ViewsOK'
    BY <1>1 DEF IInv, ViewsOK, TypeOK
<1>8. JobsOK' /\ CapRespected'
    BY DEF IInv, JobsOK, LockOK, CapRespected
<1>9. EachTupleOnce'
    BY <1>4, <1>5 DEF IInv, EachTupleOnce, TypeOK
<1> QED BY <1>6, <1>7, <1>8, <1>9 DEF IInv

LEMMA TickKeeps ==
    ASSUME IInv, Tick
    PROVE  IInv'
<1> USE DEF Tick, writerVars, readerVars
<1>1. now' = now + 1 /\ now' \in StartTime .. MaxNow /\ StartTime .. now \subseteq StartTime .. now'
  <2>1. now \in Int /\ StartTime \in Int /\ MaxNow \in Int /\ now < MaxNow /\ StartTime <= now
      BY Facts, StartAssumption
  <2> QED BY <2>1
<1>2. TypeOK'
    BY <1>1 DEF IInv, TypeOK
<1>3. JobsOK'
    BY <1>1 DEF IInv, JobsOK, LockOK
<1>4. ViewsOK' /\ CapRespected' /\ EachTupleOnce'
    BY DEF IInv, ViewsOK, CapRespected, EachTupleOnce
<1> QED BY <1>2, <1>3, <1>4 DEF IInv

-----------------------------------------------------------------------------
(* The invariant is inductive.                                                *)

LEMMA StepInv == IInv /\ [Next]_vars => IInv'
<1> SUFFICES ASSUME IInv, [Next]_vars PROVE IInv'
    OBVIOUS
<1>1. ASSUME NEW w \in Writers, WriterCall(w) PROVE IInv'
    BY <1>1, ApplyBeginKeeps, CompactBeginKeeps, ReplaceBeginKeeps DEF WriterCall
<1>2. ASSUME NEW w \in Writers, WriterStep(w) PROVE IInv'
  <2>1. CASE ApplyNext(w)
      BY <2>1, ApplyNextKeeps
  <2>2. CASE ApplyFail(w)
      BY <2>2, FailKeeps DEF ApplyFail, Results
  <2>3. CASE ApplyEnd(w)
      BY <2>3, ApplyEndKeeps
  <2>4. CASE CompactRetry(w)
      BY <2>4, CompactRetryKeeps
  <2>5. CASE CompactOverflow(w)
      BY <2>5, FailKeeps DEF CompactOverflow, Results
  <2>6. CASE CompactRefuse(w)
      BY <2>6, RefuseKeeps DEF CompactRefuse
  <2>7. CASE CompactEnd(w)
      BY <2>7, CompactEndKeeps
  <2>8. CASE ReplaceFail(w)
      BY <2>8, FailKeeps DEF ReplaceFail, Results
  <2>9. CASE ReplaceEnd(w)
      BY <2>9, ReplaceEndKeeps
  <2> QED BY <1>2, <2>1, <2>2, <2>3, <2>4, <2>5, <2>6, <2>7, <2>8, <2>9 DEF WriterStep
<1>3. ASSUME NEW p \in Readers, QueryLoad(p) \/ QueryScan(p) PROVE IInv'
    BY <1>3, QueryLoadKeeps, QueryScanKeeps
<1>4. CASE Tick
    BY <1>4, TickKeeps
<1>5. CASE UNCHANGED vars
    BY <1>5 DEF vars, IInv, TypeOK, ViewsOK, JobsOK, LockOK, CapRespected, EachTupleOnce
<1> QED BY <1>1, <1>2, <1>3, <1>4, <1>5 DEF Next

\* The invariant holds throughout: applyDelta, Compact, ReplaceAll and queries.
THEOREM Invariance == Spec => []IInv
BY InitInv, StepInv, PTL DEF Spec

\* Type correctness of the store (store.go's struct and the locals of its calls).
THEOREM TypeCorrect == Spec => []TypeOK
BY Invariance, PTL DEF IInv

\* Every view that is published, held by a query or under construction keeps one
\* row per tuple, a shadow bitmap that marks exactly the superseded base rows,
\* dictionaries that cover the rows, and exact cached extrema.
THEOREM EveryViewRight == Spec => []ViewsOK
BY Invariance, PTL DEF IInv

\* A batch under way fits the published view: it works on the published base,
\* adds no tuple while the cap blocks, and only the holder of mu is in a call.
THEOREM BatchFitsView == Spec => []JobsOK
BY Invariance, PTL DEF IInv

\* Compact and ReplaceAll never publish a base beyond Config.MaxRows.
THEOREM CapNeverExceeded == Spec => []CapRespected
BY Invariance, PTL DEF IInv

\* A query never counts a tuple twice, whatever is published while it runs.
THEOREM NoDoubleCount == Spec => []EachTupleOnce
BY Invariance, PTL DEF IInv

\* SyncPosition is exact: incremental pulls neither skip nor repeat.
THEOREM SyncPositionCorrect == Spec => []SyncPositionExact
<1>1. IInv => SyncPositionExact
    BY Facts, SyncPositionIs DEF SyncPositionExact
<1> QED BY <1>1, Invariance, PTL

\* NeedsCompaction is exact: no expired row is missed, no merge is in vain.
THEOREM NeedsCompactionCorrect == Spec => []NeedsCompactionExact
<1>1. IInv => NeedsCompactionExact
    BY Facts, NeedsCompactionIs DEF NeedsCompactionExact
<1> QED BY <1>1, Invariance, PTL

-----------------------------------------------------------------------------
(* Action properties.                                                         *)

\* Every step of the store but three publishes nothing and blocks nothing.
LEMMA PublishingSteps ==
    ASSUME IInv, [Next]_vars
    PROVE  \/ UNCHANGED <<view, capBlocked>>
           \/ \E w \in Writers : ApplyEnd(w)
           \/ capBlocked' = FALSE
           \/ \E w \in Writers : Refuse(w)
<1>1. ASSUME NEW w \in Writers, WriterCall(w) PROVE UNCHANGED <<view, capBlocked>>
    BY <1>1 DEF WriterCall, ApplyBegin, CompactBegin, ReplaceBegin, Lock
<1>2. ASSUME NEW w \in Writers, WriterStep(w)
      PROVE  \/ UNCHANGED <<view, capBlocked>>
             \/ ApplyEnd(w) \/ capBlocked' = FALSE \/ Refuse(w)
    BY <1>2 DEF WriterStep, ApplyNext, ApplyFail, CompactRetry, CompactOverflow, CompactRefuse,
                CompactEnd, ReplaceFail, ReplaceEnd, Fail, Publish
<1>3. ASSUME NEW p \in Readers, QueryLoad(p) \/ QueryScan(p) PROVE UNCHANGED <<view, capBlocked>>
    BY <1>3 DEF QueryLoad, QueryScan, writerVars
<1>4. CASE Tick
    BY <1>4 DEF Tick, writerVars
<1>5. CASE UNCHANGED vars
    BY <1>5 DEF vars
<1> QED BY <1>1, <1>2, <1>3, <1>4, <1>5 DEF Next

LEMMA BlockedStep ==
    ASSUME IInv, [Next]_vars, capBlocked, capBlocked'
    PROVE  Tuples(Logical(view')) \subseteq Tuples(Logical(view))
<1>1. CASE UNCHANGED <<view, capBlocked>>
    BY <1>1
<1>2. CASE \E w \in Writers : ApplyEnd(w)
  <2>1. PICK w \in Writers : ApplyEnd(w)
      BY <1>2
  <2> QED BY <2>1 DEF ApplyEnd, IInv, JobsOK
<1>3. CASE \E w \in Writers : Refuse(w)
    BY <1>3 DEF Refuse
<1> QED BY <1>1, <1>2, <1>3, PublishingSteps

\* While the row cap blocks, nothing that is published adds a tuple: the block
\* set by one call binds every later batch, up to the merge that lifts it.
THEOREM BlockBinds == Spec => NoNewTupleWhileBlocked
<1>1. IInv /\ [Next]_vars =>
        [capBlocked /\ capBlocked' => Tuples(Logical(view')) \subseteq Tuples(Logical(view))]_vars
    BY BlockedStep
<1> QED BY <1>1, Invariance, PTL DEF Spec, NoNewTupleWhileBlocked

\* The live rows alone overflow the key.
LiveOverflow(w) == KeyOverflow(ValuesOf(Survivors(view, ttlCutoff(now), job[w].nowMilli)))

LEMMA OverflowStep ==
    ASSUME IInv, [Next]_vars, NEW w \in Writers,
           pc[w] = "compact", pc'[w] = "idle", ret' = "key_overflow"
    PROVE  LiveOverflow(w)
<1>1. ASSUME CompactOverflow(w) PROVE LiveOverflow(w)
  <2>1. Merged(w).dicts = ValuesOf(Survivors(view, ttlCutoff(now), job[w].nowMilli))
      BY <1>1 DEF CompactOverflow, Merged, mergeView, MergedDicts, NewSnapshot
  <2> QED BY <1>1, <2>1 DEF CompactOverflow, LiveOverflow
<1>2. ASSUME NEW x \in Writers, WriterStep(x), x # w PROVE FALSE
  <2>1. pc[x] # "idle"
      BY <1>2 DEF WriterStep, ApplyNext, ApplyFail, ApplyEnd, CompactRetry, CompactOverflow,
                  CompactRefuse, CompactEnd, ReplaceFail, ReplaceEnd
  <2> QED BY <1>2, <2>1 DEF IInv, JobsOK, LockOK
<1>3. ASSUME WriterStep(w) PROVE CompactOverflow(w)
    BY <1>3 DEF WriterStep, ApplyNext, ApplyFail, ApplyEnd, CompactRetry, CompactRefuse,
                CompactEnd, ReplaceFail, ReplaceEnd, Publish, Refuse, Return
<1>4. ASSUME NEW x \in Writers, WriterCall(x) PROVE FALSE
  <2>1. mu = NoOne
      BY <1>4 DEF WriterCall, ApplyBegin, CompactBegin, ReplaceBegin, Lock, Enter
  <2> QED BY <2>1, StartAssumption DEF IInv, JobsOK, LockOK
<1>5. ASSUME UNCHANGED pc PROVE FALSE
    BY <1>5
<1>6. \/ \E x \in Writers : WriterCall(x) \/ WriterStep(x)
      \/ UNCHANGED pc
    BY DEF Next, QueryLoad, QueryScan, Tick, writerVars, vars
<1> QED BY <1>1, <1>2, <1>3, <1>4, <1>5, <1>6

\* Compact fails with ErrKeyOverflow only when the live rows alone overflow the
\* key: by then it has merged with dictionaries that hold live values only.
THEOREM OverflowNeverSpurious == Spec => OverflowIsGenuine
<1>1. IInv /\ [Next]_vars =>
        [\A w \in Writers :
            pc[w] = "compact" /\ pc'[w] = "idle" /\ ret' = "key_overflow" => LiveOverflow(w)]_vars
    BY OverflowStep
<1> QED BY <1>1, Invariance, PTL DEF Spec, OverflowIsGenuine, LiveOverflow

-----------------------------------------------------------------------------
(* The delta and the dictionaries stay finite: every batch is.                *)

Finite(v) ==
    /\ IsFiniteSet(v.delta.rows)
    /\ \A d \in Dims : IsFiniteSet(v.base.dicts[d]) /\ IsFiniteSet(v.extras[d])

ViewsFinite == Finite(view) /\ \A w \in Writers : Finite(job[w].work)

LEMMA ApplyRecordFinite ==
    ASSUME NEW v, NEW row, NEW blocked, Finite(v)
    PROVE  Finite(ApplyRecord(v, row, blocked))
<1> DEFINE hit == {x \in v.delta.rows : x.dims = row.dims}
           nxt == ApplyRecord(v, row, blocked)
<1>1. IsFiniteSet(v.delta.rows \ hit)
    BY FS_Subset DEF Finite
<1>2. IsFiniteSet((v.delta.rows \ hit) \cup {row})
    BY <1>1, FS_AddElement
<1>3. nxt.delta.rows = v.delta.rows \/ nxt.delta.rows = (v.delta.rows \ hit) \cup {row}
    BY DEF ApplyRecord
<1>4. ASSUME NEW d \in Dims
      PROVE  nxt.extras[d] = v.extras[d] \/ nxt.extras[d] = v.extras[d] \cup {row.dims[d]}
    BY DEF ApplyRecord, Interned
<1>5. \A d \in Dims : IsFiniteSet(v.extras[d] \cup {row.dims[d]})
    BY FS_AddElement DEF Finite
<1>6. nxt.base = v.base
    BY DEF ApplyRecord
<1> HIDE DEF nxt
<1>7. Finite(nxt)
    BY <1>2, <1>3, <1>4, <1>5, <1>6 DEF Finite
<1> QED BY <1>7 DEF nxt

LEMMA NewFinite ==
    ASSUME NEW s, \A d \in Dims : IsFiniteSet(s.dicts[d])
    PROVE  Finite(newView(s))
BY FS_EmptySet DEF Finite, newView, emptyDelta, NoValues

LEMMA NoJobFinite == Finite(NoJob.work)
<1>1. \A d \in Dims : emptySnapshot.dicts[d] = {}
    BY DEF emptySnapshot, NewSnapshot, NoValues
<1> QED BY <1>1, NewFinite, FS_EmptySet DEF NoJob

LEMMA InitFinite == Init => ViewsFinite
BY NoJobFinite DEF Init, ViewsFinite, NoJob

\* A merge keeps values the view has.
LEMMA MergedValues ==
    ASSUME IInv, NEW w \in Writers, NEW d \in Dims
    PROVE  Merged(w).dicts[d] \subseteq view.base.dicts[d] \cup view.extras[d]
<1> DEFINE rows == Survivors(view, ttlCutoff(now), job[w].nowMilli)
<1>1. rows \subseteq Logical(view)
    BY DEF Survivors, Survive
<1>2. \A x \in rows : x.dims[d] \in view.base.dicts[d] \cup view.extras[d]
    BY <1>1, Facts, LogicalOK
<1>3. Merged(w).dicts = MergedDicts(view, rows, job[w].renumber)
    BY DEF Merged, mergeView, NewSnapshot
<1> HIDE DEF rows
<1> QED BY <1>2, <1>3 DEF MergedDicts, ValuesOf

LEMMA MergedFinite ==
    ASSUME IInv, ViewsFinite, NEW w \in Writers
    PROVE  \A d \in Dims : IsFiniteSet(Merged(w).dicts[d])
<1> SUFFICES ASSUME NEW d \in Dims PROVE IsFiniteSet(Merged(w).dicts[d])
    OBVIOUS
<1>1. IsFiniteSet(view.base.dicts[d] \cup view.extras[d])
    BY FS_Union DEF ViewsFinite, Finite
<1> QED BY <1>1, MergedValues, FS_Subset

LEMMA ImageFinite ==
    ASSUME NEW S, IsFiniteSet(S), NEW f
    PROVE  IsFiniteSet({f[x] : x \in S})
<1> DEFINE g == [x \in S |-> f[x]]
           T == {f[x] : x \in S}
<1>1. g \in Surjection(S, T)
    BY DEF Surjection
<1> HIDE DEF g, T
<1>2. IsFiniteSet(T)
    BY <1>1, FS_Surjection
<1> QED BY <1>2 DEF T

\* A dump is finite, and so is every dictionary built from it.
LEMMA BuiltFinite ==
    ASSUME IInv, NEW w \in Writers, NEW s \in buildFromRecords(Range(job[w].batch), job[w].cutoff, now)
    PROVE  \A d \in Dims : IsFiniteSet(s.dicts[d])
<1> DEFINE recs == Range(job[w].batch)
           rows == KeptRows(recs, job[w].cutoff)
<1>1. IsFiniteSet(recs)
  <2> DEFINE b == job[w].batch
  <2>1. b \in Seq(Inputs)
      BY Facts DEF Job
  <2> HIDE DEF b
  <2>2. DOMAIN b = 1 .. Len(b) /\ Len(b) \in Nat
      BY <2>1
  <2>3. IsFiniteSet(DOMAIN b)
      BY <2>2, FS_Interval
  <2>4. IsFiniteSet({b[i] : i \in DOMAIN b})
      BY <2>3, ImageFinite
  <2> QED BY <2>4 DEF Range, b
<1>2. s.dicts = ValuesOf(rows)
  <2> HIDE DEF recs, rows
  <2>1. \E keep : s = NewSnapshot({x \in keep : ~rowExpired(x.exp, now)}, ValuesOf(rows))
      BY DEF buildFromRecords, recs, rows
  <2> QED BY <2>1 DEF NewSnapshot
<1> HIDE DEF recs
<1>3. IsFiniteSet(rows)
  <2> DEFINE kept == {q \in recs : ~Aged(q, job[w].cutoff)}
             f == [q \in kept |-> ToRow(q)]
  <2>1. IsFiniteSet(kept)
      BY <1>1, FS_Subset
  <2>2. rows = {f[q] : q \in kept}
      BY DEF KeptRows
  <2> HIDE DEF f, kept, rows
  <2> QED BY <2>1, <2>2, ImageFinite
<1> HIDE DEF rows
<1>4. ASSUME NEW d \in Dims
      PROVE  IsFiniteSet(ValuesOf(rows)[d])
  <2> DEFINE f == [x \in rows |-> x.dims[d]]
  <2>1. ValuesOf(rows)[d] = {f[x] : x \in rows}
      BY DEF ValuesOf
  <2> HIDE DEF f
  <2> QED BY <1>3, <2>1, ImageFinite
<1> QED BY <1>2, <1>4

LEMMA StepFinite ==
    ASSUME IInv, ViewsFinite, [Next]_vars
    PROVE  ViewsFinite'
<1> USE DEF ViewsFinite, Finite
<1>1. ASSUME NEW w \in Writers, WriterCall(w) PROVE ViewsFinite'
  <2>1. ASSUME NEW c, NEW j, Lock(w, c, j), Finite(j.work) PROVE ViewsFinite'
      BY <2>1 DEF Lock, IInv, TypeOK
  <2>2. ASSUME NEW recs \in Batches, ApplyBegin(w, recs) PROVE ViewsFinite'
    <3> DEFINE j == [NoJob EXCEPT !.batch = recs, !.work = view, !.cutoff = ttlCutoff(now)]
    <3>1. Lock(w, "apply", j) /\ j.work = view
        BY <2>2 DEF ApplyBegin, NoJob
    <3> HIDE DEF j
    <3> QED BY <2>1, <3>1
  <2>3. ASSUME CompactBegin(w) PROVE ViewsFinite'
    <3> DEFINE renumber == DictCompactInterval <= 0 \/ now - lastDictCompact >= DictCompactInterval
    <3> DEFINE j == [NoJob EXCEPT !.nowMilli = now, !.renumber = renumber]
    <3>1. Lock(w, "compact", j)
        BY <2>3 DEF CompactBegin
    <3>2. j.work = NoJob.work
        BY DEF NoJob
    <3> HIDE DEF j
    <3> QED BY <2>1, <3>1, <3>2, NoJobFinite
  <2>4. ASSUME NEW recs \in Dumps, ReplaceBegin(w, recs) PROVE ViewsFinite'
    <3> DEFINE j == [NoJob EXCEPT !.batch = recs, !.cutoff = ttlCutoff(now)]
    <3>1. Lock(w, "replace", j) /\ j.work = NoJob.work
        BY <2>4 DEF ReplaceBegin, NoJob
    <3> HIDE DEF j
    <3> QED BY <2>1, <3>1, NoJobFinite
  <2> QED BY <1>1, <2>2, <2>3, <2>4 DEF WriterCall
<1>2. ASSUME NEW w \in Writers, WriterStep(w) PROVE ViewsFinite'
  <2>1. CASE ApplyNext(w)
    <3> DEFINE j == job[w]
               r == Head(j.batch)
               nxt == IF Aged(r, j.cutoff) THEN j.work ELSE ApplyRecord(j.work, ToRow(r), capBlocked)
    <3>0. Finite(nxt) /\ job'[w].work = nxt
      <4>1. Finite(nxt)
          BY ApplyRecordFinite
      <4>2. job' = [job EXCEPT ![w].batch = Tail(j.batch), ![w].work = nxt] /\ job[w] \in Job
          BY <2>1, Facts DEF ApplyNext
      <4> HIDE DEF nxt
      <4>3. job'[w] = [job[w] EXCEPT !.batch = Tail(j.batch), !.work = nxt]
          BY <4>2 DEF IInv, TypeOK
      <4> QED BY <4>1, <4>2, <4>3 DEF Job
    <3> HIDE DEF nxt
    <3>1. Finite(job'[w].work)
        BY <3>0
    <3>2. \A x \in Writers : x # w => job'[x] = job[x]
        BY <2>1 DEF ApplyNext, IInv, TypeOK
    <3> QED BY <2>1, <3>1, <3>2 DEF ApplyNext
  <2>2. CASE CompactRetry(w)
    <3>1. \A x \in Writers : job'[x].work = job[x].work
        BY <2>2 DEF CompactRetry, IInv, TypeOK, Job
    <3> QED BY <2>2, <3>1 DEF CompactRetry
  <2>3. ASSUME \E r : Return(w, r), Finite(view')
        PROVE  ViewsFinite'
    <3>1. \A x \in Writers : job'[x] = job[x] \/ job'[x] = NoJob
        BY <2>3 DEF Return, IInv, TypeOK
    <3> QED BY <2>3, <3>1, NoJobFinite
  <2>4. CASE ApplyFail(w) \/ CompactOverflow(w) \/ ReplaceFail(w)
      BY <2>3, <2>4 DEF ApplyFail, CompactOverflow, ReplaceFail, Fail
  <2>5. CASE ApplyEnd(w)
      BY <2>3, <2>5 DEF ApplyEnd
  <2>6. CASE CompactRefuse(w)
      BY <2>3, <2>6 DEF CompactRefuse, Refuse
  <2>7. CASE CompactEnd(w)
    <3>1. Finite(newView(Merged(w)))
        BY <2>7, MergedFinite, NewFinite
    <3> QED BY <2>3, <2>7, <3>1 DEF CompactEnd, Publish
  <2>8. CASE ReplaceEnd(w)
    <3>1. PICK s \in buildFromRecords(Range(job[w].batch), job[w].cutoff, now) : Refuse(w) \/ Publish(w, s)
        BY <2>8 DEF ReplaceEnd
    <3>2. Finite(newView(s))
        BY BuiltFinite, NewFinite
    <3> QED BY <2>3, <3>1, <3>2 DEF Refuse, Publish
  <2> QED BY <1>2, <2>1, <2>2, <2>4, <2>5, <2>6, <2>7, <2>8 DEF WriterStep
<1>3. ASSUME UNCHANGED <<view, job>> PROVE ViewsFinite'
    BY <1>3
<1>4. ASSUME NEW p \in Readers, QueryLoad(p) \/ QueryScan(p) PROVE UNCHANGED <<view, job>>
    BY <1>4 DEF QueryLoad, QueryScan, writerVars
<1>5. ASSUME Tick \/ UNCHANGED vars PROVE UNCHANGED <<view, job>>
    BY <1>5 DEF Tick, writerVars, vars
<1> QED BY <1>1, <1>2, <1>3, <1>4, <1>5 DEF Next

-----------------------------------------------------------------------------
(* The width Stats reports.                                                   *)

\* What overflows is within the dictionaries of the published view.
LEMMA ForewarnStep ==
    ASSUME IInv, ViewsFinite, [Next]_vars, NEW w \in Writers,
           pc[w] = "compact", pc'[w] = "idle", ret' = "key_overflow"
    PROVE  IndexKeyBits(view) > KeyBudget
<1> DEFINE dicts == ValuesOf(Survivors(view, ttlCutoff(now), job[w].nowMilli))
<1>1. KeyOverflow(dicts)
    BY OverflowStep DEF LiveOverflow
<1>2. \A d \in Dims : dicts[d] \subseteq view.base.dicts[d] \cup view.extras[d]
    BY Facts, LogicalOK DEF ValuesOf, Survivors, Survive
<1>3. ASSUME NEW d \in IndexDims
      PROVE  /\ IsFiniteSet(view.base.dicts[d]) /\ IsFiniteSet(view.extras[d])
             /\ view.base.dicts[d] \cap view.extras[d] = {}
    BY Facts, SchemaAssumption DEF ViewsFinite, Finite, ViewOK, DeltaOK
<1> HIDE DEF dicts
<1>4. /\ keyBits(dicts) \in Nat /\ IndexKeyBits(view) \in Nat
      /\ keyBits(dicts) <= IndexKeyBits(view)
    BY <1>2, <1>3, SchemaAssumption, WidthForewarns
<1> QED BY <1>1, <1>4, LimitAssumption DEF KeyOverflow

\* Stats warns before Compact fails: while the IndexKeyBits of the published view
\* are within the budget, garbage and delta values included, no merge of it
\* overflows the key, whatever cutoff and clock it runs at.
THEOREM WidthWarnsInTime == Spec => KeyBitsForewarn
<1>1. Init => ViewsFinite
    BY InitFinite
<1>2. IInv /\ ViewsFinite /\ [Next]_vars => ViewsFinite'
    BY StepFinite
<1>3. IInv /\ ViewsFinite /\ [Next]_vars =>
        [\A w \in Writers :
            pc[w] = "compact" /\ pc'[w] = "idle" /\ ret' = "key_overflow" =>
               IndexKeyBits(view) > KeyBudget]_vars
    BY ForewarnStep
<1> QED BY <1>1, <1>2, <1>3, Invariance, PTL DEF Spec, KeyBitsForewarn

-----------------------------------------------------------------------------
(* The columnar store implements the reference table of reference_test.go.    *)
(*                                                                            *)
(* The two specifications share the record-level helpers of Records.          *)

LEMMA SameHelpers ==
    /\ \A n : Ref!ttlCutoff(n) = ttlCutoff(n)
    /\ \A e, n : Ref!rowExpired(e, n) = rowExpired(e, n)
    /\ \A r : Ref!Parses(r) = Parses(r) /\ Ref!Resolve(r) = Resolve(r) /\ Ref!ToRow(r) = ToRow(r)
    /\ \A r, c : Ref!Aged(r, c) = Aged(r, c)
    /\ \A rows, c, n : Ref!Survive(rows, c, n) = Survive(rows, c, n)
    /\ \A rows : /\ Ref!UniqueTuples(rows) <=> UniqueTuples(rows)
                 /\ Ref!Tuples(rows) = Tuples(rows)
                 /\ Ref!OverCap(rows) <=> OverCap(rows)
    /\ \A f : Ref!Range(f) = Range(f)
<1>1. /\ \A n : Ref!ttlCutoff(n) = ttlCutoff(n)
      /\ \A e, n : Ref!rowExpired(e, n) = rowExpired(e, n)
    BY DEF Ref!ttlCutoff, ttlCutoff, Ref!rowExpired, rowExpired
<1>2. \A r : Ref!Parses(r) = Parses(r) /\ Ref!Resolve(r) = Resolve(r)
    BY DEF Ref!Parses, Parses, Ref!Resolve, Resolve
<1>3. \A t : Ref!expireMilli(t) = expireMilli(t)
    BY DEF Ref!expireMilli, expireMilli
<1>4. \A r : Ref!ToRow(r) = ToRow(r)
    BY <1>2, <1>3 DEF Ref!ToRow, ToRow
<1>5. \A r, c : Ref!Aged(r, c) = Aged(r, c)
    BY DEF Ref!Aged, Aged
<1>6. \A rows, c, n : Ref!Survive(rows, c, n) = Survive(rows, c, n)
    BY <1>1 DEF Ref!Survive, Survive
<1>7. ASSUME NEW rows
      PROVE  /\ Ref!UniqueTuples(rows) <=> UniqueTuples(rows)
             /\ Ref!Tuples(rows) = Tuples(rows)
             /\ Ref!OverCap(rows) <=> OverCap(rows)
  <2>1. Ref!UniqueTuples(rows) <=> UniqueTuples(rows)
      BY DEF Ref!UniqueTuples, UniqueTuples
  <2>2. Ref!Tuples(rows) = Tuples(rows)
      BY DEF Ref!Tuples, Tuples
  <2>3. Ref!OverCap(rows) <=> OverCap(rows)
      BY DEF Ref!OverCap, OverCap, Ref!Cardinality, Cardinality
  <2> QED BY <2>1, <2>2, <2>3
<1>8. \A f : Ref!Range(f) = Range(f)
    BY DEF Ref!Range, Range
<1> QED BY <1>1, <1>2, <1>4, <1>5, <1>6, <1>7, <1>8

-----------------------------------------------------------------------------
(* What the mapped variables are, outside and inside a call.                  *)

LEMMA IdleIsNone ==
    ASSUME \A w \in Writers : mu # w
    PROVE  refCall = "none" /\ refPend = <<>> /\ refWork = Logical(view)
BY DEF refCall, refPend, refWork, InCall

LEMMA InCallIs ==
    ASSUME NEW w \in Writers, mu = w
    PROVE  /\ pc[w] = "apply" => /\ refCall = "apply" /\ refPend = job[w].batch
                                 /\ refWork = Logical(job[w].work)
           /\ pc[w] = "replace" => /\ refCall = "replace" /\ refPend = job[w].batch
                                   /\ refWork = Logical(view)
           /\ pc[w] \notin {"apply", "replace"} =>
                  /\ refCall = "none" /\ refPend = <<>> /\ refWork = Logical(view)
BY DEF refCall, refPend, refWork, InCall

\* Lock enters a call while no other is under way.
LEMMA LockMaps ==
    ASSUME IInv, NEW w \in Writers, NEW c \in {"apply", "compact", "replace"}, NEW j \in Job,
           Lock(w, c, j)
    PROVE  /\ refCall = "none" /\ refPend = <<>> /\ refWork = Logical(view)
           /\ UNCHANGED <<view, capBlocked, refSnap, refAns, now>>
           /\ c = "apply" => /\ refCall' = "apply" /\ refPend' = j.batch
                             /\ refWork' = Logical(j.work)
           /\ c = "replace" => /\ refCall' = "replace" /\ refPend' = j.batch
                               /\ refWork' = Logical(view)
           /\ c = "compact" => /\ refCall' = "none" /\ refPend' = <<>>
                               /\ refWork' = Logical(view)
<1>1. \A x \in Writers : mu # x
    BY StartAssumption DEF Lock, Enter
<1>2. mu' = w /\ pc'[w] = c /\ job'[w] = j /\ UNCHANGED <<view, capBlocked, held, reading, res, now>>
    BY DEF Lock, readerVars, IInv, TypeOK
<1>3. UNCHANGED <<refSnap, refAns>>
    BY <1>2 DEF refSnap, refAns
<1> QED BY <1>1, <1>2, <1>3, IdleIsNone DEF refCall, refPend, refWork, InCall

\* Return leaves no call under way.
LEMMA ReturnMaps ==
    ASSUME IInv, NEW w \in Writers, NEW result, Return(w, result)
    PROVE  /\ refCall' = "none" /\ refPend' = <<>> /\ refWork' = Logical(view')
           /\ UNCHANGED <<refSnap, refAns, now>>
<1>1. mu' = NoOne /\ UNCHANGED <<held, reading, res, now>>
    BY DEF Return, readerVars
<1>2. UNCHANGED <<refSnap, refAns>>
    BY <1>1 DEF refSnap, refAns
<1> QED BY <1>1, <1>2, StartAssumption DEF refCall, refPend, refWork, InCall

\* So a call that returns maps to Finish with the table it leaves.
LEMMA ReturnFinishes ==
    ASSUME IInv, NEW w \in Writers, NEW result, Return(w, result)
    PROVE  Ref!Finish(Logical(view'), capBlocked')
BY ReturnMaps DEF Ref!Finish

\* Publishing a snapshot finishes with its rows and lifts the block.
LEMMA PublishFinishes ==
    ASSUME IInv, NEW w \in Writers, NEW s, Publish(w, s)
    PROVE  Ref!Finish(s.rows, FALSE)
<1>1. Logical(view') = s.rows
    BY DEF Publish, Logical, newView, emptyDelta
<1> QED BY <1>1, ReturnFinishes DEF Publish

\* A refused call leaves the table and raises the block.
LEMMA RefuseFinishes ==
    ASSUME IInv, NEW w \in Writers, Refuse(w)
    PROVE  Ref!Finish(Logical(view), TRUE)
BY ReturnFinishes DEF Refuse

LEMMA FailFinishes ==
    ASSUME IInv, NEW w \in Writers, NEW result, Fail(w, result)
    PROVE  Ref!Finish(Logical(view), capBlocked)
BY ReturnFinishes DEF Fail

-----------------------------------------------------------------------------
(* Every step of the store is a step of the table, or changes nothing in it.  *)

LEMMA RefInit == Init => Ref!Init
<1> SUFFICES ASSUME Init PROVE Ref!Init
    OBVIOUS
<1>1. Logical(view) = {}
    BY DEF Init, Logical, newView, emptySnapshot, NewSnapshot, emptyDelta
<1>2. \A w \in Writers : mu # w
    BY StartAssumption DEF Init
<1>3. refSnap = [p \in Readers |-> {}] /\ refAns = [p \in Readers |-> {}]
    BY DEF Init, refSnap, refAns, Nothing
<1> QED BY <1>1, <1>2, <1>3, IdleIsNone DEF Init, Ref!Init

\* A record of a batch: skipped when aged, else upserted into the logical table.
LEMMA ApplyNextMaps ==
    ASSUME IInv, NEW w \in Writers, ApplyNext(w)
    PROVE  Ref!Process
<1> DEFINE j == job[w]
<1> DEFINE r == Head(j.batch)
<1>1. /\ pc[w] = "apply" /\ mu = w /\ j \in Job /\ j.batch \in Seq(Inputs) /\ j.batch # <<>>
      /\ j.work \in AnyView /\ ViewOK(j.work) /\ capBlocked \in BOOLEAN /\ ~Rejected(r, j.cutoff)
    BY Facts DEF ApplyNext, IInv, JobsOK, LockOK, Job
<1>2. refCall = "apply" /\ refPend = j.batch /\ refWork = Logical(j.work)
    BY <1>1, InCallIs
<1>3. /\ job'[w].batch = Tail(j.batch)
      /\ job'[w].work = IF Aged(r, j.cutoff) THEN j.work
                        ELSE ApplyRecord(j.work, ToRow(r), capBlocked)
      /\ UNCHANGED <<view, capBlocked, mu, pc, held, reading, res, now>>
    BY <1>1 DEF ApplyNext, IInv, TypeOK, readerVars, Job
<1>4. refCall' = "apply" /\ refPend' = Tail(j.batch) /\ refWork' = Logical(job'[w].work)
    BY <1>1, <1>3 DEF refCall, refPend, refWork, InCall
<1>5. UNCHANGED <<refSnap, refAns>>
    BY <1>3 DEF refSnap, refAns
<1>6. \/ r.arity /\ Parses(r) /\ refWork' = Ref!Upsert(refWork, ToRow(r))
      \/ /\ \/ Aged(r, ttlCutoff(now))
            \/ capBlocked /\ Parses(r) /\ Resolve(r) \notin Tuples(refWork)
         /\ UNCHANGED refWork
  <2>1. CASE Aged(r, j.cutoff)
    <3>1. PICK n \in StartTime .. now : j.cutoff = ttlCutoff(n)
        BY <1>1 DEF IInv, JobsOK
    <3>2. n \in Int /\ n <= now /\ now \in Int /\ TTL \in Nat
        BY Facts, TimeAssumption
    <3>3. r \in Inputs
        BY <1>1
    <3> HIDE DEF r
    <3>4. r.upd \in Int
        BY <3>3, InputAssumption, ZeroIsTime DEF Record
    <3>5. ttlCutoff(n) \in Int /\ ttlCutoff(now) \in Int /\ ttlCutoff(n) <= ttlCutoff(now)
        BY <3>2 DEF ttlCutoff
    <3>6. Aged(r, ttlCutoff(now))
        BY <2>1, <3>1, <3>4, <3>5 DEF Aged
    <3> QED BY <1>2, <1>3, <1>4, <2>1, <3>6
  <2>2. CASE ~Aged(r, j.cutoff)
    <3> DEFINE row == ToRow(r)
    <3> DEFINE found == {x \in Logical(j.work) : x.dims = row.dims}
    <3>1. r.arity /\ Parses(r) /\ row \in Row /\ row.dims = Resolve(r)
        BY <1>1, <2>2, ToRowOK DEF Rejected
    <3>2. refWork' = IF Superseded(found, row.upd) \/ Dropped(capBlocked, found)
                     THEN Logical(j.work) ELSE (Logical(j.work) \ found) \cup {row}
      <4>1. refWork' = Logical(ApplyRecord(j.work, row, capBlocked))
          BY <1>3, <1>4, <2>2
      <4> HIDE DEF row, j
      <4> QED BY <1>1, <3>1, <4>1, ApplyRecordLogical
    <3> HIDE DEF row
    <3>3. CASE Superseded(found, row.upd)
      <4>1. \E x \in Logical(j.work) : x.dims = row.dims /\ x.upd > row.upd
          BY <3>3 DEF Superseded
      <4> QED BY <1>2, <3>1, <3>2, <3>3, <4>1 DEF Ref!Upsert, row
    <3>4. CASE ~Superseded(found, row.upd) /\ Dropped(capBlocked, found)
      <4>1. capBlocked /\ Resolve(r) \notin Tuples(Logical(j.work))
          BY <3>1, <3>4 DEF Dropped, Tuples
      <4> QED BY <1>2, <3>1, <3>2, <3>4, <4>1
    <3>5. CASE ~Superseded(found, row.upd) /\ ~Dropped(capBlocked, found)
      <4>1. ~\E x \in Logical(j.work) : x.dims = row.dims /\ x.upd > row.upd
          BY <3>5 DEF Superseded
      <4>2. Logical(j.work) \ found = {x \in Logical(j.work) : x.dims # row.dims}
          OBVIOUS
      <4> QED BY <1>2, <3>1, <3>2, <3>5, <4>1, <4>2 DEF Ref!Upsert, row
    <3> QED BY <3>3, <3>4, <3>5
  <2> QED BY <2>1, <2>2
<1> HIDE DEF j, r
<1> QED BY <1>1, <1>2, <1>3, <1>4, <1>5, <1>6, SameHelpers DEF Ref!Process, r

\* ReplaceAll: the snapshots a rebuild may make are the tables a dump may give.
LEMMA ReplaceEndMaps ==
    ASSUME IInv, NEW w \in Writers, ReplaceEnd(w)
    PROVE  Ref!Replace
<1> DEFINE cutoff == job[w].cutoff
<1> DEFINE rows == KeptRows(Range(job[w].batch), cutoff)
<1>1. pc[w] = "replace" /\ mu = w
    BY DEF ReplaceEnd, IInv, JobsOK, LockOK
<1>2. refCall = "replace" /\ refPend = job[w].batch
    BY <1>1, InCallIs
<1>3. PICK n \in StartTime .. now : cutoff = ttlCutoff(n)
    BY <1>1 DEF IInv, JobsOK
<1>4. cutoff \in {Ref!ttlCutoff(k) : k \in StartTime .. now}
    BY <1>3, SameHelpers
<1>5. PICK s \in buildFromRecords(Range(job[w].batch), cutoff, now) :
         \/ OverCap(s.rows) /\ Refuse(w)
         \/ ~OverCap(s.rows) /\ Publish(w, s) /\ UNCHANGED lastDictCompact
    BY DEF ReplaceEnd
<1>6. PICK keep \in Deduped(rows) : s.rows = {x \in keep : ~rowExpired(x.exp, now)}
  <2>1. PICK keep \in Deduped(rows) :
          s = NewSnapshot({x \in keep : ~rowExpired(x.exp, now)}, ValuesOf(rows))
      BY DEF buildFromRecords
  <2>2. s.rows = {x \in keep : ~rowExpired(x.exp, now)}
      BY <2>1 DEF NewSnapshot
  <2> QED BY <2>2
<1>7. Ref!DumpRows(cutoff) = rows
    BY <1>2, SameHelpers DEF Ref!DumpRows, KeptRows
<1> HIDE DEF rows, cutoff
<1>8. Ref!Latest(rows) = Deduped(rows)
    BY SameHelpers DEF Ref!Latest, Ref!Newest, Deduped
<1>9. \/ OverCap(s.rows) /\ Ref!Finish(Logical(view), TRUE)
      \/ ~OverCap(s.rows) /\ Ref!Finish(s.rows, FALSE)
    BY <1>5, RefuseFinishes, PublishFinishes
<1>10. {x \in keep : ~Ref!rowExpired(x.exp, now)} = s.rows
    BY <1>6, SameHelpers
<1>11. Ref!OverCap(s.rows) <=> OverCap(s.rows)
    BY SameHelpers
<1> QED BY <1>2, <1>4, <1>6, <1>7, <1>8, <1>9, <1>10, <1>11 DEF Ref!Replace

\* A merge forgets the aged and the expired, or is refused.
LEMMA CompactMaps ==
    ASSUME IInv, NEW w \in Writers, CompactRefuse(w) \/ CompactEnd(w)
    PROVE  Ref!Reclaim
<1> DEFINE n == job[w].nowMilli
<1> DEFINE rows == Ref!Survive(Logical(view), Ref!ttlCutoff(now), n)
<1>1. pc[w] = "compact" /\ mu = w /\ n \in StartTime .. now
    BY DEF CompactRefuse, CompactEnd, IInv, JobsOK, LockOK
<1>2. refCall = "none"
    BY <1>1, InCallIs
<1>3. rows = Merged(w).rows
    BY SameHelpers DEF Merged, mergeView, Survivors, NewSnapshot
<1>4. Ref!OverCap(rows) <=> OverCap(Merged(w).rows)
    BY <1>3, SameHelpers
<1>5. \/ OverCap(Merged(w).rows) /\ Ref!Finish(Logical(view), TRUE)
      \/ ~OverCap(Merged(w).rows) /\ Ref!Finish(Merged(w).rows, FALSE)
    BY RefuseFinishes, PublishFinishes DEF CompactRefuse, CompactEnd
<1>6. IF Ref!OverCap(rows) THEN Ref!Finish(Logical(view), TRUE) ELSE Ref!Finish(rows, FALSE)
    BY <1>3, <1>4, <1>5
<1> QED BY <1>1, <1>2, <1>6 DEF Ref!Reclaim

LEMMA CompactRetryMaps ==
    ASSUME IInv, NEW w \in Writers, CompactRetry(w)
    PROVE  UNCHANGED Ref!vars
<1>1. /\ pc[w] = "compact" /\ mu = w
      /\ UNCHANGED <<view, capBlocked, mu, pc, held, reading, res, now>>
    BY DEF CompactRetry, readerVars, IInv, JobsOK, LockOK
<1>2. refCall' = "none" /\ refPend' = <<>> /\ refWork' = Logical(view)
    BY <1>1 DEF refCall, refPend, refWork, InCall
<1>3. refCall = "none" /\ refPend = <<>> /\ refWork = Logical(view)
    BY <1>1, InCallIs
<1>4. UNCHANGED <<refSnap, refAns>>
    BY <1>1 DEF refSnap, refAns
<1> QED BY <1>1, <1>2, <1>3, <1>4 DEF Ref!vars

\* A call that has no effect on the table while no batch or dump is under way.
LEMMA CompactOverflowMaps ==
    ASSUME IInv, NEW w \in Writers, CompactOverflow(w)
    PROVE  UNCHANGED Ref!vars
<1>1. pc[w] = "compact" /\ mu = w
    BY DEF CompactOverflow, IInv, JobsOK, LockOK
<1>2. refCall = "none" /\ refPend = <<>> /\ refWork = Logical(view)
    BY <1>1, InCallIs
<1>3. Return(w, "key_overflow") /\ UNCHANGED <<view, capBlocked>>
    BY DEF CompactOverflow, Fail
<1> QED BY <1>2, <1>3, ReturnMaps DEF Ref!vars

\* A query loads one table and answers from it.
LEMMA QueryMaps ==
    ASSUME IInv, NEW p \in Readers
    PROVE  (QueryLoad(p) => Ref!Open(p)) /\ (QueryScan(p) => Ref!Answer(p))
<1>1. ASSUME UNCHANGED writerVars PROVE UNCHANGED <<refCall, refPend, refWork>>
    BY <1>1 DEF writerVars, refCall, refPend, refWork, InCall
<1>2. ASSUME QueryLoad(p) PROVE Ref!Open(p)
  <2>1. refSnap[p] = {} /\ UNCHANGED <<writerVars, now>>
      BY <1>2 DEF QueryLoad, refSnap
  <2>2. refSnap' = [refSnap EXCEPT ![p] = {Logical(view)}]
      BY <1>2 DEF QueryLoad, refSnap, IInv, TypeOK
  <2>3. refAns' = [refAns EXCEPT ![p] = {}]
      BY <1>2 DEF QueryLoad, refAns, IInv, TypeOK, Nothing
  <2> QED BY <1>1, <2>1, <2>2, <2>3 DEF Ref!Open, writerVars
<1>3. ASSUME QueryScan(p) PROVE Ref!Answer(p)
  <2>1. refSnap[p] = {Logical(held[p])} /\ UNCHANGED <<writerVars, now>>
      BY <1>3 DEF QueryScan, refSnap
  <2>2. refSnap' = [refSnap EXCEPT ![p] = {}]
      BY <1>3 DEF QueryScan, refSnap, IInv, TypeOK
  <2>3. refAns' = [refAns EXCEPT ![p] = BaseScan(held[p], now) \cup DeltaScan(held[p], now)]
      BY <1>3 DEF QueryScan, refAns, IInv, TypeOK
  <2>4. held[p] \in AnyView /\ ViewOK(held[p]) /\ now \in Int
      BY Facts DEF IInv, TypeOK, ViewsOK
  <2>5. BaseScan(held[p], now) \cup DeltaScan(held[p], now)
            = {x \in Logical(held[p]) : ~Ref!rowExpired(x.exp, now)}
      BY <2>4, ScanIsVisible, SameHelpers
  <2> QED BY <1>1, <2>1, <2>2, <2>3, <2>5 DEF Ref!Answer, writerVars
<1> QED BY <1>2, <1>3

-----------------------------------------------------------------------------
LEMMA RefStep == IInv /\ [Next]_vars => [Ref!Next]_(Ref!vars)
<1> SUFFICES ASSUME IInv, [Next]_vars PROVE Ref!Next \/ UNCHANGED Ref!vars
    OBVIOUS
<1>1. ASSUME NEW w \in Writers, NEW recs \in Batches, ApplyBegin(w, recs) PROVE Ref!Begin
  <2> DEFINE j == [NoJob EXCEPT !.batch = recs, !.work = view, !.cutoff = ttlCutoff(now)]
  <2>1. j \in Job /\ j.batch = recs /\ recs \in Seq(Inputs) /\ j.work = view
      BY Facts, CutoffOK, NoJobOK, BatchesAreSequences DEF Job
  <2>2. Lock(w, "apply", j)
      BY <1>1 DEF ApplyBegin
  <2> HIDE DEF j
  <2> QED BY <2>1, <2>2, LockMaps DEF Ref!Begin
<1>2. ASSUME NEW w \in Writers, CompactBegin(w) PROVE UNCHANGED Ref!vars
  <2> DEFINE b == (DictCompactInterval <= 0) \/ (now - lastDictCompact >= DictCompactInterval)
  <2> DEFINE j == [NoJob EXCEPT !.nowMilli = now, !.renumber = b]
  <2>1. b \in BOOLEAN /\ now \in Time
      BY Facts, CutoffOK
  <2>2. Lock(w, "compact", j)
      BY <1>2 DEF CompactBegin
  <2> HIDE DEF b
  <2>3. j \in Job
      BY <2>1, NoJobOK DEF Job
  <2> HIDE DEF j
  <2> QED BY <2>2, <2>3, LockMaps DEF Ref!vars
<1>3. ASSUME NEW w \in Writers, NEW recs \in Dumps, ReplaceBegin(w, recs) PROVE Ref!Begin
  <2> DEFINE j == [NoJob EXCEPT !.batch = recs, !.cutoff = ttlCutoff(now)]
  <2>1. j \in Job /\ j.batch = recs /\ recs \in Seq(Inputs)
      BY Facts, CutoffOK, NoJobOK, BatchesAreSequences DEF Job
  <2>2. Lock(w, "replace", j)
      BY <1>3 DEF ReplaceBegin
  <2> HIDE DEF j
  <2> QED BY <2>1, <2>2, LockMaps DEF Ref!Begin
<1>4. ASSUME NEW w \in Writers, ApplyFail(w) PROVE Ref!Abort
  <2>1. pc[w] = "apply" /\ mu = w
      BY <1>4 DEF ApplyFail, IInv, JobsOK, LockOK
  <2>2. refCall = "apply" /\ refPend = job[w].batch
      BY <2>1, InCallIs
  <2>3. Ref!Finish(Logical(view), capBlocked)
      BY <1>4, FailFinishes DEF ApplyFail
  <2> QED BY <1>4, <2>2, <2>3, SameHelpers DEF Ref!Abort, ApplyFail, Rejected
<1>5. ASSUME NEW w \in Writers, ApplyEnd(w) PROVE Ref!Commit
  <2>1. pc[w] = "apply" /\ mu = w
      BY <1>5 DEF ApplyEnd, IInv, JobsOK, LockOK
  <2>2. refCall = "apply" /\ refPend = job[w].batch /\ refWork = Logical(job[w].work)
      BY <2>1, InCallIs
  <2>3. Ref!Finish(Logical(view'), capBlocked')
      BY <1>5, ReturnFinishes DEF ApplyEnd
  <2>4. Logical(view') = refWork /\ capBlocked' = capBlocked
      BY <1>5, <2>2 DEF ApplyEnd
  <2> QED BY <1>5, <2>2, <2>3, <2>4 DEF Ref!Commit, ApplyEnd
<1>6. ASSUME NEW w \in Writers, ReplaceFail(w) PROVE Ref!Replace
  <2>1. pc[w] = "replace" /\ mu = w
      BY <1>6 DEF ReplaceFail, IInv, JobsOK, LockOK
  <2>2. refCall = "replace"
      BY <2>1, InCallIs
  <2>3. PICK n \in StartTime .. now : job[w].cutoff = ttlCutoff(n)
      BY <2>1 DEF IInv, JobsOK
  <2>4. Ref!Finish(Logical(view), capBlocked)
      BY <1>6, FailFinishes DEF ReplaceFail
  <2> QED BY <2>2, <2>3, <2>4 DEF Ref!Replace
<1>7. ASSUME Tick PROVE Ref!Tick
  <2>1. UNCHANGED <<refCall, refPend, refWork, refSnap, refAns, view, capBlocked>>
      BY <1>7 DEF Tick, writerVars, readerVars, refCall, refPend, refWork, refSnap, refAns, InCall
  <2> QED BY <1>7, <2>1 DEF Tick, Ref!Tick
<1>8. ASSUME UNCHANGED vars PROVE UNCHANGED Ref!vars
    BY <1>8 DEF vars, Ref!vars, refCall, refPend, refWork, refSnap, refAns, InCall
<1>9. ASSUME NEW w \in Writers, WriterCall(w) PROVE Ref!Next \/ UNCHANGED Ref!vars
    BY <1>1, <1>2, <1>3, <1>9 DEF WriterCall, Ref!Next
<1>10. ASSUME NEW w \in Writers, WriterStep(w) PROVE Ref!Next \/ UNCHANGED Ref!vars
    BY <1>4, <1>5, <1>6, <1>10, ApplyNextMaps, CompactRetryMaps, CompactOverflowMaps,
       CompactMaps, ReplaceEndMaps DEF WriterStep, Ref!Next
<1>11. ASSUME NEW p \in Readers, QueryLoad(p) \/ QueryScan(p) PROVE Ref!Next
    BY <1>11, QueryMaps DEF Ref!Next
<1> QED BY <1>7, <1>8, <1>9, <1>10, <1>11 DEF Next, Ref!Next

\* The store implements the reference table: batches upsert in order and as a
\* whole, the newest record of a tuple wins, compaction is invisible, and a query
\* answers from the one table it loaded (store.go, view.go, query.go).
THEOREM Refinement == Spec => ImplementsRefTable
BY Invariance, RefInit, RefStep, PTL DEF Spec, ImplementsRefTable, Ref!Spec

-----------------------------------------------------------------------------
(* The safety of the snapshot file for every schema, every number of savers   *)
(* and loaders and every earlier file: a file of this process always loads,   *)
(* and what is loaded is right, wherever a crash strikes (persist.go).        *)

\* What any snapshot ever written to the file satisfies, whatever its schema.
Written(s) ==
    /\ RowsOK(s.rows)
    /\ \A x \in s.rows, d \in Dims : x.dims[d] \in s.dicts[d]
    /\ s.maxUpdated = MaxUpdated(s.rows)

\* The invariant the induction needs: the file is synced and of this schema
\* unless an earlier process left it, and whatever a save or a load holds is a
\* right snapshot.
PInv ==
    /\ IInv
    /\ PersistTypeOK
    /\ \A f \in file : f.bytes = "stable" /\ (f \in EarlierFiles \/ SnapshotOK(f.snap))
    /\ \A q \in Savers : SnapshotOK(image[q])
    /\ \A l \in Loaders : \A s \in loading[l] : SnapshotOK(s)

-----------------------------------------------------------------------------
(* Reading a file back.                                                       *)

\* Every file is typed, and its rows are unique, known and dated.
LEMMA FileIsWritten ==
    ASSUME NEW f \in [snap: Snapshot, bytes: FileStates], f \in EarlierFiles \/ SnapshotOK(f.snap)
    PROVE  Written(f.snap)
BY EarlierAssumption DEF Written, SnapshotOK

\* A file that passes the checks is read as a right snapshot: an entry of an
\* integer dimension parses, entries stay distinct, and so rows stay unique.
LEMMA ReadOK ==
    ASSUME NEW f \in [snap: Snapshot, bytes: FileStates], Written(f.snap), ~FormatError(f)
    PROVE  readSnapshotFile(f) \in Snapshot /\ SnapshotOK(readSnapshotFile(f))
<1> DEFINE old == f.snap
<1> DEFINE parsed(t) == [d \in Dims |-> Reparse(d, t[d])]
<1> DEFINE rows == {[x EXCEPT !.dims = parsed(x.dims)] : x \in old.rows}
<1> DEFINE dicts == [d \in Dims |-> {Reparse(d, s) : s \in old.dicts[d]}]
<1>1. /\ old.rows \in SUBSET Row /\ old.dicts \in Dicts /\ old.maxUpdated \in Time
      /\ RowsOK(old.rows) /\ old.maxUpdated = MaxUpdated(old.rows)
      /\ \A x \in old.rows, d \in Dims : x.dims[d] \in old.dicts[d]
    BY DEF Snapshot, Written
<1>2. \A d \in Dims : \A s \in old.dicts[d] : Reparse(d, s) \in Spellings
  <2> SUFFICES ASSUME NEW d \in Dims, NEW s \in old.dicts[d] PROVE Reparse(d, s) \in Spellings
      OBVIOUS
  <2>1. s \in Spellings
      BY <1>1 DEF Dicts
  <2>2. Reparse(d, s) # NonInt
      BY DEF FormatError
  <2> QED BY <2>1, <2>2, SchemaAssumption DEF Reparse
<1>3. \A d \in Dims : \A s, t \in old.dicts[d] : Reparse(d, s) = Reparse(d, t) => s = t
    BY DEF FormatError
<1>4. \A x \in old.rows : parsed(x.dims) \in Tuple
    BY <1>1, <1>2 DEF Tuple
<1>5. \A x \in old.rows : /\ [x EXCEPT !.dims = parsed(x.dims)] \in Row
                          /\ [x EXCEPT !.dims = parsed(x.dims)].dims = parsed(x.dims)
                          /\ [x EXCEPT !.dims = parsed(x.dims)].upd = x.upd
    BY <1>1, <1>4 DEF Row
<1>6. rows \in SUBSET Row
    BY <1>5
<1>7. \A x, y \in old.rows : parsed(x.dims) = parsed(y.dims) => x = y
  <2> SUFFICES ASSUME NEW x \in old.rows, NEW y \in old.rows, parsed(x.dims) = parsed(y.dims)
               PROVE  x = y
      OBVIOUS
  <2>1. \A d \in Dims : Reparse(d, x.dims[d]) = Reparse(d, y.dims[d])
    <3>1. \A d \in Dims : /\ parsed(x.dims)[d] = Reparse(d, x.dims[d])
                          /\ parsed(y.dims)[d] = Reparse(d, y.dims[d])
        OBVIOUS
    <3> QED BY <3>1
  <2>2. \A d \in Dims : x.dims[d] = y.dims[d]
      BY <1>1, <1>3, <2>1
  <2>3. x.dims \in Tuple /\ y.dims \in Tuple
      BY <1>1 DEF Row
  <2>4. x.dims = y.dims
      BY <2>2, <2>3 DEF Tuple
  <2> QED BY <1>1, <2>4 DEF RowsOK, UniqueTuples
<1>8. RowsOK(rows)
  <2>1. ASSUME NEW u \in rows, NEW v \in rows, u.dims = v.dims PROVE u = v
    <3>1. PICK x \in old.rows : u = [x EXCEPT !.dims = parsed(x.dims)]
        BY <2>1
    <3>2. PICK y \in old.rows : v = [y EXCEPT !.dims = parsed(y.dims)]
        BY <2>1
    <3>3. parsed(x.dims) = parsed(y.dims)
        BY <1>5, <2>1, <3>1, <3>2
    <3> QED BY <1>7, <3>1, <3>2, <3>3
  <2>2. \A u \in rows : u.upd > 0
      BY <1>1, <1>5 DEF RowsOK
  <2> QED BY <2>1, <2>2 DEF RowsOK, UniqueTuples
<1>9. dicts \in Dicts
    BY <1>2 DEF Dicts
<1>10. \A x \in rows, d \in Dims : x.dims[d] \in dicts[d]
  <2> SUFFICES ASSUME NEW x \in old.rows, NEW d \in Dims PROVE parsed(x.dims)[d] \in dicts[d]
      BY <1>5
  <2> QED BY <1>1
<1>11. Canonical(dicts)
  <2> SUFFICES ASSUME NEW d \in IntDims, NEW s \in old.dicts[d]
               PROVE  ParseInt[Reparse(d, s)] = Reparse(d, s)
      BY SchemaAssumption DEF Canonical
  <2>1. d \in Dims /\ s \in Spellings /\ ParseInt[s] # NonInt
      BY <1>1, SchemaAssumption DEF Dicts, FormatError, Reparse
  <2> QED BY <2>1, SchemaAssumption DEF Reparse
<1>12. MaxUpdated(rows) = old.maxUpdated
  <2>1. {u.upd : u \in rows} = {x.upd : x \in old.rows}
    <3>1. \A u \in rows : \E x \in old.rows : u.upd = x.upd
        BY <1>5
    <3>2. \A x \in old.rows : \E u \in rows : u.upd = x.upd
        BY <1>5
    <3> HIDE DEF rows
    <3> QED BY <3>1, <3>2
  <2>2. MaxUpdated(rows) = MaxUpdated(old.rows)
      BY <2>1, Zenon DEF MaxUpdated
  <2> QED BY <1>1, <2>2
<1>13. readSnapshotFile(f) = NewSnapshot(rows, dicts)
    BY <1>12 DEF readSnapshotFile, NewSnapshot
<1>14. ~KeyOverflow(dicts)
    BY DEF FormatError, readSnapshotFile
<1> HIDE DEF rows, dicts
<1> QED BY <1>6, <1>8, <1>9, <1>10, <1>11, <1>13, <1>14, NewSnapshotType, NewSnapshotOK

\* What this schema wrote and synced passes every check.
LEMMA RightIsLoadable ==
    ASSUME NEW f \in [snap: Snapshot, bytes: FileStates], SnapshotOK(f.snap), f.bytes = "stable"
    PROVE  ~FormatError(f)
<1>1. f.snap.dicts \in Dicts /\ Canonical(f.snap.dicts)
    BY DEF Snapshot, SnapshotOK
<1>2. \A d \in Dims : \A s \in f.snap.dicts[d] : Reparse(d, s) = s /\ s \in Spellings
    BY <1>1 DEF Reparse, Canonical, Dicts
<1>3. \A d \in Dims : \A s \in f.snap.dicts[d] : Reparse(d, s) # NonInt
    BY <1>2, SchemaAssumption
<1>4. readSnapshotFile(f).dicts = f.snap.dicts
  <2>1. \A d \in Dims : {Reparse(d, s) : s \in f.snap.dicts[d]} = f.snap.dicts[d]
      BY <1>2
  <2> QED BY <1>1, <2>1 DEF readSnapshotFile, Dicts
<1>5. ~KeyOverflow(readSnapshotFile(f).dicts) /\ f.snap.maxUpdated = MaxUpdated(f.snap.rows)
    BY <1>4 DEF SnapshotOK
<1> QED BY <1>2, <1>3, <1>5 DEF FormatError

-----------------------------------------------------------------------------
(* Every step keeps the invariant.                                            *)

\* There is no file or one.
LEMMA AtMostOne ==
    ASSUME NEW S, S = {} \/ \E f : S = {f}
    PROVE  Cardinality(S) <= 1
<1>1. Cardinality(S) = 0 \/ Cardinality(S) = 1
    BY FS_EmptySet, FS_Singleton, Zenon
<1> QED BY <1>1

LEMMA PersistInitInv == PersistInit => PInv
<1> SUFFICES ASSUME PersistInit PROVE PInv
    OBVIOUS
<1>1. IInv /\ emptySnapshot \in Snapshot /\ SnapshotOK(emptySnapshot)
    BY InitInv, EmptyOK DEF PersistInit
<1>2. file = {} \/ \E f \in EarlierFiles : file = {f}
    BY DEF PersistInit
<1>3. Cardinality(file) <= 1
    BY <1>2, AtMostOne
<1>4. \A f \in file : f \in EarlierFiles /\ f \in [snap: Snapshot, bytes: FileStates]
                      /\ f.bytes = "stable"
    BY <1>2, EarlierAssumption DEF FileStates
<1>5. PersistTypeOK
    BY <1>1, <1>3, <1>4 DEF PersistInit, PersistTypeOK, IInv
<1> QED BY <1>1, <1>4, <1>5 DEF PersistInit, PInv

\* Saves and loads leave the store as it is.
LEMMA SaveKeeps ==
    ASSUME PInv, NEW q \in Savers, Save(q)
    PROVE  PInv'
<1>1. UNCHANGED <<vars, loading>>
    BY DEF Save, SaveBegin, SaveSync, SaveFail, SaveRename, SaveStep
<1>2. IInv'
    BY <1>1, StepInv DEF PInv
<1>3. saving' \in [Savers -> {"idle", "written", "synced"}]
    BY DEF PInv, PersistTypeOK, Save, SaveBegin, SaveSync, SaveFail, SaveRename, SaveStep
<1>4. image' \in [Savers -> Snapshot] /\ \A p \in Savers : SnapshotOK(image'[p])
  <2>1. view.base \in Snapshot /\ SnapshotOK(view.base)
      BY Facts DEF PInv, AnyView, ViewOK
  <2>2. \/ image' = image
        \/ image' = [image EXCEPT ![q] = view.base]
        \/ image' = [image EXCEPT ![q] = emptySnapshot]
      BY DEF Save, SaveBegin, SaveSync, SaveFail, SaveRename
  <2> QED BY <2>1, <2>2, EmptyOK DEF PInv, PersistTypeOK
<1>5. \/ file' = file
      \/ file' = {[snap |-> image[q], bytes |-> "stable"]}
    BY DEF Save, SaveBegin, SaveSync, SaveFail, SaveRename
<1>6. image[q] \in Snapshot /\ SnapshotOK(image[q])
    BY DEF PInv, PersistTypeOK
<1>7. /\ file' \in SUBSET [snap: Snapshot, bytes: FileStates]
      /\ Cardinality(file') <= 1
      /\ \A f \in file' : f.bytes = "stable" /\ (f \in EarlierFiles \/ SnapshotOK(f.snap))
  <2>1. CASE file' = file
      BY <2>1 DEF PInv, PersistTypeOK
  <2>2. CASE file' = {[snap |-> image[q], bytes |-> "stable"]}
    <3>1. Cardinality(file') <= 1
        BY <2>2, AtMostOne
    <3> QED BY <1>6, <2>2, <3>1 DEF FileStates
  <2> QED BY <1>5, <2>1, <2>2
<1>8. loading' = loading
    BY <1>1
<1>9. PersistTypeOK'
    BY <1>2, <1>3, <1>4, <1>7, <1>8 DEF PInv, PersistTypeOK, IInv
<1> QED BY <1>2, <1>4, <1>7, <1>8, <1>9 DEF PInv

LEMMA LoadReadKeeps ==
    ASSUME PInv, NEW l \in Loaders, LoadRead(l)
    PROVE  PInv'
<1>1. PICK f \in file : ~FormatError(f) /\ loading' = [loading EXCEPT ![l] = {readSnapshotFile(f)}]
    BY DEF LoadRead
<1>2. f \in [snap: Snapshot, bytes: FileStates] /\ (f \in EarlierFiles \/ SnapshotOK(f.snap))
    BY DEF PInv, PersistTypeOK
<1>3. readSnapshotFile(f) \in Snapshot /\ SnapshotOK(readSnapshotFile(f))
    BY <1>1, <1>2, FileIsWritten, ReadOK
<1>4. /\ loading' \in [Loaders -> SUBSET Snapshot]
      /\ \A k \in Loaders : \A s \in loading'[k] : SnapshotOK(s)
    BY <1>1, <1>3 DEF PInv, PersistTypeOK
<1>5. UNCHANGED <<vars, file, saving, image>>
    BY DEF LoadRead
<1>6. IInv'
    BY <1>5, StepInv DEF PInv
<1>7. PersistTypeOK'
    BY <1>4, <1>5, <1>6 DEF PInv, PersistTypeOK, IInv
<1> QED BY <1>4, <1>5, <1>6, <1>7 DEF PInv

\* A load publishes only while no writer is in a call, and only within the cap.
LEMMA LoadPublishKeeps ==
    ASSUME PInv, NEW l \in Loaders, LoadPublish(l)
    PROVE  PInv'
<1>1. PICK s \in loading[l] :
         /\ view' = IF OverCap(s.rows) THEN view ELSE newView(s)
         /\ capBlocked' = (OverCap(s.rows) /\ capBlocked)
    BY DEF LoadPublish
<1>2. /\ mu = NoOne /\ loading' = [loading EXCEPT ![l] = {}]
      /\ UNCHANGED <<lastDictCompact, mu, pc, job, ret, held, reading, res, now, file, saving, image>>
    BY DEF LoadPublish, readerVars
<1>3. IInv
    BY DEF PInv
<1>4. s \in Snapshot /\ SnapshotOK(s)
    BY DEF PInv, PersistTypeOK
<1>5. newView(s) \in AnyView /\ ViewOK(newView(s)) /\ newView(s).base = s
    BY <1>4, NewViewOK DEF newView
<1>6. /\ view' \in AnyView /\ ViewOK(view') /\ capBlocked' \in BOOLEAN
      /\ MaxRows > 0 => ~(Cardinality(view'.base.rows) > MaxRows)
  <2>1. CASE OverCap(s.rows)
      BY <1>1, <1>3, <2>1, Facts
  <2>2. CASE ~OverCap(s.rows)
      BY <1>1, <1>5, <2>2 DEF OverCap
  <2> QED BY <2>1, <2>2
<1>7. \A w \in Writers : pc[w] = "idle" /\ job[w] = NoJob
    BY <1>2, <1>3, StartAssumption DEF IInv, JobsOK, LockOK
<1>8. TypeOK'
    BY <1>2, <1>3, <1>6 DEF IInv, TypeOK
<1>9. ViewsOK'
    BY <1>2, <1>3, <1>6 DEF IInv, ViewsOK
<1>10. JobsOK'
    BY <1>2, <1>3, <1>7 DEF IInv, JobsOK, LockOK
<1>11. CapRespected' /\ EachTupleOnce'
    BY <1>2, <1>3, <1>6 DEF IInv, CapRespected, EachTupleOnce
<1>12. IInv'
    BY <1>8, <1>9, <1>10, <1>11 DEF IInv
<1>13. /\ loading' \in [Loaders -> SUBSET Snapshot]
       /\ \A k \in Loaders : \A x \in loading'[k] : SnapshotOK(x)
    BY <1>2 DEF PInv, PersistTypeOK
<1>14. PersistTypeOK'
    BY <1>2, <1>8, <1>13 DEF PInv, PersistTypeOK
<1> QED BY <1>2, <1>12, <1>13, <1>14 DEF PInv

\* A crash leaves the file alone, since only synced bytes are ever renamed.
LEMMA CrashKeeps ==
    ASSUME PInv, Crash
    PROVE  PInv'
<1> USE DEF Crash
<1>1. /\ emptySnapshot \in Snapshot /\ SnapshotOK(emptySnapshot)
      /\ newView(emptySnapshot) \in AnyView /\ ViewOK(newView(emptySnapshot))
    BY EmptyOK, NewViewOK
<1>2. now \in StartTime .. MaxNow /\ now' = now
    BY DEF PInv, IInv, TypeOK
<1>3. TypeOK'
    BY <1>1, <1>2, NoJobOK, ZeroIsTime DEF TypeOK, Results, Nothing
<1>4. ViewsOK'
    BY <1>1, NoJobOK DEF ViewsOK
<1>5. JobsOK'
    BY NoJobOK, StartAssumption DEF JobsOK, LockOK
<1>6. CapRespected'
  <2>1. view'.base.rows = {}
      BY DEF newView, emptySnapshot, NewSnapshot
  <2> QED BY <2>1, FS_EmptySet, LimitAssumption DEF CapRespected
<1>7. EachTupleOnce'
    BY DEF EachTupleOnce, Nothing, UniqueTuples
<1>8. file' = file
  <2>1. \A f \in file : [f EXCEPT !.bytes = IF @ = "stable" THEN @ ELSE "torn"] = f
      BY DEF PInv, PersistTypeOK
  <2> QED BY <2>1
<1>9. PersistTypeOK'
    BY <1>1, <1>3, <1>8 DEF PInv, PersistTypeOK
<1>10. IInv'
    BY <1>3, <1>4, <1>5, <1>6, <1>7 DEF IInv
<1> QED BY <1>1, <1>8, <1>9, <1>10 DEF PInv

LEMMA PersistStepInv == PInv /\ [PersistNext]_persistVars => PInv'
<1> SUFFICES ASSUME PInv, [PersistNext]_persistVars PROVE PInv'
    OBVIOUS
<1>1. ASSUME [Next]_vars, UNCHANGED fileVars PROVE PInv'
  <2>1. IInv'
      BY <1>1, StepInv DEF PInv
  <2> QED BY <1>1, <2>1 DEF PInv, PersistTypeOK, IInv, fileVars
<1>2. CASE \E q \in Savers : Save(q)
    BY <1>2, SaveKeeps
<1>3. CASE \E l \in Loaders : LoadRead(l) \/ LoadPublish(l)
    BY <1>3, LoadReadKeeps, LoadPublishKeeps
<1>4. CASE Crash
    BY <1>4, CrashKeeps
<1> QED BY <1>1, <1>2, <1>3, <1>4 DEF PersistNext, persistVars

\* The store, its file, and every save and load stay right through every crash.
THEOREM PersistInvariance == PersistSpec => []PInv
BY PersistInitInv, PersistStepInv, PTL DEF PersistSpec

\* Type correctness of the file and of the saves and loads under way (persist.go).
THEOREM PersistTypeCorrect == PersistSpec => []PersistTypeOK
BY PersistInvariance, PTL DEF PInv

\* No snapshot SaveSnapshot leaves at the path is ever refused by
\* readSnapshotFile: bytes are synced before the rename, dictionaries hold
\* canonical integers, the position is the newest row's and the keys fit.
THEOREM SavedFileLoads == PersistSpec => []FileLoadable
<1>1. PInv => FileLoadable
    BY RightIsLoadable DEF PInv, PersistTypeOK, FileLoadable
<1> QED BY <1>1, PersistInvariance, PTL

\* Whatever LoadSnapshot reads and publishes is right, an earlier schema's file
\* included: unique tuples, covered dictionaries and rebuilt minima.
THEOREM LoadedViewsRight == PersistSpec => []LoadedViewsOK
<1>1. PInv => LoadedViewsOK
    BY DEF PInv, IInv, LoadedViewsOK, Range, PersistTypeOK
<1> QED BY <1>1, PersistInvariance, PTL

\* A load never brings the base over Config.MaxRows.
THEOREM LoadWithinCap == PersistSpec => []CapRespected
BY PersistInvariance, PTL DEF PInv, IInv

-----------------------------------------------------------------------------
(* Action properties.                                                         *)

\* A step is one of the store, or else ends no call of Compact with an error and
\* leaves the table as it is or unblocked.
LEMMA OtherSteps ==
    ASSUME PInv, [PersistNext]_persistVars, ~[Next]_vars
    PROVE  /\ view' = view \/ capBlocked' = FALSE
           /\ pc' = pc \/ ret' = "none"
<1>1. ASSUME NEW q \in Savers, Save(q) PROVE [Next]_vars
    BY <1>1 DEF Save, SaveBegin, SaveSync, SaveFail, SaveRename, SaveStep
<1>2. ASSUME NEW l \in Loaders, LoadRead(l) PROVE [Next]_vars
    BY <1>2 DEF LoadRead
<1>3. ASSUME NEW l \in Loaders, LoadPublish(l)
      PROVE  pc' = pc /\ (view' = view \/ capBlocked' = FALSE)
    BY <1>3 DEF LoadPublish
<1>4. ASSUME Crash PROVE capBlocked' = FALSE /\ ret' = "none"
    BY <1>4 DEF Crash
<1>5. ASSUME UNCHANGED persistVars PROVE [Next]_vars
    BY <1>5 DEF persistVars
<1> QED BY <1>1, <1>2, <1>3, <1>4, <1>5 DEF PersistNext

\* Nor does a load or a crash let a tuple in past a block that stays.
THEOREM BlockBindsLoads == PersistSpec => NoNewTupleWhileBlocked
<1>1. ASSUME PInv, [PersistNext]_persistVars, capBlocked, capBlocked'
      PROVE  Tuples(Logical(view')) \subseteq Tuples(Logical(view))
    BY <1>1, BlockedStep, OtherSteps DEF PInv
<1>2. PInv /\ [PersistNext]_persistVars =>
        [capBlocked /\ capBlocked' => Tuples(Logical(view')) \subseteq Tuples(Logical(view))]_vars
    BY <1>1
<1> QED BY <1>2, PersistInvariance, PTL DEF PersistSpec, NoNewTupleWhileBlocked

\* Also over views that were loaded, an overflow is one of the live rows.
THEOREM OverflowGenuineAfterLoads == PersistSpec => OverflowIsGenuine
<1>1. ASSUME PInv, [PersistNext]_persistVars, NEW w \in Writers,
             pc[w] = "compact", pc'[w] = "idle", ret' = "key_overflow"
      PROVE  LiveOverflow(w)
    BY <1>1, OverflowStep, OtherSteps DEF PInv
<1>2. PInv /\ [PersistNext]_persistVars =>
        [\A w \in Writers :
            pc[w] = "compact" /\ pc'[w] = "idle" /\ ret' = "key_overflow" => LiveOverflow(w)]_vars
    BY <1>1
<1> QED BY <1>2, PersistInvariance, PTL DEF PersistSpec, OverflowIsGenuine, LiveOverflow

-----------------------------------------------------------------------------
(* The background goroutine for every configuration: it drives the store and  *)
(* its file only in ways the store allows any goroutine, so whatever is       *)
(* proved of those holds beside it, and it leaves no call or save behind      *)
(* (compactor.go).                                                            *)

CInv == IInv /\ RunTypeOK /\ ViewsFinite
             /\ saving \in [Savers -> {"idle", "written", "synced"}]

-----------------------------------------------------------------------------
(* Run takes steps of the store and of its file only.                         *)

LEMMA RunStepIsStoreStep ==
    [CompactorNext]_compactorVars => [Next]_vars /\ [PersistNext]_persistVars
<1> SUFFICES ASSUME [CompactorNext]_compactorVars
             PROVE  [Next]_vars /\ [PersistNext]_persistVars
    OBVIOUS
<1>1. ASSUME CheckTicker \/ TidyTicker \/ SelectCheck \/ CountDelta \/ Decide \/ SelectTidy \/ SaveNot
      PROVE  UNCHANGED persistVars
    BY <1>1 DEF CheckTicker, TidyTicker, SelectCheck, CountDelta, Decide, SelectTidy, SaveNot
<1>2. ASSUME StartCompact \/ MergeStep
      PROVE  Next /\ UNCHANGED fileVars
    BY <1>2, RunnerAssumption DEF StartCompact, MergeStep, Next, WriterCall
<1>3. ASSUME SaveAfter
      PROVE  Save(Runner) /\ UNCHANGED vars
    BY <1>3 DEF SaveAfter, Save, SaveBegin, SaveSync, SaveFail, SaveRename, SaveStep
<1>4. ASSUME Host
      PROVE  Next /\ UNCHANGED fileVars
    BY <1>4 DEF Host, Next
<1>5. ASSUME UNCHANGED compactorVars
      PROVE  UNCHANGED persistVars
    BY <1>5 DEF compactorVars
<1> QED BY <1>1, <1>2, <1>3, <1>4, <1>5, RunnerAssumption
       DEF CompactorNext, Saving, PersistNext, persistVars

-----------------------------------------------------------------------------
(* Run is in a store call or a save exactly where it says.                    *)

\* Other goroutines do not move Run.
LEMMA HostLeavesRunner ==
    ASSUME IInv, Host
    PROVE  pc'[Runner] = pc[Runner]
<1>1. ASSUME NEW w \in Writers \ {Runner}, WriterCall(w) PROVE pc'[Runner] = pc[Runner]
    BY <1>1, RunnerAssumption
       DEF WriterCall, ApplyBegin, CompactBegin, ReplaceBegin, Lock, IInv, TypeOK
<1>2. ASSUME NEW w \in Writers \ {Runner}, WriterStep(w) PROVE pc'[Runner] = pc[Runner]
  <2>1. pc' = pc \/ pc' = [pc EXCEPT ![w] = "idle"]
      BY <1>2 DEF WriterStep, ApplyNext, ApplyFail, ApplyEnd, CompactRetry, CompactOverflow,
                  CompactRefuse, CompactEnd, ReplaceFail, ReplaceEnd, Fail, Refuse, Publish, Return
  <2> QED BY <2>1, RunnerAssumption DEF IInv, TypeOK
<1>3. ASSUME NEW p \in Readers, QueryLoad(p) \/ QueryScan(p) PROVE pc' = pc
    BY <1>3 DEF QueryLoad, QueryScan, writerVars
<1>4. ASSUME Tick PROVE pc' = pc
    BY <1>4 DEF Tick, writerVars
<1> QED BY <1>1, <1>2, <1>3, <1>4 DEF Host

LEMMA RunStep ==
    ASSUME CInv, [CompactorNext]_compactorVars
    PROVE  RunTypeOK'
<1> USE DEF CInv, RunTypeOK
<1>1. Runner \in Writers /\ Runner \in Savers
    BY RunnerAssumption
<1>2. CASE CheckTicker \/ TidyTicker
    BY <1>2 DEF CheckTicker, TidyTicker, persistVars, vars, fileVars
<1>3. CASE SelectCheck \/ SelectTidy \/ Decide
  <2>1. UNCHANGED <<pc, saving>> /\ deltaRows' \in Nat
      BY <1>3 DEF SelectCheck, SelectTidy, Decide, persistVars, vars, fileVars
  <2>2. checkTick' \in BOOLEAN /\ tidyTick' \in BOOLEAN
      BY <1>3, Zenon DEF SelectCheck, SelectTidy, Decide
  <2>3. at # "merge" /\ at # "save" /\ at' \in {"select", "count", "compact"}
      BY <1>3 DEF SelectCheck, SelectTidy, Decide
  <2> QED BY <2>1, <2>2, <2>3
<1>4. CASE CountDelta
  <2>1. Cardinality(view.delta.rows) \in Nat
      BY FS_CardinalityType DEF ViewsFinite, Finite
  <2> QED BY <1>4, <2>1 DEF CountDelta, persistVars, vars, fileVars
<1>5. CASE StartCompact
    BY <1>1, <1>5 DEF StartCompact, CompactBegin, Lock, Goto, fileVars, IInv, TypeOK
<1>6. CASE MergeStep
    BY <1>6 DEF MergeStep, Goto, fileVars
<1>7. CASE SaveAfter
    BY <1>1, <1>7 DEF SaveAfter, SaveBegin, SaveSync, SaveFail, SaveRename, SaveStep, Goto, vars
<1>8. CASE SaveNot
    BY <1>8 DEF SaveNot, Goto, persistVars, vars, fileVars
<1>9. CASE Host
    BY <1>9, HostLeavesRunner DEF Host, fileVars, runVars
<1>10. CASE UNCHANGED compactorVars
    BY <1>10 DEF compactorVars, persistVars, vars, fileVars, runVars
<1> QED BY <1>2, <1>3, <1>4, <1>5, <1>6, <1>7, <1>8, <1>9, <1>10 DEF CompactorNext, Saving

-----------------------------------------------------------------------------
\* Beside the background goroutine the store and its file behave as without it:
\* Run compacts and saves through the same operations as any other goroutine, so
\* every theorem about PersistSpec holds of it.
THEOREM CompactorIsStore == CompactorSpec => PersistSpec
BY RunStepIsStoreStep, PTL DEF CompactorSpec, CompactorInit, PersistSpec

\* Run holds the mutex exactly while it merges and a temporary file only while it
\* saves: no failed compaction and no failed save leaves either behind.
THEOREM RunTypeCorrect == CompactorSpec => []RunTypeOK
<1>1. CompactorInit => CInv
  <2> SUFFICES ASSUME CompactorInit PROVE CInv
      OBVIOUS
  <2>1. IInv /\ ViewsFinite
      BY InitInv, InitFinite DEF CompactorInit, PersistInit
  <2>2. RunTypeOK /\ saving \in [Savers -> {"idle", "written", "synced"}]
      BY RunnerAssumption DEF CompactorInit, PersistInit, Init, RunTypeOK
  <2> QED BY <2>1, <2>2 DEF CInv
<1>2. CInv /\ PInv' /\ [CompactorNext]_compactorVars => CInv'
  <2> SUFFICES ASSUME CInv, PInv', [CompactorNext]_compactorVars PROVE CInv'
      OBVIOUS
  <2>1. RunTypeOK'
      BY RunStep
  <2>2. [Next]_vars
      BY RunStepIsStoreStep
  <2>3. ViewsFinite'
      BY <2>2, StepFinite DEF CInv
  <2> QED BY <2>1, <2>3 DEF CInv, PInv, PersistTypeOK
<1>3. CInv => RunTypeOK
    BY DEF CInv
<1>4. CompactorSpec => []PInv
    BY CompactorIsStore, PersistInvariance, PTL
<1> QED BY <1>1, <1>2, <1>3, <1>4, PTL DEF CompactorSpec
=============================================================================
