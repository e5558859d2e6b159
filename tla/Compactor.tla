------------------------------ MODULE Compactor ------------------------------
(* The background goroutine that drives Compact and SaveSnapshot               *)
(* (compactor.go), running beside the host's writers and the readers.          *)
(*                                                                            *)
(* Run selects between two tickers; each ticker's channel holds one tick.  The *)
(* check tick compacts when the delta is large, the compact tick when          *)
(* NeedsCompaction holds.  Rows, DeltaRows, NeedsCompaction and capBlocked are *)
(* read without the lock, each at its own moment.                              *)
EXTENDS StorePersist

CONSTANTS Runner,       \* the goroutine of Run, a writer and a saver
          RatioNum, RatioDen, \* DeltaRatio
          MaxDeltaRows, \* CompactorConfig.MaxDeltaRows, 0 = disabled
          HasPath       \* SnapshotPath is set

ASSUME RunnerAssumption ==
    /\ Runner \in Writers /\ Runner \in Savers
    /\ RatioNum \in Nat /\ RatioDen \in Nat \ {0}
    /\ MaxDeltaRows \in Nat /\ HasPath \in BOOLEAN

VARIABLES at,         \* where Run is
          checkTick,  \* the check ticker's channel holds a tick
          tidyTick,   \* the compact ticker's channel holds a tick
          deltaRows   \* DeltaRows as the check tick read it

runVars == <<at, checkTick, tidyTick, deltaRows>>
compactorVars == <<persistVars, runVars>>

CompactorInit ==
    /\ PersistInit
    /\ at = "select"
    /\ checkTick = FALSE /\ tidyTick = FALSE
    /\ deltaRows = 0

Goto(place) == at' = place /\ UNCHANGED <<checkTick, tidyTick, deltaRows>>

-----------------------------------------------------------------------------
CheckTicker == /\ ~checkTick /\ checkTick' = TRUE
               /\ UNCHANGED <<persistVars, at, tidyTick, deltaRows>>

TidyTicker == /\ ~tidyTick /\ tidyTick' = TRUE
              /\ UNCHANGED <<persistVars, at, checkTick, deltaRows>>

\* The check tick does nothing while the row cap blocks.
SelectCheck ==
    /\ at = "select" /\ checkTick
    /\ checkTick' = FALSE
    /\ at' = IF capBlocked THEN "select" ELSE "count"
    /\ UNCHANGED <<persistVars, tidyTick, deltaRows>>

CountDelta ==
    /\ at = "count"
    /\ deltaRows' = Cardinality(view.delta.rows)
    /\ at' = "decide"
    /\ UNCHANGED <<persistVars, checkTick, tidyTick>>

\* ratioHit or capHit, against the base rows of a view loaded later.
DeltaHigh ==
    LET rows == Cardinality(view.base.rows)
        base == IF rows > 1 THEN rows ELSE 1
    IN  \/ deltaRows > 0 /\ deltaRows * RatioDen >= RatioNum * base
        \/ MaxDeltaRows > 0 /\ deltaRows >= MaxDeltaRows

Decide ==
    /\ at = "decide"
    /\ at' = IF DeltaHigh THEN "compact" ELSE "select"
    /\ deltaRows' = 0
    /\ UNCHANGED <<persistVars, checkTick, tidyTick>>

\* Mutant: the periodic tidy, too, is skipped while the row cap blocks.
SelectTidyUnblocked ==
    /\ at = "select" /\ tidyTick
    /\ tidyTick' = FALSE
    /\ at' = IF NeedsCompaction(view, now) /\ ~capBlocked THEN "compact" ELSE "select"
    /\ UNCHANGED <<persistVars, checkTick, deltaRows>>

\* The periodic tidy attempts even while the row cap blocks.
SelectTidy ==
    /\ at = "select" /\ tidyTick
    /\ tidyTick' = FALSE
    /\ at' = IF NeedsCompaction(view, now) THEN "compact" ELSE "select"
    /\ UNCHANGED <<persistVars, checkTick, deltaRows>>

-----------------------------------------------------------------------------
(* compactAndSave.                                                            *)

StartCompact ==
    /\ at = "compact" /\ CompactBegin(Runner)
    /\ UNCHANGED fileVars /\ Goto("merge")

\* The merge, retried or not; a failed compaction is not followed by a save.
MergeStep ==
    /\ at = "merge" /\ WriterStep(Runner)
    /\ Goto(IF pc'[Runner] = "compact" THEN "merge"
            ELSE IF ret' = "ok" /\ HasPath THEN "save" ELSE "select")
    /\ UNCHANGED fileVars

\* Mutant: the save goes on in the background.
SaveDetached ==
    \/ at = "save" /\ SaveBegin(Runner) /\ Goto("select")
    \/ SaveSync(Runner) /\ UNCHANGED runVars
    \/ SaveRename(Runner) /\ UNCHANGED runVars

SaveAfter ==
    /\ at = "save"
    /\ \/ SaveBegin(Runner) /\ Goto("save")
       \/ SaveSync(Runner) /\ Goto("save")
       \/ SaveFail(Runner) /\ Goto("select")
       \/ SaveRename(Runner) /\ Goto("select")

\* CreateTemp fails: there is nothing to clean up.
SaveNot == /\ at = "save" /\ saving[Runner] = "idle"
           /\ UNCHANGED persistVars /\ Goto("select")

-----------------------------------------------------------------------------
Saving == SaveAfter \/ SaveNot

\* The host's writers and the readers go on beside Run.
Host ==
    /\ \/ \E w \in Writers \ {Runner} : WriterCall(w) \/ WriterStep(w)
       \/ \E p \in Readers : QueryLoad(p) \/ QueryScan(p)
       \/ Tick
    /\ UNCHANGED <<fileVars, runVars>>

CompactorNext ==
    \/ CheckTicker \/ TidyTicker
    \/ SelectCheck \/ CountDelta \/ Decide \/ SelectTidy
    \/ StartCompact \/ MergeStep \/ Saving
    \/ Host

CompactorSpec == CompactorInit /\ [][CompactorNext]_compactorVars

\* Tickers keep ticking and a goroutine that can run does.  select picks among
\* ready channels at random, so the tidy tick is not passed over for ever, and
\* sync.Mutex hands over to a waiter in starvation mode, so Run gets the lock
\* although others take it again and again: both are strong fairness.
CompactorFairSpec ==
    /\ CompactorSpec
    /\ WF_compactorVars(TidyTicker)
    /\ SF_compactorVars(SelectTidy)
    /\ WF_compactorVars(SelectCheck) /\ WF_compactorVars(CountDelta) /\ WF_compactorVars(Decide)
    /\ SF_compactorVars(StartCompact)
    /\ WF_compactorVars(MergeStep) /\ WF_compactorVars(Saving)
    /\ \A w \in Writers \ {Runner} : WF_compactorVars(WriterStep(w) /\ UNCHANGED <<fileVars, runVars>>)

-----------------------------------------------------------------------------
(* Properties.                                                                *)

\* Type correctness of the compactor goroutine; it holds a store call or a save
\* exactly where Run is inside one.
RunTypeOK ==
    /\ at \in {"select", "count", "decide", "compact", "merge", "save"}
    /\ checkTick \in BOOLEAN /\ tidyTick \in BOOLEAN
    /\ deltaRows \in Nat
    /\ (pc[Runner] = "compact") <=> (at = "merge")
    /\ saving[Runner] # "idle" => at = "save"

\* The rows a merge at this moment would leave fit the cap.
Fits == ~OverCap(Survivors(view, ttlCutoff(now), now))

\* README, MaxRows: "ingestion recovers automatically once TTL shrinkage or
\* upstream deletes bring a compaction back under the cap".  So the store does not
\* stay blocked for ever while a compaction would fit.
IngestionRecovers == []<>(~capBlocked \/ ~Fits)

\* Rows that expired or aged out leave the base although nothing is ingested any
\* more and nobody queries them: unless merging is refused for ever, there is
\* always a later moment when the base holds none.
ExpiredRowsReclaimed ==
    []<>(capBlocked \/ Survive(view.base.rows, ttlCutoff(now), now) = view.base.rows)
=============================================================================
