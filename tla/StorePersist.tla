----------------------------- MODULE StorePersist -----------------------------
(* The store with its snapshot file: goroutines that save the current base,   *)
(* goroutines that load the file over the view, and crashes (persist.go).     *)
(* Saving takes no lock and runs beside everything else; loading reads the    *)
(* file before it takes the mutex.  A crash loses all memory and may tear a   *)
(* file whose bytes were not synced.                                          *)
(*                                                                            *)
(* The encoding is abstracted to the image it stores.  What reading it back   *)
(* changes is kept: entries of integer dimensions are parsed again, the       *)
(* minima are recomputed, and every validation that can refuse the image.     *)
EXTENDS Store

CONSTANTS Savers,   \* goroutines that call SaveSnapshot
          Loaders,  \* goroutines that call LoadSnapshot
          EarlierFiles \* files an earlier process may have left, written when the
                       \* row cap was higher or a dimension was not yet DimInt

\* What a crash makes of a file's bytes: "cached" ones may be lost.
FileStates == {"cached", "stable", "torn"}

\* What an earlier process saved was right by the identity of spellings.
ASSUME EarlierAssumption ==
    \A f \in EarlierFiles :
        /\ f \in [snap: Snapshot, bytes: {"stable"}]
        /\ RowsOK(f.snap.rows)
        /\ \A x \in f.snap.rows, d \in Dims : x.dims[d] \in f.snap.dicts[d]
        /\ f.snap.maxUpdated = MaxUpdated(f.snap.rows)

VARIABLES file,     \* {} or {the snapshot file at its path}
          saving,   \* per saver: how far its temporary file is
          image,    \* per saver: the base it is writing
          loading   \* per loader: {} or {the snapshot it read, not yet published}

fileVars == <<file, saving, image, loading>>
persistVars == <<vars, fileVars>>

PersistInit ==
    /\ Init
    /\ file \in {{}} \cup {{f} : f \in EarlierFiles}
    /\ saving = [q \in Savers |-> "idle"]
    /\ image = [q \in Savers |-> emptySnapshot]
    /\ loading = [l \in Loaders |-> {}]

-----------------------------------------------------------------------------
(* SaveSnapshot: temporary file, flush and CRC, fsync, rename.                *)

SaveStep(q, from, to) ==
    /\ saving[q] = from
    /\ saving' = [saving EXCEPT ![q] = to]
    /\ UNCHANGED <<vars, loading>>

SaveBegin(q) ==
    /\ SaveStep(q, "idle", "written")
    /\ image' = [image EXCEPT ![q] = view.base]
    /\ UNCHANGED file

SaveSync(q) == SaveStep(q, "written", "synced") /\ UNCHANGED <<file, image>>

\* Any error removes the temporary file and leaves the old snapshot in place.
SaveFail(q) ==
    /\ saving[q] # "idle"
    /\ SaveStep(q, saving[q], "idle")
    /\ image' = [image EXCEPT ![q] = emptySnapshot]
    /\ UNCHANGED file

\* Mutant of SaveRename: the temporary file is renamed before its bytes are synced.
SaveRenameUnsynced(q) ==
    /\ SaveStep(q, "written", "idle")
    /\ file' = {[snap |-> image[q], bytes |-> "cached"]}
    /\ image' = [image EXCEPT ![q] = emptySnapshot]

SaveRename(q) ==
    /\ SaveStep(q, "synced", "idle")
    /\ file' = {[snap |-> image[q], bytes |-> "stable"]}
    /\ image' = [image EXCEPT ![q] = emptySnapshot]

-----------------------------------------------------------------------------
(* LoadSnapshot.                                                              *)

\* A dictionary entry as readSnapshotFile interns it.
Reparse(d, s) == IF d \in IntDims THEN ParseInt[s] ELSE s

\* The snapshot read from f; the file holds no minima.
readSnapshotFile(f) ==
    LET parsed(t) == [d \in Dims |-> Reparse(d, t[d])]
        rows == {[x EXCEPT !.dims = parsed(x.dims)] : x \in f.snap.rows}
    IN  [rows |-> rows,
         dicts |-> [d \in Dims |-> {Reparse(d, s) : s \in f.snap.dicts[d]}],
         maxUpdated |-> f.snap.maxUpdated,
         minUpdated |-> MinUpdated(rows), minExpire |-> MinExpire(rows)]

\* Mutant: an entry that is no integer goes unnoticed.
FormatErrorNoParse(f) ==
    \/ f.bytes = "torn"
    \/ \E d \in Dims : \E s, t \in f.snap.dicts[d] : s # t /\ Reparse(d, s) = Reparse(d, t)
    \/ f.snap.rows # {} /\ f.snap.maxUpdated # MaxUpdated(f.snap.rows)
    \/ KeyOverflow(readSnapshotFile(f).dicts)

\* Mutant: entries that collapse into one integer are not noticed.
FormatErrorNoCount(f) ==
    \/ f.bytes = "torn"
    \/ \E d \in Dims : \E s \in f.snap.dicts[d] : Reparse(d, s) = NonInt
    \/ f.snap.rows # {} /\ f.snap.maxUpdated # MaxUpdated(f.snap.rows)
    \/ KeyOverflow(readSnapshotFile(f).dicts)

\* errSnapshotFormat: bytes that fail the CRC, an entry that is no integer, two
\* entries that collapse, a stored position that is not the newest row's, keys
\* that do not fit.
FormatError(f) ==
    \/ f.bytes = "torn"
    \/ \E d \in Dims : \E s \in f.snap.dicts[d] :
         \/ Reparse(d, s) = NonInt
         \/ \E t \in f.snap.dicts[d] \ {s} : Reparse(d, s) = Reparse(d, t)
    \/ f.snap.rows # {} /\ f.snap.maxUpdated # MaxUpdated(f.snap.rows)
    \/ KeyOverflow(readSnapshotFile(f).dicts)

\* errSnapshotStale: the newest row is past the TTL.
StaleFile(f, cutoff) == cutoff > 0 /\ f.snap.maxUpdated < cutoff

\* The file is read and validated, with the TTL cutoff of now, without a lock.
LoadRead(l) ==
    /\ loading[l] = {}
    /\ \E f \in file :
         /\ ~FormatError(f) /\ ~StaleFile(f, ttlCutoff(now))
         /\ loading' = [loading EXCEPT ![l] = {readSnapshotFile(f)}]
    /\ UNCHANGED <<vars, file, saving, image>>

\* Mutant: a load does not check the cap.
LoadPublishAny(l) ==
    /\ mu = NoOne
    /\ \E snap \in loading[l] : view' = newView(snap) /\ capBlocked' = FALSE
    /\ loading' = [loading EXCEPT ![l] = {}]
    /\ UNCHANGED <<lastDictCompact, mu, pc, job, ret, readerVars, now, file, saving, image>>

\* Then it replaces the view, discarding any delta, unless it exceeds the cap.
LoadPublish(l) ==
    /\ mu = NoOne
    /\ \E snap \in loading[l] :
         /\ view' = IF OverCap(snap.rows) THEN view ELSE newView(snap)
         /\ capBlocked' = (OverCap(snap.rows) /\ capBlocked)
    /\ loading' = [loading EXCEPT ![l] = {}]
    /\ UNCHANGED <<lastDictCompact, mu, pc, job, ret, readerVars, now, file, saving, image>>

-----------------------------------------------------------------------------
\* The process dies and a new one starts with New; only the file is left.
Crash ==
    /\ view' = newView(emptySnapshot)
    /\ capBlocked' = FALSE
    /\ lastDictCompact' = 0
    /\ mu' = NoOne
    /\ pc' = [w \in Writers |-> "idle"]
    /\ job' = [w \in Writers |-> NoJob]
    /\ ret' = "none"
    /\ held' = [p \in Readers |-> newView(emptySnapshot)]
    /\ reading' = [p \in Readers |-> FALSE]
    /\ res' = [p \in Readers |-> Nothing]
    /\ saving' = [q \in Savers |-> "idle"]
    /\ image' = [q \in Savers |-> emptySnapshot]
    /\ loading' = [l \in Loaders |-> {}]
    /\ file' = {[f EXCEPT !.bytes = IF @ = "stable" THEN @ ELSE "torn"] : f \in file}
    /\ UNCHANGED now

Save(q) == SaveBegin(q) \/ SaveSync(q) \/ SaveFail(q) \/ SaveRename(q)

PersistNext ==
    \/ Next /\ UNCHANGED fileVars
    \/ \E q \in Savers : Save(q)
    \/ \E l \in Loaders : LoadRead(l) \/ LoadPublish(l)
    \/ Crash

PersistSpec == PersistInit /\ [][PersistNext]_persistVars

-----------------------------------------------------------------------------
(* Properties.                                                                *)

\* Type correctness of the snapshot file and of saves and loads under way.
PersistTypeOK ==
    /\ TypeOK
    /\ file \in SUBSET [snap: Snapshot, bytes: FileStates]
    /\ Cardinality(file) <= 1
    /\ saving \in [Savers -> {"idle", "written", "synced"}]
    /\ image \in [Savers -> Snapshot]
    /\ loading \in [Loaders -> SUBSET Snapshot]

\* Whatever was saved, and wherever a crash struck, a file written under this
\* schema passes every validation of readSnapshotFile: the fallback to a full
\* pull is only ever needed for a file that is missing or past the TTL.
FileLoadable == \A f \in file \ EarlierFiles : ~FormatError(f)

\* Every view and snapshot a goroutine can see is right, also after a load: the
\* minima rebuilt from the file, which stores none, describe its rows, and a file
\* from before a dimension was DimInt cannot bring in two rows of one tuple nor a
\* value that is no canonical integer: it is refused, or each of its spellings is
\* the only one of its integer and is canonicalised.
LoadedViewsOK ==
    ViewsOK /\ \A s \in UNION Range(loading) : SnapshotOK(s)

-----------------------------------------------------------------------------
(* Statements of the documentation the code does not keep.                    *)

\* schema.go, DimInt: "snapshots holding non-canonical values for an integer dim
\* are refused at load (full-pull fallback)".  So whatever a load has read, the
\* entries of integer dimensions were canonical in the file.
NonCanonicalRefused ==
    [][\A l \in Loaders, f \in file :
         loading[l] = {} /\ loading'[l] # {} =>
            \A d \in IntDims : \A s \in f.snap.dicts[d] : Reparse(d, s) = s]_persistVars

\* persist.go, SaveSnapshot: "The delta overlay is not persisted: its rows are
\* newer than the stored sync position and will be re-fetched on restart."  So
\* when a save takes its image no delta row is older than the image's position.
DeltaNewerThanPosition ==
    [][\A q \in Savers :
         saving[q] = "idle" /\ saving'[q] = "written" =>
            \A x \in view.delta.rows : x.upd >= image'[q].maxUpdated]_persistVars
=============================================================================
