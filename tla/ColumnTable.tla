----------------------------- MODULE ColumnTable -----------------------------
(* The published column view and its dictionaries as objects on the heap:     *)
(* views share dictionaries by reference, a batch clones the extras it adds   *)
(* to, a merge shares the base dictionaries it does not extend (view.go,      *)
(* snapshot.go, dict.go).                                                     *)
(*                                                                            *)
(* A call is two steps, building a view and publishing it: the mutex of Store *)
(* serialises writers, and meanwhile readers use the published view.  Writers *)
(* write what they allocated and, were a clone forgotten, what the published  *)
(* view shares; no later call can reach an older view but through that one.   *)
EXTENDS Columns

CONSTANTS Clocks, MaxApply, MaxReplace,  \* as in ViewTable
          MaxCalls  \* bound on the calls of a behaviour

\* The calls are made long after 1970: no cutoff is ever negative.
ASSUME ClockAssumption ==
    /\ Clocks \subseteq Time /\ \A t \in Clocks : TTL < t
    /\ MaxApply \in Nat /\ MaxReplace \in Nat /\ MaxCalls \in Nat

VARIABLES heap,  \* dimension -> address -> dictionary
          view,  \* the published view, dictionaries by address
          built, \* the view of a call that is not published yet, a set of at most one
          calls  \* calls so far, only to bound them

vars == <<heap, view, built, calls>>

\* The collector, when a call has failed.
Collect(h) == [d \in Dims |-> [h[d] EXCEPT ![NewBaseRef] = <<>>, ![NewExtrasRef] = <<>>]]

-----------------------------------------------------------------------------
\* A rejected record fails the batch.
Apply(recs, cutoff, blocked) ==
    LET c == FoldLeft(LAMBDA e, r : UpsertRecord(e, r, cutoff, blocked), Started(heap, view), recs)
    IN  /\ built = {}
        /\ heap' = IF c.failed THEN Collect(c.heap) ELSE c.heap
        /\ built' = IF c.failed THEN {} ELSE {c.view}
        /\ UNCHANGED view

-----------------------------------------------------------------------------
(* Compact and ReplaceAll.                                                    *)

\* A view of snap with empty extras.  The dimensions of shared keep the
\* dictionary of the published base, the others get one of their own.
Build(snap, shared) ==
    /\ heap' = [d \in Dims |->
                   [heap[d] EXCEPT ![NewBaseRef] = IF d \in shared THEN @ ELSE snap.dicts[d],
                                   ![NewExtrasRef] = <<>>]]
    /\ built' = {newColumnView([snap EXCEPT !.dicts = [d \in Dims |-> IF d \in shared THEN BaseRef
                                                                       ELSE NewBaseRef]],
                               Everywhere(NewExtrasRef))}
    /\ UNCHANGED view

\* Base dictionaries with no extras to fold in are shared, unless renumbered.
Shared(renumber) == {d \in Dims : ~renumber /\ heap[d][ExtrasRef] = <<>>}

Compact(cutoff, t, renumber) ==
    LET v == Deref(heap, view)
    IN  /\ built = {}
        /\ ~MergeOverflows(v, cutoff, t, renumber)
        /\ \E snap \in zipMerge(v, cutoff, t, renumber) : Build(snap, Shared(renumber))

Replace(recs, cutoff, t) ==
    LET kept == Pick(recs, {i \in DOMAIN recs : ~Aged(recs[i], cutoff)})
    IN  /\ built = {}
        /\ \A i \in DOMAIN recs : ~Rejected(recs[i], cutoff)
        /\ ~BuildOverflows(kept)
        /\ \E snap \in buildColumns(kept, t) : Build(snap, {})

-----------------------------------------------------------------------------
\* view.Store, and the collector, which moves what is left to the first addresses.
Publish ==
    \E v \in built :
        /\ heap' = [d \in Dims |-> <<heap[d][v.base.dicts[d]], heap[d][v.extras[d]], <<>>, <<>>>>]
        /\ view' = [v EXCEPT !.base.dicts = Everywhere(BaseRef), !.extras = Everywhere(ExtrasRef)]
        /\ built' = {}
        /\ UNCHANGED calls

Table == INSTANCE ViewTable WITH table <- AbsView(Deref(heap, view))

Init ==
    /\ heap = [d \in Dims |-> <<<<>>, <<>>, <<>>, <<>>>>]
    /\ view = newColumnView([emptyColumns EXCEPT !.dicts = Everywhere(BaseRef)], Everywhere(ExtrasRef))
    /\ built = {}
    /\ calls = 0

Call ==
    /\ calls < MaxCalls /\ calls' = calls + 1
    /\ \E cutoff \in Table!Cutoffs :
         \/ \E recs \in Table!Batches, blocked \in BOOLEAN : Apply(recs, cutoff, blocked)
         \/ \E t \in Clocks, renumber \in BOOLEAN : Compact(cutoff, t, renumber)
         \/ \E recs \in Table!Dumps, t \in Clocks : Replace(recs, cutoff, t)

Next == Call \/ Publish

Spec == Init /\ [][Next]_vars

-----------------------------------------------------------------------------
(* Properties.                                                                *)

\* The columns stay what binary search, the zip and the sweep rely on, under
\* id-stable and renumbering merges, growing key widths and unstable sorts: one id
\* per value, keys ascending and each its row's, no id wider than its field of the
\* key, the search for a row finds it, the delta shadows the base rows it replaces
\* and no others, and no row expires that minExpire and hasExpiry do not announce.
ColumnsOK == ReadsRight(Deref(heap, view))

\* A published view never changes while the next is built, whatever a
\* batch or a merge does with the dictionaries it shares with it, also a batch
\* that fails on the way.
PublishedFrozen ==
    [][built = {} => Deref(heap', view) = Deref(heap, view)]_vars

\* Ids, packed keys, sort order and sharing are invisible: each call makes of the
\* columns what the operation of View makes of the rows and values they encode.
ImplementsView == Table!Spec
=============================================================================
