------------------------------ MODULE MCPersist ------------------------------
(* Small instances of StorePersist for TLC: Store's, with savers and loaders. *)
EXTENDS StorePersist, TLC

MCDims == {"k", "n"}
MCIndexDims == {"k"}
MCIntDims == {"n"}
MCSpellings == {"a", "b", "1", "01", "x"}
MCNonInt == "not an integer"
MCParseInt == [s \in MCSpellings |-> IF s \in {"1", "01"} THEN "1" ELSE MCNonInt]
MCZeroTime == -9

Rec(k, n, upd, exp) ==
    [dims |-> [d \in MCDims |-> IF d = "k" THEN k ELSE n], arity |-> TRUE,
     upd |-> upd, exp |-> exp, met |-> "m1"]

\* One integer in two spellings, a row that expires, one that ages out.
FileInputs == {Rec("a", "01", 5, MCZeroTime), Rec("a", "1", 4, 6), Rec("b", "1", 3, MCZeroTime)}

\* Files of an earlier configuration: more rows than the cap, one integer in two
\* spellings, a spelling that is no integer, a non-canonical spelling alone.
Earlier(inputs) ==
    LET rows == {[dims |-> r.dims, upd |-> r.upd, exp |-> expireMilli(r.exp), met |-> r.met] : r \in inputs}
    IN  [snap |-> NewSnapshot(rows, ValuesOf(rows)), bytes |-> "stable"]
MCEarlierFiles ==
    {Earlier({Rec("a", "1", 4, MCZeroTime), Rec("b", "1", 5, 6)}),
     Earlier({Rec("a", "1", 4, MCZeroTime), Rec("a", "01", 5, MCZeroTime)}),
     Earlier({Rec("a", "x", 5, MCZeroTime)}),
     Earlier({Rec("a", "01", 5, MCZeroTime)})}

\* The last one by itself.
MCLoneSpelling == {Earlier({Rec("a", "01", 5, MCZeroTime)})}
==============================================================================
