------------------------------- MODULE MCStore -------------------------------
(* Small instances of Store for TLC.                                          *)
EXTENDS Store, TLC

\* A string dimension "k" that forms the index, an integer dimension "n".
MCDims == {"k", "n"}
MCIndexDims == {"k"}
MCIntDims == {"n"}
MCSpellings == {"a", "b", "c", "1", "01", "x"}
MCNonInt == "not an integer"
MCParseInt == [s \in MCSpellings |-> IF s \in {"1", "01"} THEN "1" ELSE MCNonInt]

MCZeroTime == -9

Rec(k, n, upd, exp, met) ==
    [dims |-> [d \in MCDims |-> IF d = "k" THEN k ELSE n], arity |-> TRUE,
     upd |-> upd, exp |-> exp, met |-> met]

\* The clock runs over 5 .. 6 with a TTL of 2: UpdatedAt 3 ages out at 6 and 2 is
\* too old from the start; the expiry 6 is ahead at first and passed after a tick.
MixedInputs ==
    {Rec("a", "1", u, e, "m1") : u \in {3, 5}, e \in {MCZeroTime, 6}}
    \cup {Rec("a", "01", 4, 1, "m1"),
          Rec("a", "1", 5, MCZeroTime, "m2"),
          Rec("b", "01", 3, MCZeroTime, "m1"),
          Rec("b", "x", 2, MCZeroTime, "m1"),
          Rec("b", "x", 5, MCZeroTime, "m1"),
          [Rec("b", "1", 5, MCZeroTime, "m1") EXCEPT !.arity = FALSE]}

\* One tuple that is updated and expires, one that is only there or not.
PairInputs == {Rec("a", "1", 3, MCZeroTime, "m1"), Rec("a", "1", 5, 6, "m1"),
               Rec("a", "1", 4, MCZeroTime, "m1"), Rec("b", "1", 5, MCZeroTime, "m1")}

\* Three index values against a key of one bit.
WideInputs == {Rec(k, "1", u, e, "m1") : k \in {"a", "b", "c"}, u \in {3, 5}, e \in {MCZeroTime}}
              \cup {Rec("c", "1", 5, 6, "m1")}

\* An UpdatedAt left at Go's zero time, beside an ordinary one.
UnsetInputs == {Rec("a", "1", u, MCZeroTime, "m1") : u \in {MCZeroTime, 5}}
=============================================================================
