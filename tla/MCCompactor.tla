------------------------------ MODULE MCCompactor ------------------------------
(* Small instances of Compactor for TLC: one string dimension, two tuples.    *)
EXTENDS Compactor, TLC

MCDims == {"k"}
MCSpellings == {"a", "b"}
MCParseInt == [s \in MCSpellings |-> "not an integer"]
MCZeroTime == -9

Rec(k, upd, exp) ==
    [dims |-> [d \in MCDims |-> k], arity |-> TRUE, upd |-> upd, exp |-> exp, met |-> "m1"]

\* One tuple that stays, one that ages out and expires.
RunInputs == {Rec("a", 5, MCZeroTime), Rec("b", 3, MCZeroTime), Rec("b", 4, 6)}
StayInputs == {Rec("a", 5, MCZeroTime), Rec("b", 5, MCZeroTime)}
=============================================================================
