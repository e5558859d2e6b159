------------------------------ MODULE MCColumns ------------------------------
(* A small instance of ColumnTable for TLC.                                   *)
EXTENDS ColumnTable, TLC

\* Two index dimensions, and a further one of integers: two rows may share a
\* packed key, a record may fail at its last dimension, and a third value of "s"
\* widens the lower field of the key and so shifts the upper one.
MCDims == {"s", "n", "p"}
MCIndexDims == {"s", "n"}
MCIntDims == {"p"}
MCDimOrder == <<"n", "s", "p">>
MCSpellings == {"a", "b", "c", "1", "01", "2", "x"}
MCNonInt == "not an integer"
MCParseInt == [v \in MCSpellings |->
                  CASE v \in {"1", "01"} -> "1" [] v = "2" -> "2" [] OTHER -> MCNonInt]
MCZeroTime == -9

Rec(n, s, p, upd, exp) ==
    [dims |-> [d \in MCDims |-> CASE d = "s" -> s [] d = "n" -> n [] OTHER -> p], arity |-> TRUE,
     upd |-> upd, exp |-> exp, met |-> "m"]

MCInputs == {Rec("a", "a", "1", 4, MCZeroTime), Rec("a", "a", "2", 5, MCZeroTime),
             Rec("a", "b", "01", 5, 6), Rec("b", "c", "1", 4, MCZeroTime),
             Rec("b", "b", "x", 5, MCZeroTime)}
=============================================================================
