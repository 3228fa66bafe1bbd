----------------------------- MODULE MCCollection ----------------------------
(* Finite constants for Collection. *)
EXTENDS Collection

Row(point, time) == [point |-> point, time |-> time]

\* A device time that comes in two messages, a later one with a late row, and a
\* pair that enters service after that row.
SplitFrames == <<<<Row("a", 1)>>, <<Row("b", 1)>>, <<Row("b", 2), Row("c", 1)>>>>

SplitPairs ==
    [both |-> [points |-> {"a", "b"}, start |-> 1],
     new |-> [points |-> {"b", "c"}, start |-> 2]]
==============================================================================
