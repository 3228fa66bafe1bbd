---------------------------- MODULE MCEvaluation ----------------------------
(* Finite constants for Evaluation. *)
EXTENDS Evaluation

MCTimes == 0 .. 6

Good(value, age) == [value |-> value, quality |-> "GOOD", age |-> age]
Bad(age) == [value |-> 2, quality |-> "BAD", age |-> age]
Missing(age) == [value |-> None, quality |-> "MISSING", age |-> age]

Triple(operating, left, right) ==
    [role \in Roles |-> CASE role = "operating" -> operating
                          [] role = "left" -> left
                          [] role = "right" -> right]

\* Running and off; a difference below, at and above the threshold in both
\* directions; ages at the limit and one beyond; each way of being untrusted.
MCFrameInputs ==
    {Triple(Good(1, 0), Good(2, 0), Good(0, Freshness)),
     Triple(Good(1, 0), Good(0, 0), Good(2, 0)),
     Triple(Good(1, 0), Good(1, 0), Good(0, 0)),
     Triple(Good(0, 0), Good(2, 0), Good(0, 0)),
     Triple(Good(1, 0), Good(2, 0), Good(0, Freshness + 1)),
     Triple(Good(1, 0), Missing(0), Good(0, 0)),
     Triple(Good(1, 0), Bad(0), Good(0, 0)),
     Triple(None, Good(2, 0), Good(0, 0))}
=============================================================================
