------------------------------ MODULE IssueLedger ------------------------------
(***************************************************************************)
(* What the evaluator promises about the issues of one rule version on one *)
(* equipment: a ledger of intervals.  An issue opens on an interval at     *)
(* least as long as the duration, all of it after the recovery of the      *)
(* issue before; it closes once, after it opened; nothing recorded changes.*)
(***************************************************************************)
EXTENDS Integers, Sequences

CONSTANTS Duration, Times, None

VARIABLE ledger

Last == ledger[Len(ledger)]

Init == ledger = <<>>

Open(start, end) ==
    /\ end - start >= Duration
    /\ ledger # <<>> => Last.closed # None /\ Last.closed < start
    /\ ledger' = Append(ledger, [start |-> start, end |-> end, closed |-> None])

Close(at) ==
    /\ ledger # <<>>
    /\ Last.closed = None
    /\ Last.end < at
    /\ ledger' = [ledger EXCEPT ![Len(ledger)].closed = at]

Next ==
    \/ \E start, end \in Times : Open(start, end)
    \/ \E at \in Times : Close(at)

Spec == Init /\ [][Next]_ledger
===============================================================================
