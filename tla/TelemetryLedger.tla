--------------------------- MODULE TelemetryLedger ---------------------------
(***************************************************************************)
(* What ingestion promises to the rest of the platform, whatever the       *)
(* number of workers, deliveries and crashes: telemetry only grows, a      *)
(* frame at a time; an event and a point's device time have one row each;  *)
(* every row is queued for evaluation exactly once, and the current value  *)
(* of a point is its latest row.                                           *)
(***************************************************************************)
EXTENDS Integers

CONSTANTS Observations, Points, None

VARIABLES rows, queued, latest

vars == <<rows, queued, latest>>

Compatible(o, p) == o.event # p.event /\ <<o.point, o.time>> # <<p.point, p.time>>

IsLatest(o, p, set) ==
    IF \E x \in set : x.point = p
    THEN o \in set /\ o.point = p /\ \A x \in set : x.point = p => x.time <= o.time
    ELSE o = None

Init ==
    /\ rows = {}
    /\ queued = [o \in Observations |-> 0]
    /\ latest = [p \in Points |-> None]

Accept(new) ==
    /\ new \cap rows = {}
    /\ \A o \in new : \A x \in (rows \cup new) \ {o} : Compatible(o, x)
    /\ rows' = rows \cup new
    /\ queued' = [o \in Observations |-> IF o \in new THEN 1 ELSE queued[o]]
    /\ latest' \in [Points -> Observations \cup {None}]
    /\ \A p \in Points : IsLatest(latest'[p], p, rows')

Next == \E new \in SUBSET Observations : Accept(new)

Spec == Init /\ [][Next]_vars
==============================================================================
