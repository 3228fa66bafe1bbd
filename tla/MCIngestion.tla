----------------------------- MODULE MCIngestion -----------------------------
(* Finite constants for Ingestion. *)
EXTENDS Ingestion, TLC

Reading(event, point, time) ==
    [event |-> event, point |-> point, time |-> time, valid |-> TRUE,
     raises |-> FALSE, missing |-> FALSE, live |-> FALSE]

\* The same event on two points, two events at one point and time, an older
\* and a newer row of a point, an observation that two frames carry.
A1 == Reading(1, 1, 1)
B1 == Reading(1, 2, 1)
B2 == Reading(2, 2, 1)
A3 == Reading(3, 1, 3)

\* One whose processing raises an exception that ingest does not catch.
Raising2 == [Reading(7, 2, 2) EXCEPT !.raises = TRUE]

RaceObservations == {A1, B1, B2, A3, Raising2}

Frame(items) == [wellFormed |-> TRUE, items |-> items]
Malformed == [wellFormed |-> FALSE, items |-> <<>>]

RacePayloads == {Frame(<<B2, A1>>), Frame(<<A3, B2>>), Frame(<<B1>>),
                 Frame(<<A1, Raising2>>)}

\* One point: a gap, a late row, a missing value, an unknown point, a device
\* ahead of the platform, the start of the live timeline, a repeated item and
\* a reused event id.
Late2 == [Reading(4, 1, 2) EXCEPT !.missing = TRUE]
Live5 == [Reading(5, 1, 5) EXCEPT !.live = TRUE]
Unknown == [Reading(6, 3, 1) EXCEPT !.valid = FALSE]
Reused1 == Reading(1, 1, 4)

ItemObservations == {A1, A3, Late2, Live5, Unknown, Reused1}

ItemPayloads ==
    {Frame(<<A1>>), Frame(<<A3, Unknown>>), Frame(<<Late2, Late2>>),
     Frame(<<Live5>>), Frame(<<Reused1, A1>>), Malformed}

WorkerSymmetry == Permutations(Workers)
==============================================================================
