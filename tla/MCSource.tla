------------------------------- MODULE MCSource ------------------------------
(* Finite constants for Source: an air handling unit with two points and a *)
(* meter of another building.                                              *)
EXTENDS Source

Registered == [ahu |-> {1, 2}, meter |-> {3}]
Sites == [ahu |-> "a", meter |-> "b"]

Row(record, equipment, observed, raw) ==
    [record |-> record, equipment |-> equipment, observed |-> observed,
     raw |-> [p \in 1..3 |-> IF p = 1 THEN raw ELSE "good"]]

\* On time, later, late, with an invalid measurement, of unknown equipment, and
\* a record that comes again with other content.
AhuRows ==
    {Row(1, "ahu", 1, "good"), Row(3, "ahu", 2, "blank"), Row(2, "ahu", 1, "invalid"),
     Row(4, "stranger", 2, "good"), Row(3, "ahu", 1, "good")}

Meter == Row(5, "meter", 2, "good")

\* Every file of the unit with three rows, merged with one of the meter.
AllPacks ==
    {<<ahu, <<Row(6, "meter", 1, "good"), Meter>>>> : ahu \in [1..3 -> AhuRows]}

\* The last frame of the supplied pack: an observation on time and a late one.
LastFrame == {<<<<Row(3, "ahu", 2, "good"), Row(1, "ahu", 1, "good")>>, <<>>>>}

Orders == {[r \in 1..6 |-> r], [r \in 1..6 |-> 7 - r]}
Buildings == {{}, {"a"}}
==============================================================================
