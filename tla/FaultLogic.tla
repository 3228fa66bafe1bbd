------------------------------ MODULE FaultLogic ------------------------------
(***************************************************************************)
(* The fault condition of one rule version on one matched equipment: what  *)
(* backend/app/evaluator.py decides about one frame from the latest        *)
(* observation of each of its three required points.                       *)
(*                                                                         *)
(* A frame is evaluated at a device time `at`.  Its inputs are a function  *)
(* from the three roles of the rule (schemas.Logic) to an observation or   *)
(* None.  An observation carries its value, its quality and its age        *)
(* at - device_timestamp; latest_observations never returns one younger    *)
(* than the frame, so an age is a natural number.                          *)
(***************************************************************************)
EXTENDS Integers

CONSTANTS
    Operator,         \* "ABS_DIFF_GT", "DIFF_GT" or "DIFF_LT"
    Threshold,        \* effective threshold, after the building's override
    Freshness,        \* largest age, and largest step between two frames
    OperatingEquals,  \* value of the operating point that means "running"
    None              \* no observation, no time, no issue

ASSUME OperatorAssumption == Operator \in {"ABS_DIFF_GT", "DIFF_GT", "DIFF_LT"}
ASSUME ThresholdAssumption == Threshold \in Nat \ {0}
ASSUME FreshnessAssumption == Freshness \in Nat \ {0}
ASSUME OperatingAssumption == OperatingEquals \in {0, 1}
ASSUME NoneAssumption == None \notin Int

Roles == {"operating", "left", "right"}
Qualities == {"GOOD", "BAD", "UNCERTAIN", "MISSING"}
Verdicts == {"INSUFFICIENT", "OFF", "NORMAL", "FAULT"}

\* Observation.quality_value: a value is absent exactly when the quality is
\* MISSING.
Observations ==
    {o \in [value : Int \cup {None}, quality : Qualities, age : Nat] :
        (o.value = None) <=> (o.quality = "MISSING")}

Inputs == [Roles -> Observations \cup {None}]

-------------------------------------------------------------------------------
Difference(left, right) ==
    LET raw == left - right
    IN  IF Operator = "ABS_DIFF_GT" /\ raw < 0 THEN -raw ELSE raw

\* Strict in both directions: a difference equal to the threshold is no fault.
Fault(left, right) ==
    IF Operator = "DIFF_LT"
    THEN Difference(left, right) < Threshold
    ELSE Difference(left, right) > Threshold

Trusted(o) ==
    /\ o # None
    /\ o.quality = "GOOD"
    /\ 0 <= o.age /\ o.age <= Freshness

Sufficient(inputs) == \A role \in Roles : Trusted(inputs[role])

Running(inputs) == inputs["operating"].value = OperatingEquals

Verdict(inputs) ==
    IF ~Sufficient(inputs) THEN "INSUFFICIENT"
    ELSE IF ~Running(inputs) THEN "OFF"
    ELSE IF Fault(inputs["left"].value, inputs["right"].value) THEN "FAULT"
    ELSE "NORMAL"
===============================================================================
