------------------------------ MODULE Evaluation ------------------------------
(***************************************************************************)
(* evaluator.evaluate_frame: the event-time state machine of one active    *)
(* rule version on one matched equipment, one row of table `states` and    *)
(* the rows of table `issues` it opens and recovers.                       *)
(*                                                                         *)
(* drain calls evaluate_frame once per device timestamp, in ascending      *)
(* order within one drain; a later drain may carry an older or an equal    *)
(* timestamp (a late observation, or the rest of a frame), so any time     *)
(* may follow any other.  `frames` is a history variable: it records what  *)
(* each evaluated frame showed and no action reads it.                     *)
(***************************************************************************)
EXTENDS FaultLogic, Sequences

CONSTANTS
    Duration,   \* the time the fault must last before an issue opens
    Times,      \* device times of the frames
    FrameInputs \* inputs a frame may have

ASSUME DurationAssumption == Duration \in Nat \ {0}
ASSUME TimesAssumption == Times \subseteq Nat
ASSUME FrameInputsAssumption == FrameInputs \subseteq Inputs

VARIABLES
    state,   \* the row's data: status, since, lastAt, samples, issue
    issues,  \* the issues opened so far, in order; state.issue is an index
    frames   \* history: what every evaluated frame showed

vars == <<state, issues, frames>>

Statuses == {"NORMAL", "QUALIFYING", "ACTIVE", "INSUFFICIENT_DATA"}

\* samples and evidence keep the device time of each sample: the observations
\* and the difference of a sample are those of the frame at that time.
Issues ==
    [start : Nat, end : Nat, evidence : SUBSET Nat,
     status : {"ACTIVE", "RECOVERED"}, recovered : Nat \cup {None},
     reason : {"NORMAL", "OFF", None}]

TypeOK ==
    /\ state \in [status : Statuses, since : Nat \cup {None},
                  lastAt : Nat \cup {None}, samples : SUBSET Nat,
                  issue : Nat \cup {None}]
    /\ issues \in Seq(Issues)
    /\ state.issue # None => state.issue \in 1 .. Len(issues)
    /\ frames \in SUBSET [at : Nat, verdict : Verdicts]

\* No row yet: the default of evaluate_frame.
Init ==
    /\ state = [status |-> "NORMAL", since |-> None, lastAt |-> None,
                samples |-> {}, issue |-> None]
    /\ issues = <<>>
    /\ frames = {}

-------------------------------------------------------------------------------
OnTime(at) == state.lastAt # None => at > state.lastAt

\* Variant: a step of one more than the freshness limit is no gap.
GapOffByOne(at) == state.lastAt # None /\ at - state.lastAt > Freshness + 1

Gap(at) == state.lastAt # None /\ at - state.lastAt > Freshness

\* since and samples once a gap has cleared them.
Since(at) == IF Gap(at) THEN None ELSE state.since
Samples(at) == IF Gap(at) THEN {} ELSE state.samples

\* Variant: `since` is overwritten by every qualifying frame.
StartOverwritten(at) == at

\* The first qualifying frame starts the interval.
Start(at) == IF Since(at) = None THEN at ELSE Since(at)

Note(at, verdict) == frames' = frames \cup {[at |-> at, verdict |-> verdict]}

\* A frame not newer than the last one evaluated is dropped.
Late(at) ==
    /\ ~OnTime(at)
    /\ UNCHANGED vars

\* Variant: insufficient data resets the row to the default one.
InsufficientForgetsIssue(at) ==
    /\ OnTime(at)
    /\ state' = [status |-> "INSUFFICIENT_DATA", since |-> None, lastAt |-> at,
                 samples |-> {}, issue |-> None]
    /\ Note(at, "INSUFFICIENT")
    /\ UNCHANGED issues

Insufficient(at) ==
    /\ OnTime(at)
    /\ state' = [status |-> "INSUFFICIENT_DATA", since |-> None, lastAt |-> at,
                 samples |-> {}, issue |-> state.issue]
    /\ Note(at, "INSUFFICIENT")
    /\ UNCHANGED issues

Cleared(at) ==
    [status |-> "NORMAL", since |-> None, lastAt |-> at, samples |-> {},
     issue |-> None]

Normal(at, verdict) ==
    /\ OnTime(at)
    /\ state.issue = None
    /\ state' = Cleared(at)
    /\ Note(at, verdict)
    /\ UNCHANGED issues

Recovered(issue, at, verdict) ==
    [issue EXCEPT !.status = "RECOVERED", !.recovered = at, !.reason = verdict]

\* Variant: switching the equipment off clears the row but not the issue.
RecoverOnNormalOnly(at, verdict) ==
    /\ OnTime(at)
    /\ state.issue # None
    /\ issues' = IF verdict = "OFF" THEN issues
                 ELSE [issues EXCEPT ![state.issue] = Recovered(@, at, verdict)]
    /\ state' = Cleared(at)
    /\ Note(at, verdict)

\* Variant: the row keeps its reference to the recovered issue.
RecoverKeepsReference(at, verdict) ==
    /\ OnTime(at)
    /\ state.issue # None
    /\ issues' = [issues EXCEPT ![state.issue] = Recovered(@, at, verdict)]
    /\ state' = [Cleared(at) EXCEPT !.issue = state.issue]
    /\ Note(at, verdict)

Recover(at, verdict) ==
    /\ OnTime(at)
    /\ state.issue # None
    /\ issues' = [issues EXCEPT ![state.issue] = Recovered(@, at, verdict)]
    /\ state' = Cleared(at)
    /\ Note(at, verdict)

StayActive(at) ==
    /\ OnTime(at)
    /\ state.issue # None
    /\ state' = [status |-> "ACTIVE", since |-> Since(at), lastAt |-> at,
                 samples |-> Samples(at), issue |-> state.issue]
    /\ Note(at, "FAULT")
    /\ UNCHANGED issues

Qualify(at) ==
    /\ OnTime(at)
    /\ state.issue = None
    /\ at - Start(at) < Duration
    /\ state' = [status |-> "QUALIFYING", since |-> Start(at), lastAt |-> at,
                 samples |-> Samples(at) \cup {at}, issue |-> None]
    /\ Note(at, "FAULT")
    /\ UNCHANGED issues

Opened(at) ==
    [start |-> Start(at), end |-> at, evidence |-> Samples(at) \cup {at},
     status |-> "ACTIVE", recovered |-> None, reason |-> None]

\* Variant: the row points at the issue before the new one.
TriggerStaleReference(at) ==
    /\ OnTime(at)
    /\ state.issue = None
    /\ at - Start(at) >= Duration
    /\ issues' = Append(issues, Opened(at))
    /\ state' = [status |-> "ACTIVE", since |-> Start(at), lastAt |-> at,
                 samples |-> {}, issue |-> Len(issues)]
    /\ Note(at, "FAULT")

\* since is kept and samples are moved into the issue's evidence.
Trigger(at) ==
    /\ OnTime(at)
    /\ state.issue = None
    /\ at - Start(at) >= Duration
    /\ issues' = Append(issues, Opened(at))
    /\ state' = [status |-> "ACTIVE", since |-> Start(at), lastAt |-> at,
                 samples |-> {}, issue |-> Len(issues) + 1]
    /\ Note(at, "FAULT")

\* evaluate_frame on the inputs that latest_observations found at `at`.
EvaluateFrame(at, inputs) ==
    LET verdict == Verdict(inputs)
    IN  \/ Late(at)
        \/ verdict = "INSUFFICIENT" /\ Insufficient(at)
        \/ verdict \in {"OFF", "NORMAL"} /\ Normal(at, verdict)
        \/ verdict \in {"OFF", "NORMAL"} /\ Recover(at, verdict)
        \/ verdict = "FAULT" /\ StayActive(at)
        \/ verdict = "FAULT" /\ Qualify(at)
        \/ verdict = "FAULT" /\ Trigger(at)

Next == \E at \in Times, inputs \in FrameInputs : EvaluateFrame(at, inputs)

Spec == Init /\ [][Next]_vars

-------------------------------------------------------------------------------
(***************************************************************************)
(* What the frames show, independently of the state machine.               *)
(***************************************************************************)
FrameTimes == {f.at : f \in frames}

Showed(t, verdict) == [at |-> t, verdict |-> verdict] \in frames

\* Frames without a hole longer than the freshness limit.
Continuous(times, last) ==
    \A t \in times : t = last \/ \E u \in times : t < u /\ u - t <= Freshness

\* From s to t every evaluated frame showed the fault, without a hole.
FaultRun(s, t) ==
    LET within == {u \in FrameTimes : s <= u /\ u <= t}
    IN  /\ {s, t} \subseteq within
        /\ \A u \in within : Showed(u, "FAULT")
        /\ Continuous(within, t)

\* The frames after t that show that the fault is over.
ClearsAfter(t) ==
    {f \in frames : f.at > t /\ f.verdict \in {"OFF", "NORMAL"}}

\* The issue's samples are all the frames from start to end, they are a fault
\* run, and the last one is the first that completes the duration.
Evidenced(issue) ==
    /\ issue.evidence = {u \in FrameTimes : issue.start <= u /\ u <= issue.end}
    /\ FaultRun(issue.start, issue.end)
    /\ issue.end - issue.start >= Duration
    /\ \A u \in issue.evidence \ {issue.end} : u - issue.start < Duration

\* Every issue rests on evidence that is complete and true: its samples are
\* all the frames from start to end, each one showed a trusted fault with the
\* equipment running, no two are further apart than the freshness limit, the
\* interval lasts the duration and the issue opened on the first frame that
\* reached it (evaluator.py, trigger_interval and observations of an issue).
EvidenceSound == \A i \in 1 .. Len(issues) : Evidenced(issues[i])

\* No fault goes unreported: whenever the last frames form a fault run as long
\* as the duration, an issue is open (evaluator.py: state["since"] survives
\* exactly the frames that continue the interval).
NoMissedFault ==
    \A s \in FrameTimes :
        FaultRun(s, state.lastAt) /\ state.lastAt - s >= Duration
            => state.issue # None

ClosedWhenCleared(issue) ==
    IF issue.status = "ACTIVE"
    THEN ClearsAfter(issue.end) = {}
    ELSE /\ [at |-> issue.recovered, verdict |-> issue.reason]
                \in ClearsAfter(issue.end)
         /\ \A f \in ClearsAfter(issue.end) : issue.recovered <= f.at

\* An issue closes on the first trusted frame after its trigger that shows
\* normal operation or OFF, and on nothing else: missing data or a gap neither
\* closes it nor hides the recovery (docs/afdd.md, "Missing data does not
\* prove recovery").
RecoveryProven == \A i \in 1 .. Len(issues) : ClosedWhenCleared(issues[i])

\* The open issue is the one the state row points to; it is the newest one and
\* every earlier one is recovered, so that an equipment never has two open
\* issues of a version and no open issue is orphaned.
OneOpenIssue ==
    \A i \in 1 .. Len(issues) :
        issues[i].status = "ACTIVE" <=> state.issue = i

-------------------------------------------------------------------------------
(***************************************************************************)
(* The inductive invariant: the row summarises the frames.                 *)
(***************************************************************************)
\* Frames are evaluated in ascending order, once each.
FramesOrdered ==
    /\ state.lastAt = None => frames = {}
    /\ state.lastAt # None => state.lastAt \in FrameTimes
    /\ \A f \in frames : f.at \in Times /\ f.at <= state.lastAt
    /\ \A f, g \in frames : f.at = g.at => f = g

\* Without an open issue, since and samples are the fault run that ends at
\* the last frame, it is shorter than the duration and no longer run ends there.
IntervalIsRun ==
    state.issue = None =>
        IF state.since = None
        THEN /\ state.samples = {}
             /\ state.lastAt # None => ~Showed(state.lastAt, "FAULT")
        ELSE /\ FaultRun(state.since, state.lastAt)
             /\ state.lastAt - state.since < Duration
             /\ state.samples = {u \in FrameTimes : state.since <= u}
             /\ \A s \in FrameTimes :
                    FaultRun(s, state.lastAt) => state.since <= s

\* Issues lie one after another, and the past of the last frame.
IssuesOrdered ==
    /\ \A i \in 1 .. Len(issues) : issues[i].end <= state.lastAt
    /\ \A i, j \in 1 .. Len(issues) :
          i < j => issues[i].recovered # None /\ issues[i].recovered < issues[j].start
    /\ \A i \in 1 .. Len(issues) :
          issues[i].status = "RECOVERED" <=> issues[i].recovered # None

IInv ==
    /\ TypeOK
    /\ FramesOrdered
    /\ IntervalIsRun
    /\ IssuesOrdered
    /\ EvidenceSound
    /\ RecoveryProven
    /\ OneOpenIssue

-------------------------------------------------------------------------------
\* The abstract specification: see IssueLedger.
LedgerOf(rows) ==
    [i \in 1 .. Len(rows) |->
        [start |-> rows[i].start, end |-> rows[i].end,
         closed |-> rows[i].recovered]]

Ledger == INSTANCE IssueLedger WITH ledger <- LedgerOf(issues)

\* The issues opened and recovered form a ledger of disjoint intervals.
LedgerSpec == Ledger!Spec

-------------------------------------------------------------------------------
\* The state diagram of docs/afdd.md; its RECOVERED is the status NORMAL of a
\* row whose issue was just recovered.
DocumentedEdges ==
    {<<"NORMAL", "QUALIFYING">>, <<"QUALIFYING", "QUALIFYING">>,
     <<"QUALIFYING", "ACTIVE">>, <<"QUALIFYING", "NORMAL">>,
     <<"QUALIFYING", "INSUFFICIENT_DATA">>, <<"INSUFFICIENT_DATA", "QUALIFYING">>,
     <<"INSUFFICIENT_DATA", "NORMAL">>, <<"ACTIVE", "NORMAL">>,
     <<"ACTIVE", "INSUFFICIENT_DATA">>}

\* Every change of status follows an arrow of the documented diagram.  The
\* code has two more: NORMAL to INSUFFICIENT_DATA, and INSUFFICIENT_DATA to
\* ACTIVE when the fault is still there.
FollowsDiagram == <<state.status, state'.status>> \in DocumentedEdges

DocumentedTransitions == [][FollowsDiagram]_(state.status)

===============================================================================
