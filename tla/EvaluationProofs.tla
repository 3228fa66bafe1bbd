---------------------------- MODULE EvaluationProofs ----------------------------
(***************************************************************************)
(* Theorems about Evaluation for every threshold, freshness limit,         *)
(* duration, set of device times and set of inputs.                        *)
(***************************************************************************)
EXTENDS Evaluation, SequenceTheorems, TLAPS

USE NoneAssumption, FreshnessAssumption, DurationAssumption, TimesAssumption

\* Every verdict is one of four, so evaluate_frame has a branch for each frame.
LEMMA VerdictType == \A inputs : Verdict(inputs) \in Verdicts
BY DEF Verdict, Verdicts

\* The cases of a step, with the late frames among the stutters.
LEMMA StepCases ==
    ASSUME Next,
           NEW P,
           UNCHANGED vars => P,
           \A at \in Times : Insufficient(at) => P,
           \A at \in Times, v \in {"OFF", "NORMAL"} : Normal(at, v) => P,
           \A at \in Times, v \in {"OFF", "NORMAL"} : Recover(at, v) => P,
           \A at \in Times : StayActive(at) => P,
           \A at \in Times : Qualify(at) => P,
           \A at \in Times : Trigger(at) => P
    PROVE  P
<1>1. PICK at \in Times, inputs \in FrameInputs : EvaluateFrame(at, inputs)
  BY DEF Next
<1>2. QED
  BY <1>1 DEF EvaluateFrame, Late

-------------------------------------------------------------------------------
(* Type correctness. *)

LEMMA TypeInit == Init => TypeOK
BY DEF Init, TypeOK, Statuses, Issues

LEMMA SinceType ==
    ASSUME TypeOK, NEW at \in Times
    PROVE  /\ at \in Nat
           /\ Since(at) \in Nat \cup {None}
           /\ Samples(at) \in SUBSET Nat
           /\ Start(at) \in Nat
BY DEF TypeOK, Since, Samples, Start

\* What a recovery and a trigger do to the sequence of issues.
LEMMA RecoverIssues ==
    ASSUME TypeOK, NEW at \in Times, NEW v \in {"OFF", "NORMAL"}, Recover(at, v)
    PROVE  /\ state.issue \in 1 .. Len(issues)
           /\ issues' \in Seq(Issues)
           /\ Len(issues') = Len(issues)
           /\ \A i \in 1 .. Len(issues) :
                 issues'[i] = IF i = state.issue THEN Recovered(issues[i], at, v)
                              ELSE issues[i]
<1>1. state.issue \in 1 .. Len(issues) /\ issues \in Seq(Issues)
  BY DEF Recover, TypeOK
<1>2. issues[state.issue] \in Issues
  BY <1>1
<1>3. Recovered(issues[state.issue], at, v) \in Issues
  BY <1>2 DEF Issues, Recovered
<1>4. issues' = [issues EXCEPT ![state.issue] =
                    Recovered(issues[state.issue], at, v)]
  BY DEF Recover
<1>5. QED
  BY <1>1, <1>3, <1>4, ExceptSeq

LEMMA TriggerIssues ==
    ASSUME TypeOK, NEW at \in Times, Trigger(at)
    PROVE  /\ Len(issues) \in Nat
           /\ issues' \in Seq(Issues)
           /\ Len(issues') = Len(issues) + 1
           /\ \A i \in 1 .. Len(issues) : issues'[i] = issues[i]
           /\ issues'[Len(issues) + 1] = Opened(at)
<1>1. Opened(at) \in Issues
  BY SinceType DEF Issues, Opened
<1>2. issues' = Append(issues, Opened(at)) /\ issues \in Seq(Issues)
  BY DEF Trigger, TypeOK
<1>3. QED
  BY <1>1, <1>2, AppendProperties

LEMMA TypeStep == TypeOK /\ [Next]_vars => TypeOK'
<1> SUFFICES ASSUME TypeOK, [Next]_vars PROVE TypeOK'
  OBVIOUS
<1>1. CASE UNCHANGED vars
  BY <1>1 DEF vars, TypeOK
<1>2. ASSUME NEW at \in Times, Insufficient(at) PROVE TypeOK'
  BY <1>2, SinceType DEF Insufficient, TypeOK, Note, Statuses, Verdicts
<1>3. ASSUME NEW at \in Times, NEW v \in {"OFF", "NORMAL"}, Normal(at, v)
      PROVE  TypeOK'
  BY <1>3, SinceType DEF Normal, Cleared, TypeOK, Note, Statuses, Verdicts
<1>4. ASSUME NEW at \in Times, NEW v \in {"OFF", "NORMAL"}, Recover(at, v)
      PROVE  TypeOK'
  <2>1. state' = [status |-> "NORMAL", since |-> None, lastAt |-> at,
                  samples |-> {}, issue |-> None]
    BY <1>4 DEF Recover, Cleared
  <2>2. frames' \in SUBSET [at : Nat, verdict : Verdicts]
    BY <1>4 DEF Recover, Note, TypeOK, Verdicts
  <2>3. issues' \in Seq(Issues)
    BY <1>4, RecoverIssues
  <2>4. QED
    BY <2>1, <2>2, <2>3, SinceType DEF TypeOK, Statuses
<1>5. ASSUME NEW at \in Times, StayActive(at) PROVE TypeOK'
  BY <1>5, SinceType DEF StayActive, TypeOK, Note, Statuses, Verdicts
<1>6. ASSUME NEW at \in Times, Qualify(at) PROVE TypeOK'
  BY <1>6, SinceType DEF Qualify, TypeOK, Note, Statuses, Verdicts
<1>7. ASSUME NEW at \in Times, Trigger(at) PROVE TypeOK'
  <2>1. state' = [status |-> "ACTIVE", since |-> Start(at), lastAt |-> at,
                  samples |-> {}, issue |-> Len(issues) + 1]
    BY <1>7 DEF Trigger
  <2>2. frames' \in SUBSET [at : Nat, verdict : Verdicts]
    BY <1>7 DEF Trigger, Note, TypeOK, Verdicts
  <2>3. Len(issues) + 1 \in Nat /\ Len(issues) + 1 \in 1 .. Len(issues')
    BY <1>7, TriggerIssues
  <2>4. QED
    BY <1>7, <2>1, <2>2, <2>3, TriggerIssues, SinceType DEF TypeOK, Statuses
<1>8. QED
  BY <1>1, <1>2, <1>3, <1>4, <1>5, <1>6, <1>7, StepCases

\* The row and the issues always have the shape the other statements rely on;
\* in particular state.issue names an issue that exists, which is what
\* `.one()` of the recovery in evaluate_frame needs.
THEOREM TypeCorrect == Spec => []TypeOK
BY TypeInit, TypeStep, PTL DEF Spec

-------------------------------------------------------------------------------
(* How one more frame changes what the frames show. *)

LEMMA NewFrame ==
    ASSUME TypeOK, FramesOrdered,
           NEW at \in Times, OnTime(at), NEW v \in Verdicts, Note(at, v)
    PROVE  /\ at \in Nat
           /\ FrameTimes \subseteq Nat
           /\ \A u \in FrameTimes : u < at
           /\ state.lastAt # None => state.lastAt \in FrameTimes
           /\ \A u \in FrameTimes : state.lastAt # None /\ u <= state.lastAt
           /\ FrameTimes' = FrameTimes \cup {at}
           /\ \A u, w : u # at => (Showed(u, w)' <=> Showed(u, w))
           /\ \A w : Showed(at, w)' <=> w = v
<1>1. at \in Nat /\ FrameTimes \subseteq Nat
  BY DEF TypeOK, FrameTimes
<1>2. \A u \in FrameTimes : state.lastAt # None /\ u <= state.lastAt
  BY DEF FramesOrdered, FrameTimes
<1>3. \A u \in FrameTimes : u < at
  BY <1>1, <1>2 DEF OnTime, TypeOK
<1>4. state.lastAt # None => state.lastAt \in FrameTimes
  BY DEF FramesOrdered
<1>5. FrameTimes' = FrameTimes \cup {at}
  <2>1. \A f : f \in frames' <=> f \in frames \/ f = [at |-> at, verdict |-> v]
    BY DEF Note
  <2>2. \A u : u \in FrameTimes' <=> \E f \in frames' : u = f.at
    BY DEF FrameTimes
  <2>3. \A u : u \in FrameTimes <=> \E f \in frames : u = f.at
    BY DEF FrameTimes
  <2> DEFINE f0 == [at |-> at, verdict |-> v]
  <2>4. f0.at = at /\ f0 \in frames'
    BY <2>1
  <2> HIDE DEF f0
  <2>5. ASSUME NEW u \in FrameTimes' PROVE u \in FrameTimes \cup {at}
    <3>1. PICK f \in frames' : u = f.at
      BY <2>2
    <3>2. CASE f \in frames
      BY <3>1, <3>2, <2>3
    <3>3. CASE f = f0
      BY <3>1, <3>3, <2>4
    <3>4. QED
      BY <3>2, <3>3, <2>1 DEF f0
  <2>6. ASSUME NEW u \in FrameTimes \cup {at} PROVE u \in FrameTimes'
    <3>1. CASE u = at
      BY <3>1, <2>2, <2>4
    <3>2. CASE u \in FrameTimes
      BY <3>2, <2>1, <2>2, <2>3
    <3>3. QED
      BY <3>1, <3>2
  <2>7. QED
    BY <2>5, <2>6
<1>6. \A u, w : u # at => (Showed(u, w)' <=> Showed(u, w))
  BY DEF Note, Showed
<1>7. \A w : Showed(at, w) => at \in FrameTimes
  BY DEF Showed, FrameTimes
<1>8. \A w : Showed(at, w)' <=> w = v
  BY <1>1, <1>3, <1>7 DEF Note, Showed
<1>9. QED
  BY <1>1, <1>2, <1>3, <1>4, <1>5, <1>6, <1>8

\* A run that ended before the new frame is what it was.
LEMMA OldRun ==
    ASSUME TypeOK, FramesOrdered,
           NEW at \in Times, OnTime(at), NEW v \in Verdicts, Note(at, v)
    PROVE  \A s, t : t \in FrameTimes =>
               /\ FaultRun(s, t)' <=> FaultRun(s, t)
               /\ {u \in FrameTimes : s <= u /\ u <= t}' =
                     {u \in FrameTimes : s <= u /\ u <= t}
<1> SUFFICES ASSUME NEW s, NEW t, t \in FrameTimes
             PROVE  /\ FaultRun(s, t)' <=> FaultRun(s, t)
                    /\ {u \in FrameTimes : s <= u /\ u <= t}' =
                          {u \in FrameTimes : s <= u /\ u <= t}
  OBVIOUS
<1>1. ~(at <= t)
  BY NewFrame
<1>2. {u \in FrameTimes : s <= u /\ u <= t}' =
         {u \in FrameTimes : s <= u /\ u <= t}
  BY <1>1, NewFrame
<1>3. \A u \in FrameTimes : Showed(u, "FAULT")' <=> Showed(u, "FAULT")
  BY NewFrame
<1>4. QED
  BY <1>2, <1>3 DEF FaultRun, Continuous

\* A run that ends at the new frame is the new frame alone, or a run that
\* ended at the frame before it and no gap.
LEMMA GrownRun ==
    ASSUME TypeOK, FramesOrdered,
           NEW at \in Times, OnTime(at), Note(at, "FAULT")
    PROVE  /\ FaultRun(at, at)'
           /\ \A s : FaultRun(s, state.lastAt) /\ ~Gap(at) => FaultRun(s, at)'
           /\ \A s : FaultRun(s, at)' /\ s # at =>
                 ~Gap(at) /\ FaultRun(s, state.lastAt)
<1> DEFINE old(s) == {u \in FrameTimes : s <= u /\ u <= state.lastAt}
           new(s) == {u \in FrameTimes' : s <= u /\ u <= at}
           last == state.lastAt
<1>0. "FAULT" \in Verdicts
  BY DEF Verdicts
<1>1. FaultRun(at, at)'
  <2>1. new(at) = {at}
    BY <1>0, NewFrame
  <2>2. Showed(at, "FAULT")'
    BY <1>0, NewFrame
  <2>3. QED
    BY <2>1, <2>2 DEF FaultRun, Continuous
<1>2. ASSUME NEW s, FaultRun(s, last), ~Gap(at) PROVE FaultRun(s, at)'
  <2>1. s \in FrameTimes /\ last \in FrameTimes /\ last # None
    BY <1>2, <1>0, NewFrame DEF FaultRun
  <2>2. new(s) = old(s) \cup {at}
    BY <2>1, <1>0, NewFrame
  <2>3. \A u \in new(s) : Showed(u, "FAULT")'
    BY <2>2, <1>2, <1>0, NewFrame DEF FaultRun
  <2>4. last < at /\ at - last <= Freshness /\ at \in new(s)
    BY <2>1, <2>2, <1>2, <1>0, NewFrame DEF Gap
  <2>5. Continuous(new(s), at)
    BY <2>2, <2>4, <1>2 DEF FaultRun, Continuous
  <2>6. s \in new(s)
    BY <2>1, <2>2, <1>2 DEF FaultRun
  <2>7. QED
    BY <2>3, <2>4, <2>5, <2>6 DEF FaultRun, Continuous
<1>3. ASSUME NEW s, FaultRun(s, at)', s # at
      PROVE  ~Gap(at) /\ FaultRun(s, last)
  <2>1. s \in FrameTimes /\ last \in FrameTimes /\ last # None
    BY <1>3, <1>0, NewFrame DEF FaultRun
  <2>2. new(s) = old(s) \cup {at} /\ last \in old(s) /\ s \in old(s)
    BY <2>1, <1>0, NewFrame
  <2>3. \A t \in new(s) : t = at \/ \E u \in new(s) : t < u /\ u - t <= Freshness
    BY <1>3 DEF FaultRun, Continuous
  <2>4. ~Gap(at)
    <3>1. PICK u \in new(s) : last < u /\ u - last <= Freshness
      BY <2>1, <2>2, <2>3, <1>0, NewFrame
    <3>2. u = at
      BY <3>1, <2>2, <2>1, <1>0, NewFrame
    <3>3. QED
      BY <3>1, <3>2, <2>1, <1>0, NewFrame DEF Gap
  <2>5. Continuous(old(s), last)
    <3> SUFFICES ASSUME NEW t \in old(s), t # last
                 PROVE  \E u \in old(s) : t < u /\ u - t <= Freshness
      BY DEF Continuous
    <3>1. t \in Nat /\ last \in Nat /\ t < last /\ last < at /\ at \in Nat
      BY <2>1, <1>0, NewFrame
    <3>2. PICK u \in new(s) : t < u /\ u - t <= Freshness
      BY <3>1, <2>2, <2>3
    <3>3. CASE u = at
      BY <3>1, <3>2, <3>3, <2>2
    <3>4. CASE u \in old(s)
      BY <3>2, <3>4
    <3>5. QED
      BY <3>3, <3>4, <2>2
  <2>6. \A u \in old(s) : Showed(u, "FAULT")
    BY <1>3, <2>2, <1>0, NewFrame DEF FaultRun
  <2>7. QED
    BY <2>2, <2>4, <2>5, <2>6 DEF FaultRun
<1>4. QED
  BY <1>1, <1>2, <1>3

-------------------------------------------------------------------------------
(* Each part of the inductive invariant is kept. *)

LEMMA FramesStep ==
    ASSUME TypeOK, FramesOrdered, NEW at \in Times, OnTime(at),
           NEW v \in Verdicts, Note(at, v), state'.lastAt = at
    PROVE  FramesOrdered'
<1>1. at \in FrameTimes' /\ at # None /\ at \in Nat
  BY NewFrame
<1>2. \A f \in frames' : f \in frames \/ f = [at |-> at, verdict |-> v]
  BY DEF Note
<1>3. \A f \in frames : f.at \in FrameTimes /\ f.at \in Times
  BY DEF FrameTimes, FramesOrdered
<1>4. \A f \in frames : f.at < at
  BY <1>3, NewFrame
<1>5. ASSUME NEW f \in frames' PROVE f.at \in Times /\ f.at <= at
  <2>1. CASE f \in frames
    <3>1. f.at \in Nat /\ f.at < at /\ f.at \in Times
      BY <2>1, <1>3, <1>4
    <3>2. QED
      BY <3>1, <1>1
  <2>2. CASE f = [at |-> at, verdict |-> v]
    BY <2>2, <1>1
  <2>3. QED
    BY <2>1, <2>2, <1>2
<1>6. ASSUME NEW f \in frames', NEW g \in frames', f.at = g.at PROVE f = g
  <2>1. CASE f \in frames /\ g \in frames
    BY <2>1, <1>6 DEF FramesOrdered
  <2>2. CASE f \in frames /\ g = [at |-> at, verdict |-> v]
    BY <2>2, <1>6, <1>4, <1>1
  <2>3. CASE g \in frames /\ f = [at |-> at, verdict |-> v]
    BY <2>3, <1>6, <1>4, <1>1
  <2>4. QED
    BY <2>1, <2>2, <2>3, <1>2
<1>7. QED
  BY <1>1, <1>5, <1>6 DEF FramesOrdered

\* When a frame shows the fault and no issue is open, Start(at) and the samples
\* are the longest fault run that ends at the frame.
LEMMA LongestRun ==
    ASSUME TypeOK, FramesOrdered, IntervalIsRun, state.issue = None,
           NEW at \in Times, OnTime(at), Note(at, "FAULT"),
           NEW first, first = Start(at)
    PROVE  /\ first \in Nat /\ first <= at
           /\ FaultRun(first, at)'
           /\ Samples(at) \cup {at} = {u \in FrameTimes' : first <= u}
           /\ \A s \in FrameTimes' : FaultRun(s, at)' => first <= s
           /\ \A u \in FrameTimes : first <= u => u - first < Duration
<1>0. "FAULT" \in Verdicts
  BY DEF Verdicts
<1>1. CASE Since(at) = None
  <2>1. first = at
    BY <1>1 DEF Start
  <2>2. Samples(at) = {}
    BY <1>1 DEF Samples, Since, IntervalIsRun
  <2>3. {u \in FrameTimes' : at <= u} = {at}
    BY <1>0, NewFrame
  <2>4. ASSUME NEW s \in FrameTimes', FaultRun(s, at)' PROVE at <= s
    <3> SUFFICES ASSUME s # at PROVE FALSE
      BY <1>0, NewFrame
    <3>1. ~Gap(at) /\ FaultRun(s, state.lastAt)
      BY <2>4, GrownRun
    <3>2. state.lastAt \in FrameTimes /\ state.lastAt # None
      BY <3>1, <1>0, NewFrame DEF FaultRun
    <3>3. Showed(state.lastAt, "FAULT")
      BY <3>1 DEF FaultRun
    <3>4. state.since = None
      BY <1>1, <3>1 DEF Since
    <3>5. QED
      BY <3>2, <3>3, <3>4 DEF IntervalIsRun
  <2>5. QED
    BY <2>1, <2>2, <2>3, <2>4, <1>0, NewFrame, GrownRun
<1>2. CASE Since(at) # None
  <2>1. ~Gap(at) /\ state.since # None /\ Since(at) = state.since
        /\ first = state.since /\ Samples(at) = state.samples
    BY <1>2 DEF Since, Start, Samples
  <2>2. FaultRun(state.since, state.lastAt)
        /\ state.lastAt - state.since < Duration
        /\ state.samples = {u \in FrameTimes : state.since <= u}
        /\ \A s \in FrameTimes : FaultRun(s, state.lastAt) => state.since <= s
    BY <2>1 DEF IntervalIsRun
  <2>3. first \in FrameTimes /\ first \in Nat /\ first < at
    BY <2>1, <2>2, <1>0, NewFrame DEF FaultRun
  <2>4. FaultRun(first, at)'
    BY <2>1, <2>2, GrownRun
  <2>5. Samples(at) \cup {at} = {u \in FrameTimes' : first <= u}
    BY <2>1, <2>2, <2>3, <1>0, NewFrame
  <2>6. ASSUME NEW s \in FrameTimes', FaultRun(s, at)' PROVE first <= s
    <3>1. CASE s = at
      BY <3>1, <2>3, <1>0, NewFrame
    <3>2. CASE s # at
      <4>1. s \in FrameTimes /\ FaultRun(s, state.lastAt)
        BY <2>6, <3>2, <1>0, NewFrame, GrownRun
      <4>2. QED
        BY <4>1, <2>1, <2>2
    <3>3. QED
      BY <3>1, <3>2
  <2>7. \A u \in FrameTimes : u - first < Duration
    <3> SUFFICES ASSUME NEW u \in FrameTimes PROVE u - first < Duration
      OBVIOUS
    <3>1. u \in Nat /\ state.lastAt \in Nat /\ u <= state.lastAt
      BY <1>0, NewFrame
    <3>2. QED
      BY <3>1, <2>1, <2>2, <2>3
  <2>8. QED
    BY <2>1, <2>3, <2>4, <2>5, <2>6, <2>7, <1>0, NewFrame
<1>3. QED
  BY <1>1, <1>2

\* What a later frame does not change about an issue.
LEMMA EvidenceKept ==
    ASSUME TypeOK, FramesOrdered,
           NEW at \in Times, OnTime(at), NEW v \in Verdicts, Note(at, v),
           NEW issue \in Issues, Evidenced(issue)
    PROVE  /\ Evidenced(issue)'
           /\ issue.start \in FrameTimes /\ issue.end \in FrameTimes
<1>1. issue.start \in FrameTimes /\ issue.end \in FrameTimes
  BY DEF Evidenced, FaultRun
<1>2. QED
  BY <1>1, OldRun DEF Evidenced

LEMMA ClosureKept ==
    ASSUME TypeOK, FramesOrdered,
           NEW at \in Times, OnTime(at), NEW v \in Verdicts, Note(at, v),
           NEW issue \in Issues, ClosedWhenCleared(issue),
           v \in {"OFF", "NORMAL"} => issue.status = "RECOVERED"
    PROVE  ClosedWhenCleared(issue)'
<1>1. \A f : f \in frames' <=> f \in frames \/ f = [at |-> at, verdict |-> v]
  BY DEF Note
<1>2. CASE v \notin {"OFF", "NORMAL"}
  <2>1. ClearsAfter(issue.end)' = ClearsAfter(issue.end)
    BY <1>1, <1>2 DEF ClearsAfter
  <2>2. QED
    BY <2>1 DEF ClosedWhenCleared
<1>3. CASE v \in {"OFF", "NORMAL"}
  <2> DEFINE closing == [at |-> issue.recovered, verdict |-> issue.reason]
  <2>1. closing \in ClearsAfter(issue.end)
        /\ \A f \in ClearsAfter(issue.end) : issue.recovered <= f.at
    BY <1>3 DEF ClosedWhenCleared
  <2>2. issue.recovered \in FrameTimes
    BY <2>1 DEF ClearsAfter, FrameTimes
  <2>3. issue.recovered <= at
    BY <2>2, NewFrame
  <2>4. \A f \in ClearsAfter(issue.end)' :
            f \in ClearsAfter(issue.end) \/ f.at = at
    BY <1>1 DEF ClearsAfter
  <2>5. closing \in ClearsAfter(issue.end)'
    BY <1>1, <2>1 DEF ClearsAfter
  <2>6. \A f \in ClearsAfter(issue.end)' : issue.recovered <= f.at
    BY <2>1, <2>3, <2>4
  <2>7. QED
    BY <1>3, <2>5, <2>6 DEF ClosedWhenCleared
<1>4. QED
  BY <1>2, <1>3

LEMMA IntervalStep ==
    ASSUME TypeOK, FramesOrdered, IntervalIsRun, NEW at \in Times, Qualify(at)
    PROVE  IntervalIsRun'
<1>1. PICK first : first = Start(at)
  OBVIOUS
<1>2. /\ first \in Nat /\ first <= at
      /\ FaultRun(first, at)'
      /\ Samples(at) \cup {at} = {u \in FrameTimes' : first <= u}
      /\ \A s \in FrameTimes' : FaultRun(s, at)' => first <= s
  BY <1>1, LongestRun DEF Qualify
<1>3. /\ state'.since = first /\ state'.lastAt = at /\ first # None
      /\ state'.samples = Samples(at) \cup {at}
      /\ at - first < Duration
  BY <1>1, <1>2 DEF Qualify
<1>4. FaultRun(state.since, state.lastAt)'
  BY <1>2, <1>3 DEF FaultRun, Continuous
<1>5. \A s \in FrameTimes' : FaultRun(s, state.lastAt)' => first <= s
  BY <1>2, <1>3 DEF FaultRun, Continuous
<1>6. \A u \in FrameTimes' : u <= at
  <2>1. "FAULT" \in Verdicts
    BY DEF Verdicts
  <2>2. QED
    BY <2>1, NewFrame DEF Qualify
<1>7. QED
  BY <1>2, <1>3, <1>4, <1>5 DEF IntervalIsRun

LEMMA NoInterval ==
    ASSUME TypeOK, FramesOrdered, NEW at \in Times, OnTime(at),
           NEW v \in Verdicts, v # "FAULT", Note(at, v),
           state'.since = None, state'.samples = {}, state'.lastAt = at
    PROVE  IntervalIsRun'
<1>1. ~Showed(at, "FAULT")'
  BY NewFrame
<1>2. QED
  BY <1>1 DEF IntervalIsRun

\* Every conjunct about the issues is kept by a frame that leaves them alone
\* and, if it clears the fault, finds no issue open.
LEMMA IssuesKept ==
    ASSUME IInv, NEW at \in Times, OnTime(at), NEW v \in Verdicts, Note(at, v),
           UNCHANGED issues, state'.lastAt = at, state'.issue = state.issue,
           v \in {"OFF", "NORMAL"} => state.issue = None
    PROVE  IssuesOrdered' /\ EvidenceSound' /\ RecoveryProven' /\ OneOpenIssue'
<1> USE DEF IInv
<1>0. \A i \in 1 .. Len(issues) : issues[i] \in Issues /\ i \in Int
  BY DEF TypeOK
<1>1. \A i \in 1 .. Len(issues) :
          /\ Evidenced(issues[i]) /\ issues[i].end \in FrameTimes
          /\ issues'[i] = issues[i]
  BY <1>0, EvidenceKept DEF EvidenceSound
<1>2. IssuesOrdered'
  <2>1. \A i \in 1 .. Len(issues) : issues[i].end <= at
    BY <1>1, NewFrame
  <2>2. QED
    BY <2>1 DEF IssuesOrdered
<1>3. EvidenceSound'
  <2> SUFFICES ASSUME NEW i \in 1 .. Len(issues) PROVE Evidenced(issues[i])'
    BY DEF EvidenceSound
  <2>1. PICK issue \in Issues : issue = issues[i]
    BY <1>0
  <2>2. Evidenced(issue)'
    BY <2>1, <1>1, EvidenceKept
  <2>3. QED
    BY <2>1, <2>2 DEF Evidenced, FaultRun, Continuous
<1>4. RecoveryProven'
  <2> SUFFICES ASSUME NEW i \in 1 .. Len(issues)
               PROVE  ClosedWhenCleared(issues[i])'
    BY DEF RecoveryProven
  <2>1. PICK issue \in Issues : issue = issues[i]
    BY <1>0
  <2>2. v \in {"OFF", "NORMAL"} => issue.status = "RECOVERED"
    BY <2>1, <1>0 DEF OneOpenIssue, Issues
  <2>3. ClosedWhenCleared(issue)'
    BY <2>1, <2>2, ClosureKept DEF RecoveryProven
  <2>4. QED
    BY <2>1, <2>3 DEF ClosedWhenCleared, ClearsAfter
<1>5. OneOpenIssue'
  BY DEF OneOpenIssue
<1>6. QED
  BY <1>2, <1>3, <1>4, <1>5

\* The issues before the newest are recovered, so the open one is the newest.
LEMMA OpenIsNewest ==
    ASSUME TypeOK, IssuesOrdered, OneOpenIssue, state.issue # None
    PROVE  state.issue = Len(issues) /\ issues[Len(issues)].recovered = None
<1>1. state.issue \in 1 .. Len(issues) /\ Len(issues) \in Nat
  BY DEF TypeOK
<1>2. issues[state.issue].status = "ACTIVE"
  BY <1>1 DEF OneOpenIssue
<1>3. issues[state.issue].recovered = None
  BY <1>1, <1>2 DEF IssuesOrdered
<1>4. ~(state.issue < Len(issues))
  BY <1>1, <1>3 DEF IssuesOrdered
<1>5. QED
  BY <1>1, <1>3, <1>4

LEMMA RecoverKept ==
    ASSUME IInv, NEW at \in Times, NEW v \in {"OFF", "NORMAL"}, Recover(at, v)
    PROVE  IssuesOrdered' /\ EvidenceSound' /\ RecoveryProven' /\ OneOpenIssue'
<1> USE DEF IInv
<1> DEFINE k == state.issue
<1>0. /\ OnTime(at) /\ Note(at, v) /\ v \in Verdicts
      /\ state'.lastAt = at /\ state'.issue = None
  BY DEF Recover, Cleared, Verdicts
<1>1. /\ k \in 1 .. Len(issues) /\ k = Len(issues) /\ Len(issues) \in Nat
      /\ Len(issues') = Len(issues)
      /\ \A i \in 1 .. Len(issues) :
            issues'[i] = IF i = k THEN Recovered(issues[i], at, v) ELSE issues[i]
  BY RecoverIssues, OpenIsNewest DEF Recover, TypeOK
<1>2. \A i \in 1 .. Len(issues) : issues[i] \in Issues /\ issues'[i] \in Issues
  BY <1>1, RecoverIssues DEF TypeOK
<1>3. \A i \in 1 .. Len(issues) :
          /\ Evidenced(issues[i])
          /\ issues[i].end \in FrameTimes /\ issues[i].end < at
  BY <1>0, <1>2, EvidenceKept, NewFrame DEF EvidenceSound
<1>4. \A i \in 1 .. Len(issues) :
          /\ issues'[i].start = issues[i].start
          /\ issues'[i].end = issues[i].end
          /\ issues'[i].evidence = issues[i].evidence
  <2>1. \A issue \in Issues :
           /\ Recovered(issue, at, v).start = issue.start
           /\ Recovered(issue, at, v).end = issue.end
           /\ Recovered(issue, at, v).evidence = issue.evidence
    BY DEF Recovered, Issues
  <2>2. QED
    BY <2>1, <1>1, <1>2
<1>5. /\ issues'[k].status = "RECOVERED" /\ issues'[k].recovered = at
      /\ issues'[k].reason = v
      /\ \A i \in 1 .. Len(issues) : i # k => issues'[i] = issues[i]
  <2>1. issues[k] \in Issues /\ issues'[k] = Recovered(issues[k], at, v)
    BY <1>1, <1>2
  <2>2. /\ issues'[k].status = "RECOVERED" /\ issues'[k].recovered = at
        /\ issues'[k].reason = v
    BY <2>1 DEF Recovered, Issues
  <2>3. QED
    BY <1>1, <2>2
<1>6. at \in Nat /\ at # None
  OBVIOUS
<1>7. IssuesOrdered'
  <2>1. \A i \in 1 .. Len(issues) : issues'[i].end <= at
    BY <1>2, <1>3, <1>4, <1>6 DEF Issues
  <2>2. \A i, j \in 1 .. Len(issues) : i < j =>
           issues'[i].recovered # None /\ issues'[i].recovered < issues'[j].start
    BY <1>1, <1>4, <1>5 DEF IssuesOrdered
  <2>3. \A i \in 1 .. Len(issues) :
           issues'[i].status = "RECOVERED" <=> issues'[i].recovered # None
    BY <1>1, <1>5, <1>6 DEF IssuesOrdered
  <2>4. QED
    BY <2>1, <2>2, <2>3, <1>0, <1>1 DEF IssuesOrdered
<1>8. EvidenceSound'
  <2> SUFFICES ASSUME NEW i \in 1 .. Len(issues) PROVE Evidenced(issues[i])'
    BY <1>1 DEF EvidenceSound
  <2>1. PICK issue \in Issues : issue = issues[i]
    BY <1>2
  <2>2. Evidenced(issue)'
    BY <2>1, <1>0, <1>3, EvidenceKept
  <2>3. QED
    BY <2>1, <2>2, <1>4 DEF Evidenced, FaultRun, Continuous
<1>9. RecoveryProven'
  <2> SUFFICES ASSUME NEW i \in 1 .. Len(issues)
               PROVE  ClosedWhenCleared(issues[i])'
    BY <1>1 DEF RecoveryProven
  <2>1. CASE i # k
    <3>1. PICK issue \in Issues : issue = issues[i]
      BY <1>2
    <3>2. issue.status = "RECOVERED"
      BY <3>1, <2>1 DEF OneOpenIssue, Issues
    <3>3. ClosedWhenCleared(issue)'
      BY <3>1, <3>2, <1>0, ClosureKept DEF RecoveryProven
    <3>4. QED
      BY <3>1, <3>3, <2>1, <1>5 DEF ClosedWhenCleared, ClearsAfter
  <2>2. CASE i = k
    <3> DEFINE closing == [at |-> at, verdict |-> v]
    <3>1. ClearsAfter(issues[k].end) = {}
      BY <1>1 DEF RecoveryProven, ClosedWhenCleared, OneOpenIssue
    <3>2. \A f : f \in frames' <=> f \in frames \/ f = closing
      BY <1>0 DEF Note
    <3>3. issues[k].end < at
      BY <1>1, <1>3
    <3>4. PICK t : t = issues'[k].end
      OBVIOUS
    <3>5. ClearsAfter(t)' = {closing}
      BY <3>1, <3>2, <3>3, <3>4, <1>1, <1>4 DEF ClearsAfter
    <3>6. \A f \in ClearsAfter(t)' : at <= f.at
      BY <3>5, <1>6
    <3>7. closing \in ClearsAfter(t)'
      BY <3>5
    <3>8. QED
      BY <3>4, <3>6, <3>7, <2>2, <1>5 DEF ClosedWhenCleared, ClearsAfter
  <2>3. QED
    BY <2>1, <2>2
<1>10. OneOpenIssue'
  <2> SUFFICES ASSUME NEW i \in 1 .. Len(issues)
               PROVE  issues'[i].status # "ACTIVE" /\ i # None
    BY <1>0, <1>1 DEF OneOpenIssue
  <2>1. CASE i = k
    BY <2>1, <1>5
  <2>2. CASE i # k
    BY <2>2, <1>5 DEF OneOpenIssue
  <2>3. QED
    BY <2>1, <2>2
<1>11. QED
  BY <1>7, <1>8, <1>9, <1>10

LEMMA TriggerKept ==
    ASSUME IInv, NEW at \in Times, Trigger(at)
    PROVE  IssuesOrdered' /\ EvidenceSound' /\ RecoveryProven' /\ OneOpenIssue'
<1> USE DEF IInv
<1> DEFINE n == Len(issues)
<1>0. /\ OnTime(at) /\ Note(at, "FAULT") /\ "FAULT" \in Verdicts
      /\ state.issue = None /\ state'.lastAt = at /\ state'.issue = n + 1
      /\ at - Start(at) >= Duration
  BY DEF Trigger, Verdicts
<1>1. /\ n \in Nat /\ Len(issues') = n + 1
      /\ \A i \in 1 .. n : issues'[i] = issues[i] /\ issues[i] \in Issues
      /\ issues'[n + 1] = Opened(at)
      /\ 1 .. n + 1 = 1 .. n \cup {n + 1}
  BY TriggerIssues DEF TypeOK
<1>2. PICK first : first = Start(at)
  OBVIOUS
<1>3. /\ first \in Nat /\ first <= at
      /\ FaultRun(first, at)'
      /\ Samples(at) \cup {at} = {u \in FrameTimes' : first <= u}
      /\ \A u \in FrameTimes : first <= u => u - first < Duration
  BY <1>0, <1>2, LongestRun
<1>4. /\ issues'[n + 1].start = first /\ issues'[n + 1].end = at
      /\ issues'[n + 1].evidence = Samples(at) \cup {at}
      /\ issues'[n + 1].status = "ACTIVE" /\ issues'[n + 1].recovered = None
  BY <1>1, <1>2 DEF Opened
<1>5. \A i \in 1 .. n : issues[i].status = "RECOVERED" /\ i # n + 1
  BY <1>0, <1>1 DEF OneOpenIssue, Issues
<1>6. \A i \in 1 .. n :
          /\ Evidenced(issues[i])
          /\ issues[i].end \in FrameTimes /\ issues[i].end < at
  BY <1>0, <1>1, EvidenceKept, NewFrame DEF EvidenceSound
<1>7. \A i \in 1 .. n :
          /\ issues[i].recovered # None
          /\ Showed(issues[i].recovered, issues[i].reason)
          /\ issues[i].reason \in {"OFF", "NORMAL"}
          /\ issues[i].recovered \in FrameTimes
  BY <1>5 DEF IssuesOrdered, RecoveryProven, ClosedWhenCleared, ClearsAfter,
              Showed, FrameTimes
<1>8. \A i \in 1 .. n : issues[i].recovered < first
  <2> SUFFICES ASSUME NEW i \in 1 .. n, ~(issues[i].recovered < first)
               PROVE  FALSE
    OBVIOUS
  <2> DEFINE u == issues[i].recovered
  <2>1. u \in FrameTimes /\ u \in Nat /\ u < at /\ first <= u
    <3>1. u \in FrameTimes
      BY <1>7
    <3>2. u \in Nat /\ u < at
      BY <3>1, <1>0, NewFrame
    <3>3. QED
      BY <3>1, <3>2, <1>3
  <2>2. Showed(u, "FAULT")
    <3>1. PICK t : t = u
      OBVIOUS
    <3>2. t \in FrameTimes' /\ first <= t /\ t <= at /\ t # at
      <4>1. at \in Nat /\ FrameTimes' = FrameTimes \cup {at}
        BY <1>0, NewFrame
      <4>2. t \in FrameTimes /\ t \in Nat /\ t < at /\ first <= t
        BY <3>1, <2>1
      <4>3. QED
        BY <4>1, <4>2
    <3>3. Showed(t, "FAULT")'
      BY <3>2, <1>3 DEF FaultRun
    <3>4. Showed(t, "FAULT")
      BY <3>2, <3>3, <1>0, NewFrame
    <3>5. QED
      BY <3>1, <3>4
  <2>3. QED
    BY <2>2, <1>7 DEF Showed, FramesOrdered
<1>9. IssuesOrdered'
  <2>1. ASSUME NEW i \in 1 .. n + 1 PROVE issues'[i].end <= at
    <3>1. at \in Nat /\ FrameTimes \subseteq Nat
      BY <1>0, NewFrame
    <3>2. CASE i \in 1 .. n
      <4>1. issues'[i] = issues[i] /\ issues[i].end \in FrameTimes
            /\ issues[i].end < at
        BY <3>2, <1>1, <1>6
      <4>2. issues[i].end \in Nat
        BY <3>1, <4>1
      <4>3. issues[i].end <= at
        BY <3>1, <4>1, <4>2
      <4>4. QED
        BY <4>1, <4>3
    <3>3. CASE i = n + 1
      BY <3>1, <3>3, <1>4
    <3>4. QED
      BY <3>2, <3>3, <1>1
  <2>2. ASSUME NEW i \in 1 .. n + 1, NEW j \in 1 .. n + 1, i < j
        PROVE  issues'[i].recovered # None
               /\ issues'[i].recovered < issues'[j].start
    <3>1. i \in 1 .. n
      BY <2>2, <1>1
    <3>2. CASE j \in 1 .. n
      BY <2>2, <3>1, <3>2, <1>1 DEF IssuesOrdered
    <3>3. CASE j = n + 1
      BY <3>1, <3>3, <1>1, <1>4, <1>7, <1>8
    <3>4. QED
      BY <3>2, <3>3, <1>1
  <2>3. \A i \in 1 .. n + 1 :
           issues'[i].status = "RECOVERED" <=> issues'[i].recovered # None
    BY <1>1, <1>4, <1>5, <1>7
  <2>4. QED
    BY <2>1, <2>2, <2>3, <1>0, <1>1 DEF IssuesOrdered
<1>10. EvidenceSound'
  <2> SUFFICES ASSUME NEW i \in 1 .. n + 1 PROVE Evidenced(issues[i])'
    BY <1>1 DEF EvidenceSound
  <2>1. CASE i \in 1 .. n
    <3>1. PICK issue \in Issues : issue = issues[i]
      BY <1>1, <2>1
    <3>2. Evidenced(issue)'
      BY <3>1, <2>1, <1>0, <1>6, EvidenceKept
    <3>3. QED
      BY <3>1, <3>2, <2>1, <1>1
  <2>2. CASE i = n + 1
    <3>1. /\ issues'[i].start = first /\ issues'[i].end = at
          /\ issues'[i].evidence = {u \in FrameTimes' : first <= u}
      BY <2>2, <1>3, <1>4
    <3>2. \A u \in FrameTimes' : u <= at
      BY <1>0, NewFrame
    <3>3. issues'[i].evidence = {u \in FrameTimes' : first <= u /\ u <= at}
      BY <3>1, <3>2
    <3>4. \A u \in issues'[i].evidence \ {at} : u - first < Duration
      BY <3>1, <1>0, <1>3, NewFrame
    <3>5. PICK issue : issue = issues'[i]
      OBVIOUS
    <3>6. FaultRun(issue.start, issue.end)'
      BY <3>1, <3>5, <1>3
    <3>7. Evidenced(issue)'
      BY <3>1, <3>3, <3>4, <3>5, <3>6, <1>0, <1>2 DEF Evidenced
    <3>8. QED
      BY <3>5, <3>7
  <2>3. QED
    BY <2>1, <2>2, <1>1
<1>11. RecoveryProven'
  <2> SUFFICES ASSUME NEW i \in 1 .. n + 1
               PROVE  ClosedWhenCleared(issues[i])'
    BY <1>1 DEF RecoveryProven
  <2>1. CASE i \in 1 .. n
    <3>1. PICK issue \in Issues : issue = issues[i]
      BY <1>1, <2>1
    <3>2. ClosedWhenCleared(issue)'
      BY <3>1, <2>1, <1>0, ClosureKept DEF RecoveryProven
    <3>3. QED
      BY <3>1, <3>2, <2>1, <1>1
  <2>2. CASE i = n + 1
    <3>1. \A f \in frames' : ~(f.at > at)
      <4>1. \A f \in frames' : f.at \in FrameTimes'
        BY DEF FrameTimes
      <4>2. QED
        BY <4>1, <1>0, NewFrame
    <3>2. ClearsAfter(at)' = {}
      BY <3>1 DEF ClearsAfter
    <3>3. QED
      BY <2>2, <3>2, <1>4 DEF ClosedWhenCleared, ClearsAfter
  <2>3. QED
    BY <2>1, <2>2, <1>1
<1>12. OneOpenIssue'
  BY <1>0, <1>1, <1>4, <1>5 DEF OneOpenIssue
<1>13. QED
  BY <1>9, <1>10, <1>11, <1>12

-------------------------------------------------------------------------------
(* The inductive invariant and what follows from it. *)

LEMMA InvInit == Init => IInv
<1> SUFFICES ASSUME Init PROVE IInv
  OBVIOUS
<1>1. TypeOK
  BY TypeInit
<1>2. issues = <<>> /\ Len(issues) = 0 /\ 1 .. Len(issues) = {}
  BY DEF Init
<1>3. QED
  BY <1>1, <1>2
     DEF Init, IInv, FramesOrdered, IntervalIsRun, IssuesOrdered, EvidenceSound,
         RecoveryProven, OneOpenIssue

LEMMA InvStep == IInv /\ [Next]_vars => IInv'
<1> SUFFICES ASSUME IInv, [Next]_vars PROVE IInv'
  OBVIOUS
<1>0. TypeOK /\ TypeOK' /\ FramesOrdered /\ IntervalIsRun
  BY TypeStep DEF IInv
<1>1. CASE UNCHANGED vars
  BY <1>0, <1>1
     DEF vars, IInv, FramesOrdered, IntervalIsRun, IssuesOrdered, EvidenceSound,
         RecoveryProven, OneOpenIssue, FaultRun, Continuous, FrameTimes, Showed,
         Evidenced, ClosedWhenCleared, ClearsAfter
<1>2. ASSUME NEW at \in Times, Insufficient(at) PROVE IInv'
  <2>1. /\ OnTime(at) /\ Note(at, "INSUFFICIENT") /\ "INSUFFICIENT" \in Verdicts
        /\ UNCHANGED issues /\ state'.lastAt = at /\ state'.issue = state.issue
        /\ state'.since = None /\ state'.samples = {}
    BY <1>2 DEF Insufficient, Verdicts
  <2>2. FramesOrdered' /\ IntervalIsRun'
    BY <2>1, <1>0, FramesStep, NoInterval
  <2>3. QED
    BY <2>1, <2>2, <1>0, IssuesKept DEF IInv
<1>3. ASSUME NEW at \in Times, NEW v \in {"OFF", "NORMAL"}, Normal(at, v)
      PROVE  IInv'
  <2>1. /\ OnTime(at) /\ Note(at, v) /\ v \in Verdicts /\ v # "FAULT"
        /\ UNCHANGED issues /\ state'.lastAt = at /\ state'.issue = None
        /\ state.issue = None /\ state'.since = None /\ state'.samples = {}
    BY <1>3 DEF Normal, Cleared, Verdicts
  <2>2. FramesOrdered' /\ IntervalIsRun'
    BY <2>1, <1>0, FramesStep, NoInterval
  <2>3. QED
    BY <2>1, <2>2, <1>0, IssuesKept DEF IInv
<1>4. ASSUME NEW at \in Times, NEW v \in {"OFF", "NORMAL"}, Recover(at, v)
      PROVE  IInv'
  <2>1. /\ OnTime(at) /\ Note(at, v) /\ v \in Verdicts /\ v # "FAULT"
        /\ state'.lastAt = at /\ state'.since = None /\ state'.samples = {}
    BY <1>4 DEF Recover, Cleared, Verdicts
  <2>2. FramesOrdered' /\ IntervalIsRun'
    BY <2>1, <1>0, FramesStep, NoInterval
  <2>3. QED
    BY <1>4, <2>2, <1>0, RecoverKept DEF IInv
<1>5. ASSUME NEW at \in Times, StayActive(at) PROVE IInv'
  <2>1. /\ OnTime(at) /\ Note(at, "FAULT") /\ "FAULT" \in Verdicts
        /\ UNCHANGED issues /\ state'.lastAt = at /\ state'.issue = state.issue
        /\ state.issue # None
    BY <1>5 DEF StayActive, Verdicts
  <2>2. FramesOrdered' /\ IntervalIsRun'
    BY <2>1, <1>0, FramesStep DEF IntervalIsRun
  <2>3. QED
    BY <2>1, <2>2, <1>0, IssuesKept DEF IInv
<1>6. ASSUME NEW at \in Times, Qualify(at) PROVE IInv'
  <2>1. /\ OnTime(at) /\ Note(at, "FAULT") /\ "FAULT" \in Verdicts
        /\ UNCHANGED issues /\ state'.lastAt = at /\ state'.issue = state.issue
    BY <1>6 DEF Qualify, Verdicts
  <2>2. FramesOrdered' /\ IntervalIsRun'
    BY <2>1, <1>0, <1>6, FramesStep, IntervalStep
  <2>3. QED
    BY <2>1, <2>2, <1>0, IssuesKept DEF IInv
<1>7. ASSUME NEW at \in Times, Trigger(at) PROVE IInv'
  <2>1. /\ OnTime(at) /\ Note(at, "FAULT") /\ "FAULT" \in Verdicts
        /\ state'.lastAt = at /\ state'.issue # None
    BY <1>7, <1>0, TriggerIssues DEF Trigger, Verdicts
  <2>2. FramesOrdered' /\ IntervalIsRun'
    BY <2>1, <1>0, FramesStep DEF IntervalIsRun
  <2>3. QED
    BY <1>7, <2>2, <1>0, TriggerKept DEF IInv
<1>8. QED
  BY <1>1, <1>2, <1>3, <1>4, <1>5, <1>6, <1>7, StepCases

LEMMA InvImpliesNoMissedFault == IInv => NoMissedFault
<1> SUFFICES ASSUME IInv, NEW s \in FrameTimes, FaultRun(s, state.lastAt),
                    state.lastAt - s >= Duration, state.issue = None
             PROVE  FALSE
  BY DEF NoMissedFault
<1>1. state.lastAt \in FrameTimes /\ Showed(state.lastAt, "FAULT")
  BY DEF FaultRun
<1>2. s \in Nat /\ state.lastAt \in Nat
  BY <1>1 DEF IInv, TypeOK, FrameTimes
<1>3. state.since # None
  BY <1>1, <1>2 DEF IInv, IntervalIsRun
<1>4. state.since <= s /\ state.lastAt - state.since < Duration
      /\ state.since \in Nat
  BY <1>3 DEF IInv, IntervalIsRun, TypeOK
<1>5. QED
  BY <1>2, <1>4

\* The inductive invariant holds.
THEOREM Invariant == Spec => []IInv
BY InvInit, InvStep, PTL DEF Spec

\* The evidence of every issue is complete, gapless, trusted, long enough and no
\* longer than it must be, whatever late, missing or bad observations came
\* in between.
THEOREM EvidenceIsSound == Spec => []EvidenceSound
<1>1. IInv => EvidenceSound
  BY DEF IInv
<1>2. QED
  BY <1>1, Invariant, PTL

\* An issue is closed by the first trusted frame that clears it and no other.
THEOREM RecoveryIsProven == Spec => []RecoveryProven
<1>1. IInv => RecoveryProven
  BY DEF IInv
<1>2. QED
  BY <1>1, Invariant, PTL

\* The row points at the only open issue, or no issue is open.
THEOREM OneIssueOpen == Spec => []OneOpenIssue
<1>1. IInv => OneOpenIssue
  BY DEF IInv
<1>2. QED
  BY <1>1, Invariant, PTL

\* While no issue is open, `since` and `samples` of the row are exactly the fault
\* run that the last frame ends, whatever gap, recovery or late frame came before.
THEOREM RowIsTheRun == Spec => []IntervalIsRun
<1>1. IInv => IntervalIsRun
  BY DEF IInv
<1>2. QED
  BY <1>1, Invariant, PTL

\* A fault that lasts the duration in the frames always has an open issue.
THEOREM NoFaultMissed == Spec => []NoMissedFault
BY InvImpliesNoMissedFault, Invariant, PTL

-------------------------------------------------------------------------------
(* The state machine implements IssueLedger. *)

Entry(issue) ==
    [start |-> issue.start, end |-> issue.end, closed |-> issue.recovered]

Entries == [start : Nat, end : Nat, closed : Nat \cup {None}]

LEMMA LedgerOfRows ==
    ASSUME NEW rows \in Seq(Issues)
    PROVE  /\ LedgerOf(rows) = [i \in 1 .. Len(rows) |-> Entry(rows[i])]
           /\ LedgerOf(rows) \in Seq(Entries)
           /\ Len(LedgerOf(rows)) = Len(rows)
           /\ \A i \in 1 .. Len(rows) : LedgerOf(rows)[i] = Entry(rows[i])
<1>1. Len(rows) \in Nat /\ \A i \in 1 .. Len(rows) : rows[i] \in Issues
  OBVIOUS
<1>2. \A i \in 1 .. Len(rows) : Entry(rows[i]) \in Entries
  BY <1>1 DEF Entry, Issues, Entries
<1>3. LedgerOf(rows) = [i \in 1 .. Len(rows) |-> Entry(rows[i])]
  BY DEF LedgerOf, Entry
<1>4. [i \in 1 .. Len(rows) |-> Entry(rows[i])] \in [1 .. Len(rows) -> Entries]
  BY <1>2
<1>5. LedgerOf(rows) \in Seq(Entries) /\ Len(LedgerOf(rows)) = Len(rows)
  BY <1>1, <1>3, <1>4
<1>6. QED
  BY <1>3, <1>5

LEMMA LedgerInit == Init => Ledger!Init
<1> SUFFICES ASSUME Init PROVE Ledger!Init
  OBVIOUS
<1>1. issues \in Seq(Issues) /\ Len(issues) = 0
  BY TypeInit DEF Init, TypeOK
<1>2. LedgerOf(issues) \in Seq(Entries) /\ Len(LedgerOf(issues)) = 0
  BY <1>1, LedgerOfRows
<1>3. LedgerOf(issues) = <<>>
  BY <1>2, EmptySeq
<1>4. QED
  BY <1>3 DEF Ledger!Init

\* A recovery closes the last entry.
LEMMA RecoverCloses ==
    ASSUME IInv, NEW at \in Times, NEW v \in {"OFF", "NORMAL"}, Recover(at, v)
    PROVE  Ledger!Close(at)
<1> DEFINE k == Len(issues)
           L == LedgerOf(issues)
           M == LedgerOf(issues')
<1>0. TypeOK /\ issues \in Seq(Issues)
  BY DEF IInv, TypeOK
<1>1. /\ k = state.issue /\ k \in 1 .. k /\ issues[k].recovered = None
      /\ issues' \in Seq(Issues) /\ Len(issues') = k
      /\ \A i \in 1 .. k :
            issues'[i] = IF i = k THEN Recovered(issues[i], at, v) ELSE issues[i]
  <2>1. /\ state.issue \in 1 .. Len(issues) /\ Len(issues') = Len(issues)
        /\ issues' \in Seq(Issues)
        /\ \A i \in 1 .. Len(issues) :
              issues'[i] = IF i = state.issue THEN Recovered(issues[i], at, v)
                           ELSE issues[i]
    BY <1>0, RecoverIssues
  <2>2. state.issue = Len(issues) /\ issues[Len(issues)].recovered = None
    BY <1>0, OpenIsNewest DEF Recover, IInv
  <2>3. QED
    BY <2>1, <2>2
<1>2. issues[k] \in Issues
  BY <1>0, <1>1
<1>3. issues[k].end < at
  <2>1. OnTime(at) /\ Note(at, v) /\ v \in Verdicts
    BY DEF Recover, Verdicts
  <2>2. issues[k].end \in FrameTimes
    BY <1>1, <1>2, <2>1, EvidenceKept DEF EvidenceSound, IInv
  <2>3. QED
    BY <2>1, <2>2, NewFrame DEF IInv
<1>4. Entry(issues'[k]) = [Entry(issues[k]) EXCEPT !.closed = at]
  <2>1. issues'[k] = Recovered(issues[k], at, v)
    BY <1>1
  <2>2. QED
    BY <2>1, <1>2 DEF Entry, Recovered, Issues
<1>5. /\ L = [i \in 1 .. k |-> Entry(issues[i])] /\ Len(L) = k
      /\ M = [i \in 1 .. k |-> Entry(issues'[i])]
  BY <1>0, <1>1, LedgerOfRows
<1>6. \A i \in 1 .. k : i # k => Entry(issues'[i]) = Entry(issues[i])
  BY <1>1
<1> HIDE DEF k, L, M
<1>7. M = [L EXCEPT ![k].closed = at]
  BY <1>1, <1>4, <1>5, <1>6
<1>8. L # <<>> /\ L[k].closed = None /\ L[k].end < at
  BY <1>1, <1>3, <1>5 DEF Entry
<1>9. QED
  BY <1>5, <1>7, <1>8 DEF Ledger!Close, Ledger!Last, L, M

\* A trigger opens an entry after the last one.
LEMMA TriggerOpens ==
    ASSUME IInv, IInv', NEW at \in Times, Trigger(at)
    PROVE  \E start, end \in Times : Ledger!Open(start, end)
<1> DEFINE n == Len(issues)
           L == LedgerOf(issues)
           M == LedgerOf(issues')
           first == Start(at)
<1>0. TypeOK /\ issues \in Seq(Issues) /\ n \in Nat
  BY DEF IInv, TypeOK
<1>1. /\ issues' \in Seq(Issues) /\ Len(issues') = n + 1
      /\ \A i \in 1 .. n : issues'[i] = issues[i]
      /\ issues'[n + 1] = Opened(at)
  BY <1>0, TriggerIssues
<1>2. issues'[n + 1].start = first /\ issues'[n + 1].end = at
      /\ issues'[n + 1].recovered = None
  BY <1>1 DEF Opened
<1>3. first \in Times /\ at - first >= Duration
  <2>0. PICK m : m = n + 1
    OBVIOUS
  <2>1. Evidenced(issues[m])'
    BY <2>0, <1>0, <1>1 DEF IInv, EvidenceSound
  <2>2. first \in FrameTimes'
    BY <2>0, <2>1, <1>2 DEF Evidenced, FaultRun
  <2>3. FrameTimes' \subseteq Times
    BY DEF IInv, FramesOrdered, FrameTimes
  <2>4. QED
    BY <2>2, <2>3 DEF Trigger
<1>4. n # 0 => issues[n].recovered # None /\ issues[n].recovered < first
  <2> SUFFICES ASSUME n # 0
               PROVE  issues[n].recovered # None /\ issues[n].recovered < first
    OBVIOUS
  <2>1. n \in 1 .. n + 1 /\ n + 1 \in 1 .. n + 1 /\ n < n + 1 /\ n \in 1 .. n
    BY <1>0
  <2>2. IssuesOrdered'
    BY DEF IInv
  <2>3. issues'[n].recovered # None /\ issues'[n].recovered < issues'[n + 1].start
    BY <2>1, <2>2, <1>1 DEF IssuesOrdered
  <2>4. QED
    BY <2>1, <2>3, <1>1, <1>2
<1>5. /\ L = [i \in 1 .. n |-> Entry(issues[i])] /\ Len(L) = n
      /\ L \in Seq(Entries)
      /\ M = [i \in 1 .. n + 1 |-> Entry(issues'[i])]
      /\ M \in Seq(Entries) /\ Len(M) = n + 1
  BY <1>0, <1>1, LedgerOfRows
<1>6. Entry(issues'[n + 1]) = [start |-> first, end |-> at, closed |-> None]
  BY <1>2 DEF Entry
<1> DEFINE e == [start |-> first, end |-> at, closed |-> None]
<1>7. e \in Entries
  BY <1>0, <1>3 DEF Entries
<1> HIDE DEF n, L, M, first
<1>8. M = Append(L, e)
  <2>1. Append(L, e) \in Seq(Entries) /\ Len(Append(L, e)) = n + 1
        /\ \A i \in 1 .. n + 1 :
              Append(L, e)[i] = IF i = n + 1 THEN e ELSE L[i]
    BY <1>0, <1>5, <1>7
  <2>2. \A i \in 1 .. n + 1 : M[i] = IF i = n + 1 THEN e ELSE L[i]
    BY <1>0, <1>1, <1>5, <1>6
  <2> HIDE DEF e
  <2>3. QED
    BY <2>1, <2>2, <1>5, SeqEqual
<1>9. L # <<>> => L[n].closed # None /\ L[n].closed < first
  BY <1>0, <1>4, <1>5 DEF Entry
<1>10. Ledger!Open(first, at)
  BY <1>3, <1>5, <1>8, <1>9 DEF Ledger!Open, Ledger!Last, L, M
<1>11. QED
  BY <1>3, <1>10

LEMMA LedgerStep ==
    IInv /\ IInv' /\ [Next]_vars => [Ledger!Next]_(LedgerOf(issues))
<1> SUFFICES ASSUME IInv, IInv', [Next]_vars
             PROVE  Ledger!Next \/ LedgerOf(issues)' = LedgerOf(issues)
  OBVIOUS
<1>1. CASE UNCHANGED issues
  BY <1>1 DEF LedgerOf
<1>2. ASSUME NEW at \in Times, NEW v \in {"OFF", "NORMAL"}, Recover(at, v)
      PROVE  Ledger!Next
  BY <1>2, RecoverCloses DEF Ledger!Next
<1>3. ASSUME NEW at \in Times, Trigger(at) PROVE Ledger!Next
  BY <1>3, TriggerOpens DEF Ledger!Next
<1>4. QED
  BY <1>1, <1>2, <1>3, StepCases
     DEF vars, Insufficient, Normal, StayActive, Qualify

\* Whatever frames arrive and in whatever order, the issues of one equipment
\* are a ledger of disjoint intervals, each at least as long as the duration.
THEOREM ImplementsLedger == Spec => LedgerSpec
<1>1. Init /\ [][Next]_vars /\ []IInv => Ledger!Init /\ [][Ledger!Next]_(LedgerOf(issues))
  BY LedgerInit, LedgerStep, PTL
<1>2. QED
  BY <1>1, Invariant, PTL DEF Spec, LedgerSpec, Ledger!Spec
===============================================================================
