----------------------------- MODULE ReviewProofs ----------------------------
(***************************************************************************)
(* What the dashboard shows, for any versions, configurations and calls:   *)
(* the workspace only goes forward, what is confirmed is what is on the    *)
(* screen, and what is activated is what was confirmed.                    *)
(***************************************************************************)
EXTENDS Review, TLAPS

\* A table of versions, as the service has it and as a refresh brings it.
Table(t) ==
    /\ t = [v \in DOMAIN t |-> t[v]]
    /\ \A v \in DOMAIN t :
          /\ t[v] = [config |-> t[v].config, status |-> t[v].status]
          /\ t[v].status \in Statuses

Later(s, t) == s = t \/ <<s, t>> \in Forward

\* t is the table s, or what became of it: a version keeps its configuration.
Behind(s, t) ==
    /\ DOMAIN s \subseteq DOMAIN t
    /\ \A v \in DOMAIN s :
          Later(s[v].status, t[v].status) /\ s[v].config = t[v].config

\* What a refresh has read lies between the snapshot and the service.
Between(r) == r.read # None =>
    Table(r.read) /\ Behind(snapshot, r.read) /\ Behind(r.read, versions)

\* One refresh at most is under way.
RefreshOK ==
    /\ \A r, other \in requests : r = other
    /\ \A r \in requests : r = [by |-> r.by, read |-> r.read] /\ Between(r)

IInv ==
    /\ Table(versions) /\ Table(snapshot) /\ Behind(snapshot, versions)
    /\ RefreshOK

-------------------------------------------------------------------------------

\* What became of what a table became is what became of the table.
LEMMA BehindTransitive ==
    ASSUME NEW s, NEW t, NEW u, Behind(s, t), Behind(t, u)
    PROVE  Behind(s, u)
  BY DEF Behind, Later, Forward

\* A table is what became of itself.
LEMMA BehindItself == \A t : Behind(t, t)
  BY DEF Behind, Later

\* A new version is a step forward (rules.py:53-69; ai.py:120-166).
LEMMA WithForward ==
    ASSUME Table(versions), NEW v, v \notin DOMAIN versions, NEW c
    PROVE  Table(With(v, Draft(c))) /\ Behind(versions, With(v, Draft(c)))
  BY DEF Table, Behind, Later, With, Draft, Statuses

\* The status of a version that is a draft may become active, and the status of
\* any version may become disabled.
LEMMA StatusForward ==
    ASSUME Table(versions), NEW v, NEW s \in {"ACTIVE", "DISABLED"},
           s = "ACTIVE" => v \in DOMAIN versions /\ versions[v].status = "DRAFT"
    PROVE  LET next == [versions EXCEPT ![v].status = s]
           IN  Table(next) /\ Behind(versions, next)
  <1> DEFINE next == [versions EXCEPT ![v].status = s]
  <1>1. /\ next = [w \in DOMAIN next |-> next[w]]
        /\ DOMAIN next = DOMAIN versions
    BY DEF Table
  <1>2. ASSUME NEW w \in DOMAIN versions
        PROVE  /\ next[w] = [config |-> next[w].config, status |-> next[w].status]
               /\ next[w].status \in Statuses
               /\ Later(versions[w].status, next[w].status)
               /\ versions[w].config = next[w].config
    <2>1. /\ versions[w] = [config |-> versions[w].config, status |-> versions[w].status]
          /\ versions[w].status \in Statuses
      BY DEF Table
    <2>2. CASE w = v
      <3>1. next[w] = [versions[w] EXCEPT !.status = s]
        BY <2>2, <1>1 DEF Table
      <3>2. next[w] = [config |-> versions[w].config, status |-> s]
        BY <3>1, <2>1
      <3> QED BY <3>2, <2>1, <2>2 DEF Later, Forward, Statuses
    <2>3. CASE w # v
      BY <2>3, <2>1, <1>1 DEF Table, Later
    <2> QED BY <2>2, <2>3
  <1> QED BY <1>1, <1>2 DEF Table, Behind

\* Whatever the service does takes its versions forward.
LEMMA ServiceForward ==
    ASSUME Table(versions), Serve \/ (\E v \in DOMAIN versions : Elsewhere(v))
    PROVE  Table(versions') /\ Behind(versions, versions')
  <1>1. CASE UNCHANGED versions
    BY <1>1, BehindItself
  <1>2. ASSUME NEW v \in Versions \ DOMAIN versions, NEW c, versions' = With(v, Draft(c))
        PROVE  Table(versions') /\ Behind(versions, versions')
    BY <1>2, WithForward
  <1>3. ASSUME NEW v, versions[v].status = "DRAFT", v \in DOMAIN versions,
               versions' = [versions EXCEPT ![v].status = "ACTIVE"]
        PROVE  Table(versions') /\ Behind(versions, versions')
    BY <1>3, StatusForward
  <1>4. ASSUME NEW v, versions' = [versions EXCEPT ![v].status = "DISABLED"]
        PROVE  Table(versions') /\ Behind(versions, versions')
    BY <1>4, StatusForward
  <1>5. ASSUME NEW v, v \notin DOMAIN versions, 
               versions' = [versions EXCEPT ![v].status = "ACTIVE"]
        PROVE  Table(versions') /\ Behind(versions, versions')
    <2>1. versions' = versions
      BY <1>5 DEF Table
    <2> QED BY <2>1, BehindItself
  <1>6. CASE Serve
    BY <1>6, <1>1, <1>2, <1>3, <1>4, <1>5 DEF Serve, MayActivate
  <1>7. CASE \E v \in DOMAIN versions : Elsewhere(v)
    BY <1>7, <1>3 DEF Elsewhere
  <1> QED BY <1>6, <1>7

\* A refresh that begins takes the place of the others (useWorkspaceData.ts:41-50).
LEMMA BegunOK ==
    ASSUME NEW by, requests' = Begun(by), IInv, UNCHANGED <<versions, snapshot>>
    PROVE  IInv'
  BY DEF IInv, RefreshOK, Between, Begun, Table, Behind

\* The invariant goes through the steps of the service.
LEMMA ServiceOK ==
    ASSUME IInv, Serve \/ (\E v \in DOMAIN versions : Elsewhere(v))
    PROVE  IInv'
  <1>1. Table(versions') /\ Behind(versions, versions')
    BY ServiceForward DEF IInv
  <1>2. UNCHANGED <<snapshot, requests>>
    BY DEF Serve, Elsewhere
  <1>3. Behind(snapshot, versions')
    BY <1>1, BehindTransitive DEF IInv
  <1>4. ASSUME NEW r \in requests, r.read # None
        PROVE  Behind(r.read, versions')
    BY <1>1, <1>4, BehindTransitive DEF IInv, RefreshOK, Between
  <1>5. RefreshOK'
    <2>1. requests' = requests
      BY <1>2
    <2>2. ASSUME NEW r \in requests, r.read # None
          PROVE  Table(r.read) /\ Behind(snapshot', r.read) /\ Behind(r.read, versions')
      BY <1>2, <1>4, <2>2 DEF IInv, RefreshOK, Between
    <2> QED BY <2>1, <2>2 DEF IInv, RefreshOK, Between, Table, Behind
  <1>6. Table(snapshot') /\ Behind(snapshot', versions')
    BY <1>2, <1>3 DEF IInv
  <1> QED BY <1>1, <1>5, <1>6 DEF IInv, Table, Behind

\* The invariant goes through the answer of the service to a refresh.
LEMMA ReadOK ==
    ASSUME IInv, NEW r \in requests, Read(r)
    PROVE  IInv'
  <1>1. r = [by |-> r.by, read |-> r.read] /\ requests = {r}
    BY DEF IInv, RefreshOK
  <1>2. requests' = {[by |-> r.by, read |-> versions]}
    BY <1>1 DEF Read
  <1>3. UNCHANGED <<versions, snapshot>>
    BY DEF Read
  <1> QED BY <1>2, <1>3, BehindItself DEF IInv, RefreshOK, Between, Table, Behind

\* The invariant goes through the arrival of a refresh (useWorkspaceData.ts:51-77).
LEMMA LoadOK ==
    ASSUME IInv, NEW r \in requests, Load(r)
    PROVE  IInv' /\ Behind(snapshot, snapshot')
  <1>1. requests' = {}
    BY DEF IInv, RefreshOK, Load
  <1>2. Table(r.read) /\ Behind(snapshot, r.read) /\ Behind(r.read, versions)
    BY DEF IInv, RefreshOK, Between, Load
  <1> QED BY <1>1, <1>2 DEF IInv, RefreshOK, Load, Table, Behind

\* A refresh that fails leaves all as it was.
LEMMA FailOK ==
    ASSUME IInv, NEW r \in requests, Fail(r)
    PROVE  IInv'
  BY DEF Fail, IInv, RefreshOK, Between, Table, Behind

\* Every step keeps the invariant and takes the snapshot forward.
LEMMA StepOK ==
    ASSUME IInv, [Next]_vars
    PROVE  IInv' /\ Behind(snapshot, snapshot')
  <1>1. ASSUME UNCHANGED <<versions, snapshot, requests>>
        PROVE  IInv' /\ Behind(snapshot, snapshot')
    BY <1>1, BehindItself DEF IInv, RefreshOK, Between, Table, Behind
  <1>2. ASSUME NEW by, requests' = Begun(by), UNCHANGED <<versions, snapshot>>
        PROVE  IInv' /\ Behind(snapshot, snapshot')
    BY <1>2, BegunOK, BehindItself
  <1>3. CASE Person
    <2>1. UNCHANGED <<versions, snapshot, requests>>
      BY <1>3 DEF Person, Open, ReviewDraft, Edit, Tick, Click
    <2> QED BY <2>1, <1>1
  <1>4. CASE Serve \/ (\E v \in DOMAIN versions : Elsewhere(v))
    <2>1. UNCHANGED snapshot
      BY <1>4 DEF Serve, Elsewhere
    <2> QED BY <1>4, <2>1, ServiceOK, BehindItself
  <1>5. CASE Lose \/ Refused \/ UNCHANGED vars
    <2>1. UNCHANGED <<versions, snapshot, requests>>
      BY <1>5 DEF Lose, Refused, vars
    <2> QED BY <2>1, <1>1
  <1>6. CASE Respond \/ Poll
    BY <1>6, <1>2 DEF Respond, Poll
  <1>7. CASE \E r \in requests : Read(r)
    BY <1>7, ReadOK, BehindItself DEF Read
  <1>8. CASE \E r \in requests : Load(r)
    BY <1>8, LoadOK
  <1>9. CASE \E r \in requests : Fail(r)
    BY <1>9, FailOK, BehindItself DEF Fail
  <1> QED BY <1>3, <1>4, <1>5, <1>6, <1>7, <1>8, <1>9 DEF Next

\* What the dashboard has loaded, what a refresh has read and what the service
\* keeps are, in this order, older and newer states of the same versions.
THEOREM ReviewInvariant == Spec => []IInv
  <1>1. Init => IInv
    <2>1. ASSUME Init PROVE Table(versions) /\ snapshot = versions /\ requests = {}
      BY <2>1 DEF Init, Table, Draft, Statuses
    <2> QED BY <2>1, BehindItself DEF IInv, RefreshOK
  <1>2. IInv /\ [Next]_vars => IInv'
    BY StepOK
  <1> QED BY <1>1, <1>2, PTL DEF Spec

\* The workspace never goes back to an older state of a version
\* (useWorkspaceData.ts:41-95).
THEOREM WorkspaceForward == Spec => SnapshotForward
  <1>1. IInv /\ [Next]_vars =>
          [\A v \in DOMAIN snapshot :
              /\ v \in DOMAIN snapshot'
              /\ snapshot'[v].status # snapshot[v].status =>
                     <<snapshot[v].status, snapshot'[v].status>> \in Forward]_vars
    BY StepOK DEF Behind, Later
  <1> QED BY <1>1, ReviewInvariant, PTL DEF Spec, SnapshotForward

-------------------------------------------------------------------------------

\* What is confirmed is what is on the screen (RuleDetail.tsx:84-88;
\* useWorkspaceController.ts:55-61).
THEOREM ConfirmedIsShown == Spec => []TickedIsShown
  <1>1. Init => TickedIsShown
    BY DEF Init, TickedIsShown
  <1>2. ASSUME TickedIsShown, [Next]_vars PROVE TickedIsShown'
    <2>1. ASSUME UNCHANGED <<selected, preview, confirmed, ticked>>
          PROVE  TickedIsShown'
      BY <1>2, <2>1 DEF TickedIsShown
    <2>2. ASSUME confirmed' = FALSE PROVE TickedIsShown'
      BY <2>2 DEF TickedIsShown
    <2>3. CASE Person
      <3>1. CASE Tick
        BY <3>1 DEF Tick, TickedIsShown
      <3>2. CASE \E c \in Configs : Edit(c)
        BY <3>2, <2>1 DEF Edit
      <3>3. CASE \E kind \in Kinds : Click(kind)
        BY <3>3, <2>1 DEF Click, screen
      <3>4. CASE ReviewDraft \/ (\E v \in DOMAIN snapshot : Open(v))
        BY <3>4, <2>2 DEF ReviewDraft, Open, OpenRule
      <3> QED BY <2>3, <3>1, <3>2, <3>3, <3>4 DEF Person
    <2>4. CASE Respond
      BY <2>4, <2>1, <2>2 DEF Respond, Arrived, OpenRule, screen
    <2>5. CASE Next /\ ~Person /\ ~Respond
      <3>1. UNCHANGED screen
        BY <2>5 DEF Next, Serve, Lose, Refused, Poll, Elsewhere, Read, Load, Fail
      <3> QED BY <3>1, <2>1 DEF screen
    <2>6. CASE UNCHANGED vars
      BY <2>6, <2>1 DEF vars, screen
    <2> QED BY <1>2, <2>3, <2>4, <2>5, <2>6
  <1> QED BY <1>1, <1>2, PTL DEF Spec

-------------------------------------------------------------------------------

\* An activation that was sent carries what was on the screen when the box was
\* ticked, and the editor held the configuration of its version.
SentOK == op # None =>
    /\ op = [kind |-> op.kind, stage |-> op.stage, rule |-> op.rule, body |-> op.body,
             answer |-> op.answer, seen |-> op.seen]
    /\ op.kind = "activate" =>
          /\ op.rule \in DOMAIN versions
          /\ op.seen = [ticked |-> <<op.rule, op.body>>, editor |-> versions[op.rule].config]

\* What the box was ticked for and what the editor holds is what is sent; the
\* snapshot has the configuration that the service has (RuleDetail.tsx:209-218).
LEMMA ClickOK ==
    ASSUME IInv, TickedIsShown, NEW kind, Click(kind)
    PROVE  SentOK'
  <1>1. /\ op' = [kind |-> op'.kind, stage |-> op'.stage, rule |-> op'.rule,
                  body |-> op'.body, answer |-> op'.answer, seen |-> op'.seen]
        /\ op'.kind = kind /\ op'.rule = selected
    BY DEF Click
  <1>2. CASE kind = "activate"
    <2>1. op'.body = preview /\ op'.seen = [ticked |-> ticked, editor |-> editor]
      BY <1>2 DEF Click
    <2>2. ticked = <<selected, preview>> /\ editor = snapshot[selected].config
      BY <1>2 DEF Click, CanActivate, TickedIsShown, Rule
    <2>3. selected \in DOMAIN versions /\ snapshot[selected].config = versions[selected].config
      BY <1>2 DEF Click, CanActivate, Reviewing, Shown, IInv, Behind
    <2>4. UNCHANGED versions
      BY DEF Click
    <2> QED BY <1>1, <2>1, <2>2, <2>3, <2>4 DEF SentOK
  <1>3. CASE kind # "activate"
    BY <1>1, <1>3 DEF SentOK
  <1> QED BY <1>2, <1>3

\* While an activation is under way its version keeps its configuration.
LEMMA SentKept ==
    ASSUME SentOK, Behind(versions, versions'),
           \/ op' = None
           \/ op' = op
           \/ /\ op # None
              /\ \E stage, answer : op' = [op EXCEPT !.stage = stage, !.answer = answer]
    PROVE  SentOK'
  <1>1. CASE op' = None
    BY <1>1 DEF SentOK
  <1>2. CASE op' = op
    BY <1>2 DEF SentOK, Behind
  <1>3. ASSUME op # None, NEW stage, NEW answer,
               op' = [op EXCEPT !.stage = stage, !.answer = answer]
        PROVE  SentOK'
    <2>1. op' = [kind |-> op.kind, stage |-> stage, rule |-> op.rule, body |-> op.body,
                 answer |-> answer, seen |-> op.seen]
      BY <1>3 DEF SentOK
    <2> QED BY <1>3, <2>1 DEF SentOK, Behind
  <1> QED BY <1>1, <1>2, <1>3

LEMMA SentStep ==
    ASSUME IInv, TickedIsShown, SentOK, [Next]_vars
    PROVE  SentOK'
  <1>1. CASE \E kind \in Kinds : Click(kind)
    BY <1>1, ClickOK
  <1>2. CASE Serve \/ Lose \/ (\E v \in DOMAIN versions : Elsewhere(v))
    <2>1. Behind(versions, versions')
      BY <1>2, ServiceForward, BehindItself DEF IInv, Lose
    <2>2. CASE Serve \/ Lose
      <3>1. op # None /\ \E answer : Answer(answer)
        BY <2>2 DEF Serve, Lose
      <3>2. \E stage, answer : op' = [op EXCEPT !.stage = stage, !.answer = answer]
        BY <3>1 DEF Answer
      <3> QED BY <2>1, <3>1, <3>2, SentKept
    <2>3. CASE \E v \in DOMAIN versions : Elsewhere(v)
      <3>1. op' = op
        BY <2>3 DEF Elsewhere
      <3> QED BY <2>1, <3>1, SentKept
    <2> QED BY <1>2, <2>2, <2>3
  <1>3. CASE Respond
    <2>1. op # None /\ op' = [op EXCEPT !.stage = "refresh"] /\ UNCHANGED versions
      BY <1>3 DEF Respond
    <2>2. op' = [kind |-> op.kind, stage |-> "refresh", rule |-> op.rule, body |-> op.body,
                 answer |-> op.answer, seen |-> op.seen]
      BY <2>1 DEF SentOK
    <2> QED BY <2>1, <2>2 DEF SentOK
  <1>4. ASSUME UNCHANGED versions, op' = None \/ op' = op
        PROVE  SentOK'
    <2>1. Behind(versions, versions')
      BY <1>4, BehindItself
    <2> QED BY <1>4, <2>1, SentKept
  <1> QED BY <1>1, <1>2, <1>3, <1>4
          DEF Next, Person, Open, ReviewDraft, Edit, Tick, Refused, Poll, Read, Load, Fail,
              Settle, vars

LEMMA Sent == Spec => []SentOK
  <1>1. Init => SentOK
    BY DEF Init, SentOK
  <1>2. IInv /\ TickedIsShown /\ SentOK /\ [Next]_vars => SentOK'
    BY SentStep
  <1> QED BY <1>1, <1>2, ReviewInvariant, ConfirmedIsShown, PTL DEF Spec

\* A version that the dashboard puts in service is the one that was on the screen,
\* with the preview of its own configuration, when the reviewer ticked the box, and
\* that configuration was in the editor (RuleDetail.tsx:84-89, :185-218;
\* rules.py:76; docs/afdd.md:13).
THEOREM ActivationReviewed == Spec => ActivatedAsReviewed
  <1> DEFINE Reviewed == \A v \in DOMAIN versions :
                 versions[v].status = "DRAFT" /\ versions'[v].status = "ACTIVE" /\ op' # op =>
                     LET config == versions[v].config
                     IN  op.seen = [ticked |-> <<v, config>>, editor |-> config]
  <1>1. ASSUME IInv, SentOK, [Next]_vars PROVE Reviewed
    <2> SUFFICES ASSUME NEW v \in DOMAIN versions, versions[v].status = "DRAFT",
                        versions'[v].status = "ACTIVE", op' # op
                 PROVE  op.seen = [ticked |-> <<v, versions[v].config>>,
                                   editor |-> versions[v].config]
      OBVIOUS
    <2>1. versions' # versions
      OBVIOUS
    <2>2. CASE Serve
      <3>1. ASSUME NEW w \in Versions \ DOMAIN versions, NEW c, versions' = With(w, Draft(c))
            PROVE  FALSE
        BY <3>1 DEF With
      <3>2. ASSUME NEW s \in {"ACTIVE", "DISABLED"}, NEW w,
                   versions' = [versions EXCEPT ![w].status = s]
            PROVE  w = v /\ s = "ACTIVE"
        <4>1. versions[v] = [config |-> versions[v].config, status |-> "DRAFT"]
          BY <1>1 DEF IInv, Table
        <4>2. CASE w = v
          <5>1. versions'[v] = [versions[v] EXCEPT !.status = s]
            BY <3>2, <4>2
          <5>2. versions'[v].status = s
            BY <4>1, <5>1
          <5> QED BY <4>2, <5>2
        <4>3. CASE w # v
          BY <3>2, <4>3
        <4> QED BY <4>2, <4>3
      <3>3. op # None /\ op.kind = "activate" /\ op.rule = v /\ op.body = versions[v].config
        BY <2>1, <2>2, <3>1, <3>2 DEF Serve, MayActivate
      <3> QED BY <3>3, <1>1 DEF SentOK
    <2>3. CASE ~Serve
      BY <1>1, <2>1, <2>3 DEF Next, Person, Open, ReviewDraft, Edit, Tick, Click, Lose, Respond,
                              Refused, Poll, Elsewhere, Read, Load, Fail, vars
    <2> QED BY <2>2, <2>3
  <1>2. IInv /\ SentOK /\ [Next]_vars => [Reviewed]_vars
    BY <1>1
  <1> QED BY <1>2, ReviewInvariant, Sent, PTL DEF Spec, ActivatedAsReviewed
==============================================================================
