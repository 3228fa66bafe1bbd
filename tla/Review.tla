-------------------------------- MODULE Review -------------------------------
(***************************************************************************)
(* The review of a rule in the dashboard (RuleDetail.tsx, RuleList.tsx,    *)
(* RuleAuthoringModal.tsx, useWorkspaceController.ts, useWorkspaceData.ts) *)
(* against the service that keeps the versions (rules.py).  Every call is  *)
(* answered later, or fails; meanwhile the person goes on, the workspace   *)
(* is polled, and other people use the service.                            *)
(*                                                                         *)
(* The inventory does not change here (module Registry), so that a preview *)
(* and its digest are told apart by the configuration they are made from.  *)
(* A version has no rule of its own to supersede in.                       *)
(***************************************************************************)
EXTENDS Naturals, FiniteSets

CONSTANTS
    Versions, \* identities, those in the database and those to come
    Saved,    \* the configuration of each version that is there
    Configs,
    None

VARIABLES
    versions,  \* the service: [config, status] of each version
    snapshot,  \* what the dashboard has loaded of them
    requests,  \* refreshes under way: [by, read], by "poll" or "act"
    selected,  \* the version on the screen
    editor,    \* the configuration in the editor
    preview,   \* the configuration whose preview is shown, or None
    confirmed, \* the check box
    ticked,    \* what was on the screen when the box was ticked
    aiResult,  \* the draft of an authoring request, or None
    op         \* the operation of act, or None; busy while there is one

screen == <<selected, editor, preview, confirmed, ticked>>
vars == <<versions, snapshot, requests, screen, aiResult, op>>

Statuses == {"DRAFT", "ACTIVE", "DISABLED"}
Kinds == {"preview", "adjust", "activate", "disable", "author"}

TypeOK ==
    /\ selected \in DOMAIN snapshot \cup DOMAIN versions \cup {None}
    /\ DOMAIN snapshot \subseteq DOMAIN versions
    /\ \A v \in DOMAIN versions : versions[v] \in [config : Configs, status : Statuses]
    /\ op # None => op.kind \in Kinds /\ op.stage \in {"sent", "answered", "refresh"}
    /\ {editor, preview} \subseteq Configs \cup {None}
    /\ confirmed \in BOOLEAN

Draft(config) == [config |-> config, status |-> "DRAFT"]
busy == op # None
Shown == selected \in DOMAIN snapshot  \* rule is defined
Rule == snapshot[selected]

-------------------------------------------------------------------------------
(* The person at the screen. *)

\* openRule.
OpenRule(v, config) ==
    /\ selected' = v /\ editor' = config
    /\ preview' = None
    /\ confirmed' = FALSE /\ ticked' = None

Open(v) ==
    /\ OpenRule(v, snapshot[v].config)
    /\ UNCHANGED <<versions, snapshot, requests, aiResult, op>>

\* "Review draft & targets" opens the draft with its preview.
ReviewDraft ==
    /\ aiResult # None
    /\ selected' = aiResult
    /\ editor' = versions[aiResult].config /\ preview' = versions[aiResult].config
    /\ confirmed' = FALSE /\ ticked' = None
    /\ UNCHANGED <<versions, snapshot, requests, aiResult, op>>

Edit(config) ==
    /\ Shown
    /\ editor' = config
    /\ UNCHANGED <<versions, snapshot, requests, selected, preview,
                   confirmed, ticked, aiResult, op>>

Reviewing == Shown /\ preview # None /\ Rule.status = "DRAFT"

Tick ==
    /\ Reviewing
    /\ confirmed' = TRUE
    /\ ticked' = <<selected, preview>>
    /\ UNCHANGED <<versions, snapshot, requests, selected, editor, preview,
                   aiResult, op>>

\* The button is not disabled.
CanActivate == Reviewing /\ confirmed /\ ~busy /\ editor = Rule.config

\* seen is a history of what the reviewer had confirmed, and of the editor.
Click(kind) ==
    /\ ~busy
    /\ kind # "author" => Shown
    /\ kind = "disable" => Rule.status = "ACTIVE"
    /\ kind = "activate" => CanActivate
    /\ op' = [kind |-> kind, stage |-> "sent", rule |-> selected,
              body |-> CASE kind = "activate" -> preview
                         [] kind = "adjust" -> editor
                         [] OTHER -> None,
              answer |-> None,
              seen |-> IF kind = "activate" THEN [ticked |-> ticked, editor |-> editor]
                       ELSE None]
    /\ UNCHANGED <<versions, snapshot, requests, screen, aiResult>>

-------------------------------------------------------------------------------
(* The service. *)

MayActivate(v, reviewed) ==
    versions[v].status = "DRAFT" /\ reviewed = versions[v].config

\* Variant: a new version is not kept.
WithLost(v, version) == [versions EXCEPT ![v] = version]

With(v, version) == [w \in DOMAIN versions \cup {v} |->
                        IF w = v THEN version ELSE versions[w]]

Answer(answer) == op' = [op EXCEPT !.stage = "answered", !.answer = answer]

Serve ==
    /\ op # None /\ op.stage = "sent"
    /\ \/ /\ op.kind = "preview"
          /\ Answer(versions[op.rule].config)
          /\ UNCHANGED versions
       \/ /\ op.kind \in {"adjust", "author"}
          /\ \E v \in Versions \ DOMAIN versions,
                c \in (IF op.kind = "adjust" THEN {op.body} ELSE Configs) :
                versions' = With(v, Draft(c)) /\ Answer(v)
       \/ /\ op.kind = "activate" /\ MayActivate(op.rule, op.body)
          /\ versions' = [versions EXCEPT ![op.rule].status = "ACTIVE"]
          /\ Answer(op.rule)
       \/ /\ op.kind = "disable"
          /\ versions' = [versions EXCEPT ![op.rule].status = "DISABLED"]
          /\ Answer(op.rule)
       \/ /\ Answer(None)  \* refused, or the call failed
          /\ UNCHANGED versions
    /\ UNCHANGED <<snapshot, requests, screen, aiResult>>

\* The service has done what was asked, and the answer is lost.
Lose ==
    /\ op # None /\ op.stage = "answered" /\ op.answer # None
    /\ Answer(None)
    /\ UNCHANGED <<versions, snapshot, requests, screen, aiResult>>

\* Other people activate a draft they reviewed.
Elsewhere(v) ==
    /\ versions[v].status = "DRAFT"
    /\ versions' = [versions EXCEPT ![v].status = "ACTIVE"]
    /\ UNCHANGED <<snapshot, requests, screen, aiResult, op>>

-------------------------------------------------------------------------------
(* Answers, and the snapshot of the workspace. *)

\* Variant: a refresh under way is left to arrive.
BegunBeside(by) == requests \cup {[by |-> by, read |-> None]}

\* A refresh aborts the one under way.
Begun(by) == {[by |-> by, read |-> None]}

\* Variant: the box stays as it is when a preview arrives.
ArrivedTicked == preview' = op.answer /\ UNCHANGED <<selected, editor, confirmed, ticked>>

Arrived ==
    /\ preview' = op.answer
    /\ confirmed' = FALSE /\ ticked' = None
    /\ UNCHANGED <<selected, editor>>

\* What the operation does with its answer; then it refreshes.
Respond ==
    /\ op # None /\ op.stage = "answered" /\ op.answer # None
    /\ CASE op.kind = "preview" -> Arrived
         [] op.kind = "adjust" -> OpenRule(op.answer, op.body)
         [] op.kind = "activate" ->
              confirmed' = FALSE /\ ticked' = None /\ UNCHANGED <<selected, editor, preview>>
         [] OTHER -> UNCHANGED screen
    /\ aiResult' = IF op.kind = "author" THEN op.answer ELSE aiResult
    /\ requests' = Begun("act")
    /\ op' = [op EXCEPT !.stage = "refresh"]
    /\ UNCHANGED <<versions, snapshot>>

\* Variant: the flag is cleared only when all went well.
RefusedBusy ==
    /\ op # None /\ op.stage = "answered" /\ op.answer = None
    /\ UNCHANGED vars

\* An error is shown, and nothing is refreshed.
Refused ==
    /\ op # None /\ op.stage = "answered" /\ op.answer = None
    /\ op' = None
    /\ UNCHANGED <<versions, snapshot, requests, screen, aiResult>>

\* The refresh an operation waits for has arrived, or was aborted.
Settle ==
    op' = IF /\ op # None /\ op.stage = "refresh"
             /\ ~\E r \in requests' : r.by = "act"
          THEN None ELSE op

Poll ==
    /\ requests' = Begun("poll")
    /\ Settle
    /\ UNCHANGED <<versions, snapshot, screen, aiResult>>

\* The service answers a refresh with what it has.
Read(r) ==
    /\ r.read = None
    /\ requests' = (requests \ {r}) \cup {[r EXCEPT !.read = versions]}
    /\ UNCHANGED <<versions, snapshot, screen, aiResult, op>>

Load(r) ==
    /\ r.read # None
    /\ snapshot' = r.read
    /\ requests' = requests \ {r}
    /\ Settle
    /\ UNCHANGED <<versions, screen, aiResult>>

\* A refresh fails: the error is shown, the snapshot stays.
Fail(r) ==
    /\ requests' = requests \ {r}
    /\ Settle
    /\ UNCHANGED <<versions, snapshot, screen, aiResult>>

-------------------------------------------------------------------------------

Init ==
    /\ versions = [v \in DOMAIN Saved |-> Draft(Saved[v])]
    /\ snapshot = versions
    /\ requests = {}
    /\ selected = None /\ editor = None /\ preview = None
    /\ confirmed = FALSE /\ ticked = None
    /\ aiResult = None /\ op = None

Person ==
    \/ \E v \in DOMAIN snapshot : Open(v)
    \/ ReviewDraft
    \/ \E c \in Configs : Edit(c)
    \/ Tick
    \/ \E kind \in Kinds : Click(kind)

Next ==
    \/ Person \/ Serve \/ Lose \/ Respond \/ Refused \/ Poll
    \/ \E v \in DOMAIN versions : Elsewhere(v)
    \/ \E r \in requests : Read(r) \/ Load(r) \/ Fail(r)

Spec == Init /\ [][Next]_vars

\* Calls are answered, in the end, and the browser runs what answers them.
FairSpec ==
    /\ Spec
    /\ WF_vars(Serve) /\ WF_vars(Respond) /\ WF_vars(Refused)
    /\ WF_vars(\E r \in requests : Read(r)) /\ WF_vars(\E r \in requests : Load(r))

-------------------------------------------------------------------------------
(* Properties. *)

\* What is confirmed is what is on the screen: a preview that arrives, or a rule
\* that is opened, after the box was ticked takes the tick away
\* (RuleDetail.tsx:84-88; useWorkspaceController.ts:55-61).
TickedIsShown ==
    confirmed => ticked = <<selected, preview>>

\* However late previews come and rules change on the screen, a version that the
\* dashboard puts in service is the one that was on the screen when the reviewer
\* ticked the box, with the preview of its own configuration; and that
\* configuration was in the editor when the activation was sent
\* (RuleDetail.tsx:84-89, :127-176, :185-218; useWorkspaceController.ts:55-61;
\* docs/afdd.md:13).
ActivatedAsReviewed ==
    [][\A v \in DOMAIN versions :
          versions[v].status = "DRAFT" /\ versions'[v].status = "ACTIVE" /\ op' # op =>
              LET config == versions[v].config
              IN  op.seen = [ticked |-> <<v, config>>, editor |-> config]]_vars

Forward == {<<"DRAFT", "ACTIVE">>, <<"DRAFT", "DISABLED">>, <<"ACTIVE", "DISABLED">>}

\* The workspace never goes back to an older state of a version, although polls
\* and operations refresh it at the same time (useWorkspaceData.ts:41-95).
SnapshotForward ==
    [][\A v \in DOMAIN snapshot :
          /\ v \in DOMAIN snapshot'
          /\ snapshot'[v].status # snapshot[v].status =>
                 <<snapshot[v].status, snapshot'[v].status>> \in Forward]_vars

\* The dashboard does not stay busy, also when the refresh of an operation is
\* aborted by a poll or fails (useWorkspaceController.ts:40-54).
BusyEnds == op # None ~> op = None

\* "The activation control remains disabled until the reviewer supplies a name,
\* checks the confirmation and views a preview matching the saved configuration"
\* (docs/usability.md:33).
GateMatches ==
    CanActivate => preview = Rule.config
===============================================================================
