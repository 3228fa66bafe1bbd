------------------------------ MODULE Authoring ------------------------------
(***************************************************************************)
(* Rule authoring (ai.author): a request in plain language is discovered,  *)
(* planned by a model, validated, previewed and turned into a draft        *)
(* version, which a person may activate (rule_service.activate).           *)
(*                                                                         *)
(* The request's record is kept in memory and written whole at every       *)
(* trace, each time in a transaction of its own; the draft is created in   *)
(* yet another one.  An action is what happens up to the next commit, so   *)
(* that activations and the end of the process fall between them.          *)
(***************************************************************************)
EXTENDS Naturals, Sequences

CONSTANTS
    Requests,
    None,
    MaxCrashes  \* bound: requests whose process ends

Attempts == 0 .. 1
Drafts == Requests \X Attempts   \* the version a request creates in an attempt

\* How a call of the model ends.  "draft" is a configuration that parses;
\* whether it is valid and matches is for the registry to say.
Retryable == {"timeout", "status", "connect"}
Raised == {"transport", "runtime", "malformed"}
Outcomes == Retryable \cup Raised \cup {"badConfig", "clarify", "unsupported", "draft"}

\* What the attempt came to.
Results == Outcomes \cup {"invalid", "noMatch", "drafted"}

Stops ==
    {"NEEDS_CLARIFICATION", "UNSUPPORTED", "NO_MATCH", "INVALID_TOOL_OUTPUT",
     "TIMEOUT", "FAILED", "DRAFT_READY"}
States == Stops \cup
    {"RECEIVED", "DISCOVERING", "PLANNING", "VALIDATING", "PREVIEWING", "ACTIVATED"}
Tools == {"discover", "retry", "interpret", "validate", "preview", "exclusions"}

VARIABLES
    stored,   \* request -> its row, or None
    versions, \* draft -> None, "DRAFT" or "ACTIVE"
    record,   \* request -> the record in memory
    pc,       \* request -> what author does next
    attempt,  \* request -> the attempt it is in
    errors,   \* request -> has it validation errors to feed back
    result,   \* request -> attempt -> its result; read by the properties only
    fed,      \* request -> attempt -> feedback given; read by the properties only
    crashes

vars == <<stored, versions, record, pc, attempt, errors, result, fed, crashes>>

Records ==
    [state : States, draft : Drafts \cup {None},
     traces : Seq([tool : Tools, attempt : Attempts])]
New == [state |-> "RECEIVED", draft |-> None, traces |-> <<>>]

TypeOK ==
    /\ stored \in [Requests -> Records \cup {None}]
    /\ versions \in [Drafts -> {None, "DRAFT", "ACTIVE"}]
    /\ record \in [Requests -> Records]
    /\ pc \in [Requests -> {"idle", "discover", "call", "check", "preview",
                            "exclusions", "create", "finish", "done", "dead"}]
    /\ attempt \in [Requests -> Attempts]
    /\ errors \in [Requests -> BOOLEAN]
    /\ result \in [Requests -> [Attempts -> Results \cup {None}]]
    /\ fed \in [Requests -> [Attempts -> BOOLEAN]]
    /\ crashes \in 0 .. MaxCrashes
    /\ \A r \in Requests :
          /\ stored[r] = None <=> pc[r] = "idle"
          /\ pc[r] = "finish" => record[r].state \in Stops
          /\ pc[r] = "done" => stored[r].state \in Stops \cup {"ACTIVATED"}

Init ==
    /\ stored = [r \in Requests |-> None]
    /\ versions = [d \in Drafts |-> None]
    /\ record = [r \in Requests |-> New]
    /\ pc = [r \in Requests |-> "idle"]
    /\ attempt = [r \in Requests |-> 0]
    /\ errors = [r \in Requests |-> FALSE]
    /\ result = [r \in Requests |-> [k \in Attempts |-> None]]
    /\ fed = [r \in Requests |-> [k \in Attempts |-> FALSE]]
    /\ crashes = 0

Goto(r, place) == pc' = [pc EXCEPT ![r] = place]
Came(r, what) == result' = [result EXCEPT ![r][attempt[r]] = what]

\* persist writes the whole record; what is assigned after it stays in memory
\* until the next one.
Persist(r, row, state) ==
    /\ stored' = [stored EXCEPT ![r] = row]
    /\ record' = [record EXCEPT ![r] = [row EXCEPT !.state = state]]

Traced(r, state, tool, number) ==
    [record[r] EXCEPT !.state = state,
                      !.traces = Append(@, [tool |-> tool, attempt |-> number])]
Trace(r, now, tool, next) == Persist(r, Traced(r, now, tool, attempt[r]), next)

\* A state no trace goes with: the last transaction will write it.
Stop(r, state) ==
    /\ record' = [record EXCEPT ![r].state = state]
    /\ Goto(r, "finish")
    /\ UNCHANGED stored

Receive(r) ==
    /\ pc[r] = "idle"
    /\ Persist(r, New, "DISCOVERING")
    /\ Goto(r, "discover")
    /\ UNCHANGED <<versions, attempt, errors, result, fed, crashes>>

\* A catalogue above the limit ends the request.
Discover(r) ==
    /\ pc[r] = "discover"
    /\ \/ Stop(r, "INVALID_TOOL_OUTPUT")
       \/ /\ Persist(r, Traced(r, "DISCOVERING", "discover", 0), "PLANNING")
          /\ Goto(r, "call")
    /\ UNCHANGED <<versions, attempt, errors, result, fed, crashes>>

\* The state an answer, or the handler of an exception, ends the request in.
Ending(outcome) ==
    CASE outcome = "timeout" -> "TIMEOUT"
      [] outcome \in {"malformed", "badConfig", "invalid"} -> "INVALID_TOOL_OUTPUT"
      [] outcome \in {"status", "connect", "transport", "runtime"} -> "FAILED"
      [] outcome = "clarify" -> "NEEDS_CLARIFICATION"
      [] outcome = "unsupported" -> "UNSUPPORTED"

\* On to the next attempt of two, or to the end.
TryAgain(r) ==
    IF attempt[r] = 0
    THEN Goto(r, "call") /\ attempt' = [attempt EXCEPT ![r] = 1]
    ELSE Goto(r, "finish") /\ UNCHANGED attempt

\* Variant: the errors of a draft are not handed to the next call.
GivenNothing(r) == FALSE

Given(r) == errors[r]

\* One call of the model, with the feedback there is.
Call(r, outcome) ==
    /\ pc[r] = "call"
    /\ Came(r, outcome)
    /\ fed' = [fed EXCEPT ![r][attempt[r]] = Given(r)]
    /\ CASE outcome \in Retryable ->
              /\ Trace(r, "PLANNING", "retry",
                       IF attempt[r] = 0 THEN "PLANNING" ELSE Ending(outcome))
              /\ TryAgain(r)
         [] outcome \in Raised ->
              Stop(r, Ending(outcome)) /\ UNCHANGED attempt
         [] outcome \in {"badConfig", "clarify", "unsupported"} ->
              /\ Trace(r, "PLANNING", "interpret", Ending(outcome))
              /\ Goto(r, "finish") /\ UNCHANGED attempt
         [] outcome = "draft" ->
              /\ Trace(r, "PLANNING", "interpret", "VALIDATING")
              /\ Goto(r, "check") /\ UNCHANGED attempt
    /\ UNCHANGED <<versions, errors, crashes>>

\* Validation and preview come from one read of the registry, which imports
\* change between requests.
Check(r) ==
    /\ pc[r] = "check"
    /\ \/ /\ Came(r, "invalid")
          /\ Trace(r, "VALIDATING", "validate", Ending("invalid"))
          /\ errors' = [errors EXCEPT ![r] = TRUE]
          /\ TryAgain(r)
       \/ /\ \E what \in {"draft", "noMatch"} : Came(r, what)
          /\ Trace(r, "VALIDATING", "validate", "PREVIEWING")
          /\ Goto(r, "preview")
          /\ UNCHANGED <<attempt, errors>>
    /\ UNCHANGED <<versions, fed, crashes>>

Preview(r) ==
    /\ pc[r] = "preview"
    /\ Trace(r, "PREVIEWING", "preview", "PREVIEWING")
    /\ Goto(r, "exclusions")
    /\ UNCHANGED <<versions, attempt, errors, result, fed, crashes>>

\* Variant: the trace is written under the first attempt's number.
ExclusionsUnnumbered(r) ==
    /\ pc[r] = "exclusions"
    /\ Persist(r, Traced(r, "PREVIEWING", "exclusions", 0), "PREVIEWING")
    /\ Goto(r, "create")
    /\ UNCHANGED <<versions, attempt, errors, result, fed, crashes>>

Exclusions(r) ==
    /\ pc[r] = "exclusions"
    /\ IF result[r][attempt[r]] = "noMatch"
       THEN Trace(r, "PREVIEWING", "exclusions", "NO_MATCH") /\ Goto(r, "finish")
       ELSE Trace(r, "PREVIEWING", "exclusions", "PREVIEWING") /\ Goto(r, "create")
    /\ UNCHANGED <<versions, attempt, errors, result, fed, crashes>>

\* Variant: the loop goes on after the draft.
CreateGoesOn(r) ==
    LET draft == <<r, attempt[r]>>
    IN  /\ pc[r] = "create"
        /\ versions' = [versions EXCEPT ![draft] = "DRAFT"]
        /\ record' = [record EXCEPT ![r].state = "DRAFT_READY", ![r].draft = draft]
        /\ Came(r, "drafted")
        /\ TryAgain(r)
        /\ UNCHANGED <<stored, errors, fed, crashes>>

\* rules.create, in a transaction of its own.
Create(r) ==
    LET draft == <<r, attempt[r]>>
    IN  /\ pc[r] = "create"
        /\ versions' = [versions EXCEPT ![draft] = "DRAFT"]
        /\ record' = [record EXCEPT ![r].state = "DRAFT_READY", ![r].draft = draft]
        /\ Came(r, "drafted")
        /\ Goto(r, "finish")
        /\ UNCHANGED <<stored, attempt, errors, fed, crashes>>

\* Variant: the stop state is returned but not written.
FinishUnwritten(r) ==
    /\ pc[r] = "finish"
    /\ Goto(r, "done")
    /\ UNCHANGED <<stored, record, versions, attempt, errors, result, fed, crashes>>

\* The last persist; the record is returned.
Finish(r) ==
    /\ pc[r] = "finish"
    /\ Persist(r, record[r], record[r].state)
    /\ Goto(r, "done")
    /\ UNCHANGED <<versions, attempt, errors, result, fed, crashes>>

\* A person activates a draft the list of rules shows; the requests whose row
\* names it are marked in the same transaction.
Activate(draft) ==
    /\ versions[draft] = "DRAFT"
    /\ versions' = [versions EXCEPT ![draft] = "ACTIVE"]
    /\ stored' = [r \in Requests |->
                    IF stored[r] # None /\ stored[r].draft = draft
                    THEN [stored[r] EXCEPT !.state = "ACTIVATED"] ELSE stored[r]]
    /\ UNCHANGED <<record, pc, attempt, errors, result, fed, crashes>>

\* The process ends, or a persist fails: nobody goes on with the request.
Crash(r) ==
    /\ crashes < MaxCrashes
    /\ pc[r] \notin {"idle", "done", "dead"}
    /\ crashes' = crashes + 1
    /\ Goto(r, "dead")
    /\ UNCHANGED <<stored, versions, record, attempt, errors, result, fed>>

AuthorStep(r) ==
    \/ Discover(r) \/ (\E outcome \in Outcomes : Call(r, outcome))
    \/ Check(r) \/ Preview(r) \/ Exclusions(r) \/ Create(r) \/ Finish(r)

Next ==
    \/ \E r \in Requests : Receive(r) \/ AuthorStep(r) \/ Crash(r)
    \/ \E draft \in Drafts : Activate(draft)

Spec == Init /\ [][Next]_vars

\* A call of the model ends after 25 seconds at the latest.
FairSpec == Spec /\ \A r \in Requests : WF_vars(AuthorStep(r))

-------------------------------------------------------------------------------
(* Properties. *)

Settled(r) == pc[r] = "done"
Attempted(r) == {k \in Attempts : result[r][k] # None}

\* The results of the last attempt that a state in the row stands for.
Reasons ==
    [NEEDS_CLARIFICATION |-> {"clarify"}, UNSUPPORTED |-> {"unsupported"},
     NO_MATCH |-> {"noMatch"}, TIMEOUT |-> {"timeout"},
     FAILED |-> {"status", "connect", "transport", "runtime"},
     INVALID_TOOL_OUTPUT |-> {"malformed", "badConfig", "invalid", None},
     DRAFT_READY |-> {"drafted"}, ACTIVATED |-> {"drafted"}]

\* A request that ended says in its row how: the state is that of the last
\* attempt and not of an earlier one, and a connection is given up on after two
\* attempts only (ai.py:135-194).
StopExplained ==
    \A r \in Requests : Settled(r) =>
        /\ stored[r].state \in DOMAIN Reasons
        /\ result[r][attempt[r]] \in Reasons[stored[r].state]
        /\ result[r][attempt[r]] \in Retryable => attempt[r] = 1

Evidence == <<"interpret", "validate", "preview", "exclusions">>

\* Whoever finds a draft named in a request's row can read there that the same
\* attempt was interpreted, validated, previewed and had its exclusions listed,
\* each once and in this order, and that nothing came after (ai.py:144-176).
DraftEvidenced ==
    \A r \in Requests : stored[r] # None /\ stored[r].draft # None =>
        LET k == stored[r].draft[2]
            traces == stored[r].traces
            before == Len(traces) - 4
        IN  /\ versions[stored[r].draft] # None
            /\ before >= 0
            /\ \A i \in 1 .. 4 : traces[before + i] = [tool |-> Evidence[i], attempt |-> k]
            /\ \A i \in 1 .. before : traces[i].attempt = k => traces[i].tool = "discover"

\* A request creates one version at most, only after the registry found it
\* valid and with targets, and only a crash leaves it without a row naming it
\* (ai.py:164-176).
OneKnownDraft ==
    \A r \in Requests, k \in Attempts : versions[<<r, k>>] # None =>
        /\ result[r][k] = "drafted"
        /\ \A j \in Attempts \ {k} : versions[<<r, j>>] = None
        /\ record[r].draft = <<r, k>>
        /\ pc[r] = "done" => stored[r].draft = <<r, k>>

\* There is a second attempt only after a failure of the connection or an
\* invalid draft, and it is given the errors exactly in the second case
\* (ai.py:133-160).
RetryJustified ==
    \A r \in Requests :
        /\ ~fed[r][0]
        /\ result[r][1] # None =>
              /\ result[r][0] \in Retryable \cup {"invalid"}
              /\ fed[r][1] <=> result[r][0] = "invalid"

Stopped(r) == stored[r] # None /\ stored[r].state \in Stops \cup {"ACTIVATED"}

\* The row of a request tells its end sooner or later, unless its process ends:
\* time and again no request that was received is left without one
\* (ai.py:135: two attempts, each with a timeout; ai.py:192-194).
EventuallyStops ==
    []<>(\A r \in Requests : pc[r] \in {"idle", "dead"} \/ Stopped(r))

\* "Activation is a separate human action and records the confirmation, preview
\* digest and resulting version" (docs/ai-rule-authoring.md:80): once author
\* has returned, the request of an active draft says so.
ActivationRecorded ==
    \A d \in Drafts : versions[d] = "ACTIVE" /\ Settled(d[1]) =>
        stored[d[1]].state = "ACTIVATED"

\* "malformed or invented identity ... one retry with validation feedback"
\* (docs/ai-rule-authoring.md:51-56): no request ends after one attempt whose
\* answer was malformed or named no equipment.
RetriedWithFeedback ==
    \A r \in Requests : Settled(r) /\ Attempted(r) = {0} =>
        result[r][0] \notin {"malformed", "badConfig", "noMatch"}
===============================================================================
