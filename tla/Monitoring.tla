------------------------------ MODULE Monitoring ------------------------------
(***************************************************************************)
(* Rule lifecycle and evaluation of one rule side by side: the requests    *)
(* that create, activate and disable versions (application/rule_service.py,*)
(* rules.py) and the evaluator's drain (evaluator.py), each a transaction  *)
(* taken apart at the statements between which others may commit.          *)
(*                                                                         *)
(* The database is a function from rows to values.  A transaction keeps    *)
(* the rows it has written in tx; others do not see them and, on           *)
(* PostgreSQL at READ COMMITTED, wait to write them, and then write what   *)
(* they had worked out before they waited.  On SQLite BEGIN IMMEDIATE lets *)
(* one transaction run at a time.                                          *)
(*                                                                         *)
(* What a frame shows, and whether an interval has reached its duration,   *)
(* is module Evaluation's: here a frame of a pair may open an issue,       *)
(* recover the open one, or leave it.                                      *)
(***************************************************************************)
EXTENDS Integers, FiniteSets, FiniteSetsExt

CONSTANTS
    Requests,    \* API requests that may be open at a time
    Evaluators,  \* evaluation workers
    Equipment,   \* what every version of the rule matches
    Dialect,     \* "postgresql" or "sqlite"
    Absent,      \* no row
    MaxVersions, \* bound: versions of the rule
    MaxIssues,   \* bound: issues of a version on one equipment
    MaxPending   \* bound: frames waiting for evaluation

ASSUME DialectAssumption == Dialect \in {"postgresql", "sqlite"}
ASSUME BoundsAssumption == {MaxVersions, MaxIssues, MaxPending} \subseteq Nat
ASSUME ProcessesAssumption == Requests \cap Evaluators = {}

Versions == 1 .. MaxVersions
Indices == 1 .. MaxIssues
Pairs == Versions \X Equipment
Processes == Requests \cup Evaluators

VersionRow(v) == <<"version", v>>
IssueRow(p, n) == <<"issue", p, n>>
StateRow(p) == <<"state", p>>

VersionRows == {VersionRow(v) : v \in Versions}
IssueRows == {IssueRow(p, n) : p \in Pairs, n \in Indices}
StateRows == {StateRow(p) : p \in Pairs}
Rows == VersionRows \cup IssueRows \cup StateRows

VARIABLES
    db,       \* row -> committed value or Absent
    tx,       \* process -> the rows its transaction has written
    me,       \* process -> where it is and what it holds in memory
    pending   \* frames in the outbox that are not done

vars == <<db, tx, me, pending>>

Version == [status : {"DRAFT", "ACTIVE", "DISABLED"}, number : Nat]
Issue == [status : {"ACTIVE", "RECOVERED", "STOPPED"},
          recovered : BOOLEAN, stopped : BOOLEAN]
State == [issue : 0 .. MaxIssues]

ASSUME AbsentAssumption == Absent \notin Version /\ Absent \notin Issue /\ Absent \notin State

Idle == [pc |-> "idle", op |-> "none", target |-> 0, stopping |-> {},
         found |-> <<>>, erase |-> {}]

\* known: versions read as ACTIVE; frames: left of the `taken` ones; todo: pairs
\* left of the frame; pair, ref: the pair evaluated and its open issue; read:
\* the issue's row; next: the state to put.
Asleep == [pc |-> "idle", known |-> {}, frames |-> 0, taken |-> 0, todo |-> {},
           pair |-> Absent, ref |-> 0, read |-> Absent, next |-> Absent]

Values(row) ==
    CASE row \in VersionRows -> Version
      [] row \in IssueRows -> Issue
      [] OTHER -> State

StoreTyped ==
    /\ DOMAIN db = Rows /\ DOMAIN tx = Processes /\ DOMAIN me = Processes
    /\ \A row \in Rows : db[row] \in Values(row) \cup {Absent}
    /\ \A p \in Processes :
          /\ DOMAIN tx[p] \subseteq Rows
          /\ \A row \in DOMAIN tx[p] : tx[p][row] \in Values(row) \cup {Absent}
          /\ me[p].pc = "idle" => tx[p] = <<>>
    /\ \A p, q \in Processes : p # q => DOMAIN tx[p] \cap DOMAIN tx[q] = {}

RequestTyped(r) ==
    /\ DOMAIN me[r] = DOMAIN Idle
    /\ me[r].pc \in {"idle", "lock", "stop", "halt", "erase", "commit"}
    /\ me[r].op \in {"none", "create", "activate", "disable"}
    /\ me[r].target \in 0 .. MaxVersions
    /\ me[r].stopping \subseteq Versions
    /\ DOMAIN me[r].found \subseteq IssueRows
    /\ \A row \in DOMAIN me[r].found : me[r].found[row] \in Issue
    /\ me[r].erase \subseteq StateRows

EvaluatorTyped(e) ==
    /\ DOMAIN me[e] = DOMAIN Asleep
    /\ me[e].pc \in {"idle", "frame", "reread", "recover", "put"}
    /\ me[e].known \subseteq Versions
    /\ me[e].pc = "idle" => me[e].known = {}
    /\ me[e].todo \subseteq me[e].known \X Equipment
    /\ me[e].frames \in Nat /\ me[e].frames <= me[e].taken
    /\ me[e].pc # "idle" => me[e].taken \in 1 .. pending
    /\ me[e].pc \in {"reread", "recover", "put"} =>
          me[e].pair \in me[e].known \X Equipment /\ me[e].next \in State
    /\ me[e].pc \in {"reread", "recover"} => me[e].ref \in Indices
    /\ me[e].pc = "recover" => me[e].read \in Issue

TypeOK ==
    /\ StoreTyped
    /\ \A r \in Requests : RequestTyped(r)
    /\ \A e \in Evaluators : EvaluatorTyped(e)
    /\ pending \in 0 .. MaxPending

Init ==
    /\ db = [row \in Rows |-> Absent]
    /\ tx = [p \in Processes |-> <<>>]
    /\ me = [p \in Processes |-> IF p \in Requests THEN Idle ELSE Asleep]
    /\ pending = 0

-------------------------------------------------------------------------------
(* Transactions. *)

Visible(p, row) == IF row \in DOMAIN tx[p] THEN tx[p][row] ELSE db[row]

\* Nobody else has written the row and not committed.
Unlocked(p, row) == \A q \in Processes \ {p} : row \notin DOMAIN tx[q]

\* Rows with these values, and the others as they were.
Overlay(new, old) ==
    [row \in DOMAIN new \cup DOMAIN old |->
       IF row \in DOMAIN new THEN new[row] ELSE old[row]]

Write(p, row, value) == tx' = [tx EXCEPT ![p] = Overlay([x \in {row} |-> value], @)]

\* BEGIN IMMEDIATE.
MayBegin == Dialect = "sqlite" => \A q \in Processes : me[q].pc = "idle"

WithStatus(p, status) ==
    {v \in Versions : Visible(p, VersionRow(v)) # Absent
                      /\ Visible(p, VersionRow(v)).status = status}

-------------------------------------------------------------------------------
(* Requests. *)

\* The transaction begins; an unknown version is answered with 404.
Request(r, op, target) ==
    /\ me[r].pc = "idle"
    /\ MayBegin
    /\ op # "create" => db[VersionRow(target)] # Absent
    /\ me' = [me EXCEPT
                ![r].pc = IF op = "disable" THEN "stop" ELSE "lock",
                ![r].op = op,
                ![r].target = target,
                ![r].stopping = IF op = "disable" THEN {target} ELSE {}]
    /\ UNCHANGED <<db, tx, pending>>

\* Variant: no advisory lock.
RuleLockedNever(r) == FALSE

\* The rule's advisory lock, held to the end of the transaction.
RuleLocked(r) ==
    \E q \in Requests \ {r} :
        me[q].op \in {"create", "activate"} /\ me[q].pc \notin {"idle", "lock"}

NextNumber(r) ==
    1 + Max({0} \cup {Visible(r, VersionRow(v)).number :
                        v \in {u \in Versions : Visible(r, VersionRow(u)) # Absent}})

Unused(v) == \A q \in Processes : Visible(q, VersionRow(v)) = Absent

\* rules.create: the next number, then the insert, under a fresh id.
Create(r) ==
    /\ me[r].pc = "lock" /\ me[r].op = "create"
    /\ ~RuleLocked(r)
    /\ \E v \in Versions :
          /\ Unused(v) /\ \A u \in 1 .. v - 1 : ~Unused(u)
          /\ Write(r, VersionRow(v), [status |-> "DRAFT", number |-> NextNumber(r)])
    /\ me' = [me EXCEPT ![r].pc = "commit"]
    /\ UNCHANGED <<db, pending>>

\* Variant: the status of the version is not checked.
CheckNothing(r) ==
    /\ me[r].pc = "lock" /\ me[r].op = "activate"
    /\ ~RuleLocked(r)
    /\ me' = [me EXCEPT ![r].pc = "stop", ![r].stopping = WithStatus(r, "ACTIVE")]
    /\ UNCHANGED <<db, tx, pending>>

\* rules.activate reads the version again under the lock, and then the versions
\* to supersede.
Check(r) ==
    /\ me[r].pc = "lock" /\ me[r].op = "activate"
    /\ ~RuleLocked(r)
    /\ Visible(r, VersionRow(me[r].target)).status = "DRAFT"
    /\ me' = [me EXCEPT ![r].pc = "stop", ![r].stopping = WithStatus(r, "ACTIVE")]
    /\ UNCHANGED <<db, tx, pending>>

\* Variant: issues are stopped whatever their status.
ActiveIssuesAndClosed(r, v) ==
    {row \in IssueRows : row[2][1] = v /\ Visible(r, row) # Absent}

\* The active issues that a statement of r sees.
ActiveIssues(r, v) ==
    {row \in IssueRows : /\ row[2][1] = v
                         /\ Visible(r, row) # Absent
                         /\ Visible(r, row).status = "ACTIVE"}

\* rules.stop: the version is disabled and its active issues are read.  Its
\* state rows are looked for later, in Scan.
Stop(r) ==
    /\ me[r].pc = "stop"
    /\ \E v \in me[r].stopping :
          LET row == VersionRow(v)
          IN  /\ Unlocked(r, row)
              /\ Write(r, row, [Visible(r, row) EXCEPT !.status = "DISABLED"])
              /\ me' = [me EXCEPT
                          ![r].pc = "halt",
                          ![r].stopping = @ \ {v},
                          ![r].found = [i \in ActiveIssues(r, v) |-> Visible(r, i)],
                          ![r].erase = {StateRow(<<v, e>>) : e \in Equipment}]
    /\ UNCHANGED <<db, pending>>

\* One of them is updated with the data that was read.
Halt(r) ==
    /\ me[r].pc = "halt"
    /\ \E row \in DOMAIN me[r].found :
          /\ Unlocked(r, row)
          /\ Write(r, row, [me[r].found[row] EXCEPT
                              !.status = "STOPPED", !.stopped = TRUE])
          /\ me' = [me EXCEPT ![r].found =
                      [i \in DOMAIN @ \ {row} |-> me[r].found[i]]]
    /\ UNCHANGED <<db, pending>>

\* Variant: no state is deleted.
ScanNothing(r) ==
    /\ me[r].pc = "halt"
    /\ DOMAIN me[r].found = {}
    /\ me' = [me EXCEPT ![r].pc = "erase", ![r].erase = {}]
    /\ UNCHANGED <<db, tx, pending>>

\* The delete statement finds the state rows it can see.
Scan(r) ==
    /\ me[r].pc = "halt"
    /\ DOMAIN me[r].found = {}
    /\ me' = [me EXCEPT ![r].pc = "erase",
                        ![r].erase = {row \in @ : Visible(r, row) # Absent}]
    /\ UNCHANGED <<db, tx, pending>>

Erase(r) ==
    /\ me[r].pc = "erase"
    /\ \E row \in me[r].erase :
          /\ Unlocked(r, row)
          /\ Write(r, row, Absent)
          /\ me' = [me EXCEPT ![r].erase = @ \ {row}]
    /\ UNCHANGED <<db, pending>>

StopDone(r) ==
    /\ me[r].pc = "erase"
    /\ me[r].erase = {}
    /\ me' = [me EXCEPT ![r].pc = IF me[r].op = "disable" THEN "commit" ELSE "stop"]
    /\ UNCHANGED <<db, tx, pending>>

\* The last statement of rules.activate.
Confirm(r) ==
    LET row == VersionRow(me[r].target)
    IN  /\ me[r].pc = "stop" /\ me[r].stopping = {}
        /\ Unlocked(r, row)
        /\ Write(r, row, [Visible(r, row) EXCEPT !.status = "ACTIVE"])
        /\ me' = [me EXCEPT ![r].pc = "commit"]
        /\ UNCHANGED <<db, pending>>

Commit(r) ==
    /\ me[r].pc = "commit"
    /\ db' = Overlay(tx[r], db)
    /\ tx' = [tx EXCEPT ![r] = <<>>]
    /\ me' = [me EXCEPT ![r] = Idle]
    /\ UNCHANGED pending

-------------------------------------------------------------------------------
(* The evaluator. *)

\* A frame becomes due: telemetry was committed and two seconds have passed.
Due ==
    /\ pending < MaxPending
    /\ pending' = pending + 1
    /\ UNCHANGED <<db, tx, me>>

\* Variant: evaluators drain side by side.
TryLockAlways(e) == TRUE

\* pg_try_advisory_xact_lock: a second evaluator goes back to sleep.
TryLock(e) == \A q \in Evaluators \ {e} : me[q].pc = "idle"

\* Variant: drafts are evaluated too.
StartDrainDrafts(e) ==
    /\ me[e].pc = "idle"
    /\ MayBegin
    /\ TryLock(e)
    /\ \E frames \in 1 .. pending :
          me' = [me EXCEPT ![e].pc = "frame", ![e].frames = frames,
                           ![e].taken = frames,
                           ![e].known = WithStatus(e, "ACTIVE") \cup WithStatus(e, "DRAFT")]
    /\ UNCHANGED <<db, tx, pending>>

\* The frames to evaluate, and the versions to evaluate them for, are read.
StartDrain(e) ==
    /\ me[e].pc = "idle"
    /\ MayBegin
    /\ TryLock(e)
    /\ \E frames \in 1 .. pending :
          me' = [me EXCEPT ![e].pc = "frame", ![e].frames = frames,
                           ![e].taken = frames, ![e].known = WithStatus(e, "ACTIVE")]
    /\ UNCHANGED <<db, tx, pending>>

\* The pairs with changed points whose activation does not begin later; a pair
\* for which the frame is late is left out, as it changes nothing.
Frame(e) ==
    /\ me[e].pc = "frame"
    /\ me[e].todo = {} /\ me[e].frames > 0
    /\ \E todo \in SUBSET (me[e].known \X Equipment) :
          me' = [me EXCEPT ![e].frames = @ - 1, ![e].todo = todo]
    /\ UNCHANGED <<db, tx, pending>>

\* The open issue according to the state row that is read.
Reference(e, p) ==
    LET row == Visible(e, StateRow(p)) IN IF row = Absent THEN 0 ELSE row.issue

\* A frame that leaves the issue of the pair as it is.
Keep(e, p) ==
    /\ me' = [me EXCEPT ![e].pc = "put", ![e].todo = @ \ {p}, ![e].pair = p,
                        ![e].next = [issue |-> Reference(e, p)]]
    /\ UNCHANGED <<db, tx, pending>>

\* The interval reaches the duration: an issue is inserted.
Trigger(e, p) ==
    /\ Reference(e, p) = 0
    /\ \E n \in Indices :
          /\ Visible(e, IssueRow(p, n)) = Absent
          /\ \A m \in 1 .. n - 1 : Visible(e, IssueRow(p, m)) # Absent
          /\ Write(e, IssueRow(p, n),
                   [status |-> "ACTIVE", recovered |-> FALSE, stopped |-> FALSE])
          /\ me' = [me EXCEPT ![e].pc = "put", ![e].todo = @ \ {p}, ![e].pair = p,
                              ![e].next = [issue |-> n]]
    /\ UNCHANGED <<db, pending>>

\* The fault is over: the issue has to be closed first.
Clear(e, p) ==
    /\ Reference(e, p) # 0
    /\ me' = [me EXCEPT ![e].pc = "reread", ![e].todo = @ \ {p}, ![e].pair = p,
                        ![e].ref = Reference(e, p), ![e].next = [issue |-> 0]]
    /\ UNCHANGED <<db, tx, pending>>

Evaluate(e) ==
    /\ me[e].pc = "frame"
    /\ \E p \in me[e].todo : Keep(e, p) \/ Trigger(e, p) \/ Clear(e, p)

OpenIssue(e) == IssueRow(me[e].pair, me[e].ref)

ReadIssue(e) ==
    /\ me[e].pc = "reread"
    /\ me' = [me EXCEPT ![e].pc = "recover", ![e].read = Visible(e, OpenIssue(e))]
    /\ UNCHANGED <<db, tx, pending>>

\* The update is by id, with the data that was read.
Recover(e) ==
    /\ me[e].pc = "recover"
    /\ Unlocked(e, OpenIssue(e))
    /\ Write(e, OpenIssue(e),
             [me[e].read EXCEPT !.status = "RECOVERED", !.recovered = TRUE])
    /\ me' = [me EXCEPT ![e].pc = "put", ![e].read = Absent, ![e].ref = 0]
    /\ UNCHANGED <<db, pending>>

PutState(e) ==
    LET row == StateRow(me[e].pair)
    IN  /\ me[e].pc = "put"
        /\ Unlocked(e, row)
        /\ Write(e, row, me[e].next)
        /\ me' = [me EXCEPT ![e].pc = "frame", ![e].pair = Absent,
                            ![e].next = Absent]
        /\ UNCHANGED <<db, pending>>

\* The outbox items are marked in the same transaction.
FinishDrain(e) ==
    /\ me[e].pc = "frame"
    /\ me[e].todo = {} /\ me[e].frames = 0
    /\ db' = Overlay(tx[e], db)
    /\ pending' = pending - me[e].taken
    /\ tx' = [tx EXCEPT ![e] = <<>>]
    /\ me' = [me EXCEPT ![e] = Asleep]

-------------------------------------------------------------------------------
\* The transaction is rolled back: the process ends, PostgreSQL aborts one
\* transaction of a deadlock, validation or the reviewed preview fails, or the
\* version to activate is no draft.
Fail(p) ==
    /\ me[p].pc # "idle"
    /\ tx' = [tx EXCEPT ![p] = <<>>]
    /\ me' = [me EXCEPT ![p] = IF p \in Requests THEN Idle ELSE Asleep]
    /\ UNCHANGED <<db, pending>>

RequestStep(r) ==
    \/ Request(r, "create", 0)
    \/ \E v \in Versions : Request(r, "activate", v) \/ Request(r, "disable", v)
    \/ Create(r) \/ Check(r) \/ Confirm(r)
    \/ Stop(r) \/ Halt(r) \/ Scan(r) \/ Erase(r) \/ StopDone(r)
    \/ Commit(r)

EvaluatorStep(e) ==
    \/ StartDrain(e) \/ Frame(e) \/ Evaluate(e)
    \/ ReadIssue(e) \/ Recover(e) \/ PutState(e) \/ FinishDrain(e)

Next ==
    \/ Due
    \/ \E r \in Requests : RequestStep(r)
    \/ \E e \in Evaluators : EvaluatorStep(e)
    \/ \E p \in Processes : Fail(p)

Spec == Init /\ [][Next]_vars

-------------------------------------------------------------------------------
(* Properties, of what is committed. *)

Has(v, status) == db[VersionRow(v)] # Absent /\ db[VersionRow(v)].status = status

Open(p, n) == db[IssueRow(p, n)] # Absent /\ db[IssueRow(p, n)].status = "ACTIVE"

\* A rule has at most one version in service, and no two of its versions share
\* a number, however requests interleave (rules.py, the rule's advisory lock).
OneVersionInService ==
    /\ \A u, v \in Versions : Has(u, "ACTIVE") /\ Has(v, "ACTIVE") => u = v
    /\ \A u, v \in Versions :
          db[VersionRow(u)] # Absent /\ db[VersionRow(v)] # Absent
              /\ db[VersionRow(u)].number = db[VersionRow(v)].number => u = v

\* The state of a pair in service refers to its open issue, and the pair has no
\* other: evaluation never opens a second one, never loses one
\* (evaluator.py, state["issue_id"]).
OpenIssueInState ==
    \A p \in Pairs : Has(p[1], "ACTIVE") =>
        \A n \in Indices :
            Open(p, n) <=> db[StateRow(p)] # Absent /\ db[StateRow(p)].issue = n

\* A disabled version has no open issue and no state (docs/afdd.md:51, "Disable
\* the former active version, stop its active issues and clear its states").
OutOfServiceIsQuiet ==
    \A p \in Pairs : Has(p[1], "DISABLED") =>
        db[StateRow(p)] = Absent /\ \A n \in Indices : ~Open(p, n)

\* An issue that has recovered or was stopped is never written again
\* (docs/architecture.md:59, "without rewriting historical evidence").
ClosedStaysClosed ==
    [][\A row \in IssueRows :
          db[row] # Absent /\ db[row].status # "ACTIVE" => db'[row] = db[row]]_db

\* Only a draft enters service (rules.py:68, "Only a draft can be activated;
\* adjust to create a new version").
OnlyDraftsActivated ==
    [][\A v \in Versions :
          (Has(v, "ACTIVE"))' /\ ~Has(v, "ACTIVE") => Has(v, "DRAFT")]_db

Lifecycle == INSTANCE RuleLifecycle WITH
    versions <- [v \in Versions |-> db[VersionRow(v)]],
    issues <- [i \in Pairs \X Indices |-> db[IssueRow(i[1], i[2])]],
    states <- [p \in Pairs |-> db[StateRow(p)]]

\* Where transactions are serial, each commit is one step of the lifecycle.
LifecycleSpec == Lifecycle!Spec
===============================================================================
