---------------------------- MODULE MonitoringProofs ----------------------------
(***************************************************************************)
(* Theorems about Monitoring on either dialect, for any number of requests *)
(* and evaluators, versions, equipment, issues and frames.                 *)
(***************************************************************************)
EXTENDS Monitoring, TLAPS

-------------------------------------------------------------------------------
(* The inductive invariant. *)

Exists(v) == db[VersionRow(v)] # Absent

\* r holds the rule's advisory lock.
Holds(r) == me[r].op \in {"create", "activate"} /\ me[r].pc \notin {"idle", "lock"}

\* One request holds the rule's lock, and one evaluator drains.
Exclusive ==
    /\ \A r, q \in Requests : Holds(r) /\ Holds(q) => r = q
    /\ \A e, f \in Evaluators : me[e].pc # "idle" /\ me[f].pc # "idle" => e = f

\* Versions are numbered one by one.
Numbered ==
    \A v \in Versions : Exists(v) =>
        /\ db[VersionRow(v)].number = v
        /\ \A u \in 1 .. v - 1 : Exists(u)

\* Nothing was ever evaluated for v.
Untouched(v) ==
    /\ \A p \in Pairs : p[1] = v =>
          db[StateRow(p)] = Absent /\ \A n \in Indices : db[IssueRow(p, n)] = Absent
    /\ \A e \in Evaluators : v \notin me[e].known

DraftsUntouched ==
    \A v \in Versions : ~Exists(v) \/ Has(v, "DRAFT") => Untouched(v)

\* What a request has written of the versions: it has stopped v, or at its end
\* put v in service, or created v.
Stopped(r, v) ==
    /\ VersionRow(v) \in DOMAIN tx[r]
    /\ tx[r][VersionRow(v)].status = "DISABLED"
    /\ Exists(v)
    /\ me[r].op = "activate" => v # me[r].target

Activated(r, v) ==
    /\ tx[r][VersionRow(v)].status = "ACTIVE"
    /\ me[r].op = "activate" /\ me[r].pc = "commit" /\ v = me[r].target

Created(r, v) ==
    /\ tx[r][VersionRow(v)].status = "DRAFT"
    /\ me[r].op = "create" /\ me[r].pc = "commit"
    /\ ~Exists(v) /\ \A u \in 1 .. v - 1 : Exists(u)

WritesVersions(r) ==
    \A v \in Versions : VersionRow(v) \in DOMAIN tx[r] =>
        /\ tx[r][VersionRow(v)] # Absent /\ tx[r][VersionRow(v)].number = v
        /\ Stopped(r, v) \/ Activated(r, v) \/ Created(r, v)

\* It writes and means to write the issues and states of versions it has
\* stopped; the issues exist.
WritesEvidence(r) ==
    \A p \in Pairs :
        /\ StateRow(p) \in DOMAIN tx[r] => tx[r][StateRow(p)] = Absent
        /\ StateRow(p) \in DOMAIN tx[r] \cup me[r].erase => Stopped(r, p[1])
        /\ \A n \in Indices :
              /\ IssueRow(p, n) \in DOMAIN tx[r] => tx[r][IssueRow(p, n)] # Absent
              /\ IssueRow(p, n) \in DOMAIN tx[r] \cup DOMAIN me[r].found =>
                    Stopped(r, p[1]) /\ db[IssueRow(p, n)] # Absent

\* What it is about: versions that exist; one that is to be activated has never
\* been in service, and every other version in service is stopped before.
Place(r) ==
    /\ me[r].pc = "idle" <=> me[r].op = "none"
    /\ me[r].pc = "lock" => DOMAIN tx[r] = {} /\ me[r].op # "disable"
    /\ me[r].pc \in {"idle", "lock"} => me[r].stopping = {}
    /\ me[r].pc # "halt" => DOMAIN me[r].found = {}
    /\ me[r].pc \notin {"halt", "erase"} => me[r].erase = {}
    /\ me[r].op = "create" => me[r].pc \in {"lock", "commit"}
    /\ me[r].op \in {"activate", "disable"} =>
          me[r].target \in Versions /\ Exists(me[r].target)
    /\ me[r].pc = "stop" /\ me[r].stopping = {} => me[r].op = "activate"
    /\ \A v \in me[r].stopping : Exists(v)

Activates(r) ==
    Holds(r) /\ me[r].op = "activate" =>
        /\ Untouched(me[r].target) /\ ~Has(me[r].target, "ACTIVE")
        /\ me[r].target \notin me[r].stopping
        /\ me[r].pc = "commit" => me[r].stopping = {}
        /\ \A v \in Versions : Has(v, "ACTIVE") =>
              v \in me[r].stopping \/ VersionRow(v) \in DOMAIN tx[r]

\* The view of an evaluator: its issues and states are those of the versions it
\* knows, and a state that is read or is to be put refers to an issue that exists.
OpenFor(e, p, n) ==
    LET row == Visible(e, IssueRow(p, n)) IN row # Absent /\ row.status = "ACTIVE"

WritesKnown(e) ==
    /\ \A v \in Versions : VersionRow(v) \notin DOMAIN tx[e]
    /\ \A p \in Pairs :
          /\ StateRow(p) \in DOMAIN tx[e] => p[1] \in me[e].known /\ tx[e][StateRow(p)] # Absent
          /\ \A n \in Indices : IssueRow(p, n) \in DOMAIN tx[e] =>
                p[1] \in me[e].known /\ tx[e][IssueRow(p, n)] # Absent

RefersTo(e, p, n) == n \in Indices => Visible(e, IssueRow(p, n)) # Absent

Refers(e) ==
    /\ \A p \in Pairs : RefersTo(e, p, Reference(e, p))
    /\ me[e].pc \in {"reread", "recover"} => RefersTo(e, me[e].pair, me[e].ref)
    /\ me[e].pc = "put" => RefersTo(e, me[e].pair, me[e].next.issue)

\* The open issue of a pair in service, as the evaluator goes on to record it.
Recorded(e, p) ==
    IF me[e].pc = "put" /\ p = me[e].pair THEN me[e].next.issue ELSE Reference(e, p)

SeesOpenIssue(e) ==
    /\ \A p \in Pairs : Has(p[1], "ACTIVE") =>
          \A n \in Indices : OpenFor(e, p, n) <=> Recorded(e, p) = n
    /\ me[e].pc \in {"reread", "recover"} =>
          /\ me[e].next.issue = 0
          /\ Has(me[e].pair[1], "ACTIVE") => Reference(e, me[e].pair) = me[e].ref

StatesRefer ==
    \A p \in Pairs, n \in Indices :
        db[StateRow(p)] # Absent /\ db[StateRow(p)].issue = n => db[IssueRow(p, n)] # Absent

RequestInv(r) == WritesVersions(r) /\ WritesEvidence(r) /\ Place(r) /\ Activates(r)

EvaluatorInv(e) == WritesKnown(e) /\ Refers(e) /\ SeesOpenIssue(e)

IInv ==
    /\ TypeOK
    /\ Exclusive /\ Numbered /\ DraftsUntouched /\ StatesRefer
    /\ \A r \in Requests : RequestInv(r)
    /\ \A e \in Evaluators : EvaluatorInv(e)
    /\ OneVersionInService /\ OpenIssueInState

-------------------------------------------------------------------------------
(* Rows and their values. *)

\* Two rows are the same only if they are named the same.
LEMMA RowNames ==
    /\ \A u, v : VersionRow(u) = VersionRow(v) => u = v
    /\ \A p, q, m, n : IssueRow(p, m) = IssueRow(q, n) => p = q /\ m = n
    /\ \A p, q : StateRow(p) = StateRow(q) => p = q
    /\ \A p, n, v : IssueRow(p, n) # VersionRow(v)
    /\ \A p, v : StateRow(p) # VersionRow(v)
    /\ \A p, q, n : StateRow(p) # IssueRow(q, n)
    /\ \A p, n : IssueRow(p, n)[2] = p
  BY DEF VersionRow, IssueRow, StateRow

LEMMA RowsOfPairs ==
    /\ \A v \in Versions : VersionRow(v) \in Rows /\ VersionRow(v) \in VersionRows
    /\ \A p \in Pairs, n \in Indices : IssueRow(p, n) \in Rows /\ IssueRow(p, n) \in IssueRows
    /\ \A p \in Pairs : StateRow(p) \in Rows /\ StateRow(p) \in StateRows
  BY DEF Rows, VersionRows, IssueRows, StateRows

LEMMA ValuesOfRows ==
    /\ \A v \in Versions : Values(VersionRow(v)) = Version
    /\ \A p \in Pairs, n \in Indices : Values(IssueRow(p, n)) = Issue
    /\ \A p \in Pairs : Values(StateRow(p)) = State
  <1>1. \A v \in Versions : Values(VersionRow(v)) = Version
    BY RowsOfPairs, RowNames DEF Values, IssueRows
  <1>2. \A p \in Pairs, n \in Indices : Values(IssueRow(p, n)) = Issue
    BY RowsOfPairs, RowNames DEF Values, VersionRows
  <1>3. \A p \in Pairs : Values(StateRow(p)) = State
    BY RowsOfPairs, RowNames DEF Values, VersionRows, IssueRows
  <1> QED BY <1>1, <1>2, <1>3

\* What a process sees of the database.
LEMMA VisibleType ==
    ASSUME StoreTyped, NEW p \in Processes
    PROVE  /\ \A v \in Versions : Visible(p, VersionRow(v)) # Absent =>
                 Visible(p, VersionRow(v)) \in Version
           /\ \A pair \in Pairs, n \in Indices : Visible(p, IssueRow(pair, n)) # Absent =>
                 Visible(p, IssueRow(pair, n)) \in Issue
           /\ \A pair \in Pairs : Visible(p, StateRow(pair)) # Absent =>
                 Visible(p, StateRow(pair)) \in State
  <1>1. \A row \in Rows : Visible(p, row) \in Values(row) \cup {Absent}
    BY DEF StoreTyped, Visible
  <1> QED BY <1>1, ValuesOfRows, RowsOfPairs

LEMMA ReferenceType ==
    ASSUME StoreTyped, NEW p \in Processes, NEW pair \in Pairs
    PROVE  Reference(p, pair) \in 0 .. MaxIssues
  BY VisibleType, BoundsAssumption DEF Reference, State

-------------------------------------------------------------------------------
(* What a write does to what is seen. *)

LEMMA WriteEffect ==
    ASSUME DOMAIN tx = Processes, NEW p \in Processes, NEW row, NEW value,
           Write(p, row, value)
    PROVE  /\ DOMAIN tx' = Processes
           /\ DOMAIN tx'[p] = DOMAIN tx[p] \cup {row}
           /\ tx'[p][row] = value
           /\ \A x \in DOMAIN tx[p] \ {row} : tx'[p][x] = tx[p][x]
           /\ \A q \in Processes \ {p} : tx'[q] = tx[q]
  BY DEF Write, Overlay

LEMMA WriteSeen ==
    ASSUME DOMAIN tx = Processes, NEW p \in Processes, NEW row, NEW value,
           Write(p, row, value), db' = db
    PROVE  /\ Visible(p, row)' = value
           /\ \A x : x # row => Visible(p, x)' = Visible(p, x)
           /\ \A q \in Processes \ {p} : \A x : Visible(q, x)' = Visible(q, x)
  <1>1. Visible(p, row)' = value
    BY WriteEffect DEF Visible
  <1>2. ASSUME NEW x, x # row PROVE Visible(p, x)' = Visible(p, x)
    BY <1>2, WriteEffect DEF Visible
  <1>3. ASSUME NEW q \in Processes \ {p}, NEW x PROVE Visible(q, x)' = Visible(q, x)
    BY <1>3, WriteEffect DEF Visible
  <1> QED BY <1>1, <1>2, <1>3

\* A write of a value of the row's kind, where no other transaction has written.
LEMMA WriteTyped ==
    ASSUME StoreTyped, NEW p \in Processes, NEW row \in Rows, NEW value,
           value \in Values(row) \cup {Absent},
           Write(p, row, value), Unlocked(p, row), db' = db,
           DOMAIN me' = Processes, me'[p].pc # "idle",
           \A q \in Processes \ {p} : me'[q] = me[q]
    PROVE  StoreTyped'
  <1>1. DOMAIN tx' = Processes /\ \A q \in Processes \ {p} : tx'[q] = tx[q]
    BY WriteEffect DEF StoreTyped
  <1>2. /\ DOMAIN tx'[p] = DOMAIN tx[p] \cup {row}
        /\ \A x \in DOMAIN tx'[p] : tx'[p][x] \in Values(x) \cup {Absent}
    BY WriteEffect DEF StoreTyped
  <1>3. \A u, v \in Processes : u # v => DOMAIN tx'[u] \cap DOMAIN tx'[v] = {}
    BY <1>1, <1>2 DEF StoreTyped, Unlocked
  <1> QED BY <1>1, <1>2, <1>3 DEF StoreTyped, Values

\* What is in the database and in nobody's transaction.
LEMMA EmptyTx ==
    ASSUME StoreTyped, NEW p \in Processes, me[p].pc = "idle"
    PROVE  DOMAIN tx[p] = {} /\ \A x : Visible(p, x) = db[x]
  <1>1. tx[p] = <<>>
    BY DEF StoreTyped
  <1> QED BY <1>1 DEF Visible

\* The end of a transaction: what it saw is what is committed.
LEMMA CommitEffect ==
    ASSUME StoreTyped, NEW p \in Processes,
           db' = Overlay(tx[p], db), tx' = [tx EXCEPT ![p] = <<>>]
    PROVE  /\ DOMAIN db' = Rows
           /\ \A row \in Rows : db'[row] = Visible(p, row)
           /\ DOMAIN tx' = Processes /\ tx'[p] = <<>> /\ DOMAIN tx'[p] = {}
           /\ \A q \in Processes \ {p} : tx'[q] = tx[q]
  BY DEF StoreTyped, Overlay, Visible

LEMMA EndTyped ==
    ASSUME StoreTyped, NEW p \in Processes, tx' = [tx EXCEPT ![p] = <<>>],
           db' = db \/ db' = Overlay(tx[p], db),
           DOMAIN me' = Processes, \A q \in Processes \ {p} : me'[q] = me[q]
    PROVE  StoreTyped'
  <1>1. /\ DOMAIN db' = Rows /\ DOMAIN tx' = Processes
        /\ \A row \in Rows : db'[row] = db[row] \/ db'[row] = Visible(p, row)
    BY CommitEffect DEF StoreTyped
  <1>2. \A row \in Rows : db'[row] \in Values(row) \cup {Absent}
    BY <1>1 DEF StoreTyped, Visible
  <1>3. /\ \A q \in Processes \ {p} : tx'[q] = tx[q]
        /\ tx'[p] = <<>> /\ DOMAIN tx'[p] = {}
    BY DEF StoreTyped
  <1> QED BY <1>1, <1>2, <1>3 DEF StoreTyped, Values

LEMMA NoWriteTyped ==
    ASSUME StoreTyped, NEW p \in Processes, tx' = tx, db' = db,
           DOMAIN me' = Processes, \A q \in Processes \ {p} : me'[q] = me[q],
           me'[p].pc = "idle" => tx[p] = <<>>
    PROVE  StoreTyped'
  BY DEF StoreTyped, Values

-------------------------------------------------------------------------------
(* What a step of one process leaves alone. *)

OthersKept(p) ==
    /\ DOMAIN me' = Processes
    /\ \A q \in Processes \ {p} : me'[q] = me[q] /\ tx'[q] = tx[q]

LEMMA ProcessesSplit ==
    /\ \A r \in Requests : r \in Processes /\ r \notin Evaluators
    /\ \A e \in Evaluators : e \in Processes /\ e \notin Requests
  BY ProcessesAssumption DEF Processes

\* A request that takes no part in a step, when no evaluator learns of a
\* version that is not in service.
LEMMA RequestKept ==
    ASSUME NEW q \in Requests, RequestInv(q), db' = db,
           me'[q] = me[q], tx'[q] = tx[q],
           \A e \in Evaluators : \A v \in me'[e].known :
              v \in me[e].known \/ Has(v, "ACTIVE")
    PROVE  RequestInv(q)'
  <1> USE DEF RequestInv
  <1>1. WritesVersions(q)'
    BY DEF WritesVersions, Stopped, Activated, Created, Exists
  <1>2. WritesEvidence(q)'
    BY DEF WritesEvidence, Stopped, Exists
  <1>3. Place(q)'
    BY DEF Place, Exists
  <1>4. Activates(q)'
    BY DEF Activates, Holds, Untouched, Has
  <1> QED BY <1>1, <1>2, <1>3, <1>4

LEMMA EvaluatorKept ==
    ASSUME NEW e \in Evaluators, EvaluatorInv(e), db' = db,
           me'[e] = me[e], tx'[e] = tx[e]
    PROVE  EvaluatorInv(e)'
  <1> USE DEF EvaluatorInv
  <1>1. WritesKnown(e)'
    BY DEF WritesKnown
  <1>2. Refers(e)'
    BY DEF Refers, RefersTo, Reference, Visible
  <1>3. SeesOpenIssue(e)'
    BY DEF SeesOpenIssue, OpenFor, Recorded, Reference, Visible, Has
  <1> QED BY <1>1, <1>2, <1>3

\* What holds of the database alone.
LEMMA StoreKept ==
    ASSUME IInv, db' = db,
           \A e \in Evaluators : \A v \in me'[e].known :
              v \in me[e].known \/ Has(v, "ACTIVE")
    PROVE  /\ Numbered' /\ DraftsUntouched' /\ StatesRefer'
           /\ OneVersionInService' /\ OpenIssueInState'
  <1> USE DEF IInv
  <1>1. Numbered' /\ StatesRefer'
    BY DEF Numbered, StatesRefer, Exists
  <1>2. DraftsUntouched'
    BY DEF DraftsUntouched, Untouched, Exists, Has
  <1>3. OneVersionInService' /\ OpenIssueInState'
    BY DEF OneVersionInService, OpenIssueInState, Has, Open
  <1> QED BY <1>1, <1>2, <1>3

\* A request's step that does not commit.
LEMMA RequestStepKeeps ==
    ASSUME IInv, NEW r \in Requests, OthersKept(r), UNCHANGED <<db, pending>>,
           StoreTyped', RequestTyped(r)', RequestInv(r)',
           Holds(r)' => Holds(r) \/ ~RuleLocked(r)
    PROVE  IInv'
  <1> USE ProcessesSplit
  <1>1. \A e \in Evaluators : me'[e] = me[e] /\ tx'[e] = tx[e]
    BY DEF OthersKept
  <1>2. /\ Numbered' /\ DraftsUntouched' /\ StatesRefer'
        /\ OneVersionInService' /\ OpenIssueInState'
    BY <1>1, StoreKept
  <1>3. \A q \in Requests : RequestInv(q)'
    BY <1>1, RequestKept DEF IInv, OthersKept
  <1>4. \A e \in Evaluators : EvaluatorInv(e)'
    BY <1>1, EvaluatorKept DEF IInv
  <1>5. Exclusive'
    BY <1>1 DEF IInv, Exclusive, Holds, OthersKept, RuleLocked
  <1>6. TypeOK'
    BY <1>1 DEF IInv, TypeOK, RequestTyped, EvaluatorTyped, OthersKept
  <1> QED BY <1>2, <1>3, <1>4, <1>5, <1>6 DEF IInv

\* An evaluator's step that does not commit.
LEMMA EvaluatorStepKeeps ==
    ASSUME IInv, NEW e \in Evaluators, OthersKept(e), UNCHANGED <<db, pending>>,
           StoreTyped', EvaluatorTyped(e)', EvaluatorInv(e)',
           \A v \in me'[e].known : v \in me[e].known \/ Has(v, "ACTIVE"),
           me'[e].pc = "idle" \/ me[e].pc # "idle" \/ TryLock(e)
    PROVE  IInv'
  <1> USE ProcessesSplit
  <1>1. \A r \in Requests : me'[r] = me[r] /\ tx'[r] = tx[r]
    BY DEF OthersKept
  <1>2. \A f \in Evaluators : \A v \in me'[f].known : v \in me[f].known \/ Has(v, "ACTIVE")
    BY DEF OthersKept
  <1>3. /\ Numbered' /\ DraftsUntouched' /\ StatesRefer'
        /\ OneVersionInService' /\ OpenIssueInState'
    BY <1>2, StoreKept
  <1>4. \A r \in Requests : RequestInv(r)'
    BY <1>1, <1>2, RequestKept DEF IInv
  <1>5. \A f \in Evaluators : EvaluatorInv(f)'
    BY EvaluatorKept DEF IInv, OthersKept
  <1>6. Exclusive'
    BY <1>1 DEF IInv, Exclusive, Holds, OthersKept, TryLock
  <1>7. TypeOK'
    BY <1>1 DEF IInv, TypeOK, RequestTyped, EvaluatorTyped, OthersKept
  <1> QED BY <1>3, <1>4, <1>5, <1>6, <1>7 DEF IInv

-------------------------------------------------------------------------------
(* The steps of a request. *)

\* A version that a request sees has its number.
LEMMA VersionSeen ==
    ASSUME IInv, NEW r \in Requests, NEW v \in Versions, Exists(v)
    PROVE  /\ Visible(r, VersionRow(v)) \in Version
           /\ Visible(r, VersionRow(v)) # Absent
           /\ Visible(r, VersionRow(v)).number = v
  <1>1. Visible(r, VersionRow(v)) # Absent /\ Visible(r, VersionRow(v)).number = v
    BY DEF IInv, RequestInv, WritesVersions, Numbered, Visible, Exists
  <1> QED BY <1>1, VisibleType, ProcessesSplit DEF IInv, TypeOK

LEMMA RequestBegins ==
    ASSUME IInv, NEW r \in Requests, NEW op \in {"create", "activate", "disable"},
           NEW target \in 0 .. MaxVersions,
           op # "create" => target \in Versions,
           Request(r, op, target)
    PROVE  IInv'
  <1> USE ProcessesSplit
  <1>1. /\ StoreTyped /\ RequestTyped(r) /\ me[r].pc = "idle" /\ tx' = tx
        /\ UNCHANGED <<db, pending>>
        /\ op # "create" => Exists(target)
        /\ DOMAIN tx[r] = {}
    BY EmptyTx DEF IInv, TypeOK, Request, Exists
  <1>2. /\ me'[r].pc = (IF op = "disable" THEN "stop" ELSE "lock")
        /\ me'[r].op = op /\ me'[r].target = target
        /\ me'[r].stopping = (IF op = "disable" THEN {target} ELSE {})
        /\ me'[r].found = me[r].found /\ me'[r].erase = me[r].erase
        /\ DOMAIN me'[r] = DOMAIN me[r]
    BY <1>1 DEF Request, StoreTyped, RequestTyped, Idle
  <1>3. OthersKept(r)
    BY <1>1 DEF Request, OthersKept, StoreTyped
  <1>4. DOMAIN me[r].found = {} /\ me[r].erase = {}
    BY <1>1 DEF IInv, RequestInv, Place
  <1>5. StoreTyped'
    BY <1>1, <1>2, <1>3, NoWriteTyped DEF OthersKept
  <1>6. RequestTyped(r)'
    BY <1>1, <1>2 DEF RequestTyped
  <1>7. WritesVersions(r)' /\ WritesEvidence(r)'
    BY <1>1, <1>2, <1>4 DEF WritesVersions, WritesEvidence
  <1>8. Place(r)'
    BY <1>1, <1>2, <1>4 DEF Place, Exists
  <1>9. ~Holds(r)' \/ op = "disable"
    BY <1>2 DEF Holds
  <1>10. Activates(r)' /\ (Holds(r)' => Holds(r) \/ ~RuleLocked(r))
    BY <1>2 DEF Activates, Holds
  <1> QED
    BY <1>1, <1>3, <1>5, <1>6, <1>7, <1>8, <1>10, RequestStepKeeps DEF RequestInv

\* While a request holds the rule's lock, nobody else has created a version.
LEMMA NobodyCreates ==
    ASSUME IInv, NEW r \in Requests, ~RuleLocked(r), me[r].pc = "lock", NEW v \in Versions
    PROVE  /\ Unused(v) <=> ~Exists(v)
           /\ \A q \in Processes : VersionRow(v) \in DOMAIN tx[q] => Exists(v)
           /\ Visible(r, VersionRow(v)) = db[VersionRow(v)]
  <1> USE ProcessesSplit
  <1>1. DOMAIN tx[r] = {} /\ Visible(r, VersionRow(v)) = db[VersionRow(v)]
    BY DEF IInv, RequestInv, Place, Visible
  <1>2. ASSUME NEW q \in Requests, VersionRow(v) \in DOMAIN tx[q]
        PROVE  Exists(v)
    BY <1>1, <1>2 DEF IInv, RequestInv, WritesVersions, Stopped, Activated, Created,
                      RuleLocked, Place, Exists
  <1>3. ASSUME NEW q \in Processes, VersionRow(v) \in DOMAIN tx[q]
        PROVE  Exists(v)
    BY <1>2, <1>3 DEF IInv, EvaluatorInv, WritesKnown, Processes
  <1>4. Unused(v) <=> ~Exists(v)
    BY <1>1, <1>3 DEF Unused, Exists, Visible
  <1> QED BY <1>1, <1>3, <1>4

\* The next number is that of the next version.
LEMMA NextNumberIs ==
    ASSUME IInv, NEW r \in Requests, ~RuleLocked(r), me[r].pc = "lock",
           NEW v \in Versions, ~Exists(v), \A u \in 1 .. v - 1 : Exists(u)
    PROVE  NextNumber(r) = v
  <1> USE BoundsAssumption
  <1> DEFINE numbers == {0} \cup {Visible(r, VersionRow(w)).number :
                           w \in {u \in Versions : Visible(r, VersionRow(u)) # Absent}}
  <1>1. v \in Nat /\ v >= 1 /\ v <= MaxVersions
    BY DEF Versions
  <1>2. \A u \in Versions : Visible(r, VersionRow(u)) # Absent <=> u < v
    <2>1. \A u \in Versions : u < v => Exists(u)
      BY <1>1 DEF Versions
    <2>2. \A u \in Versions : Exists(u) => u < v
      BY <1>1 DEF IInv, Numbered, Versions
    <2>3. \A u \in Versions : Visible(r, VersionRow(u)) # Absent <=> Exists(u)
      BY NobodyCreates DEF Exists
    <2> QED BY <2>1, <2>2, <2>3
  <1>3. \A u \in Versions : u < v => Visible(r, VersionRow(u)).number = u
    BY <1>2, NobodyCreates DEF IInv, Numbered, Exists
  <1>4. {u \in Versions : Visible(r, VersionRow(u)) # Absent} = 1 .. v - 1
    BY <1>1, <1>2 DEF Versions
  <1>5. numbers = 0 .. v - 1
    <2>1. \A w \in 1 .. v - 1 : Visible(r, VersionRow(w)).number = w
      BY <1>1, <1>3 DEF Versions
    <2>2. {Visible(r, VersionRow(w)).number : w \in 1 .. v - 1} = 1 .. v - 1
      BY <2>1
    <2> QED BY <1>1, <1>4, <2>2
  <1>6. Max(0 .. v - 1) = v - 1
    BY <1>1 DEF Max
  <1>7. NextNumber(r) = 1 + Max(numbers)
    BY DEF NextNumber
  <1>8. Max(numbers) = v - 1
    BY <1>5, <1>6
  <1> HIDE DEF numbers
  <1> QED BY <1>1, <1>7, <1>8

LEMMA CreateKeeps ==
    ASSUME IInv, NEW r \in Requests, Create(r)
    PROVE  IInv'
  <1> USE ProcessesSplit
  <1>1. PICK v \in Versions :
          /\ Unused(v) /\ \A u \in 1 .. v - 1 : ~Unused(u)
          /\ Write(r, VersionRow(v), [status |-> "DRAFT", number |-> NextNumber(r)])
    BY DEF Create
  <1>2. /\ StoreTyped /\ RequestTyped(r) /\ me[r].pc = "lock" /\ me[r].op = "create"
        /\ ~RuleLocked(r) /\ UNCHANGED <<db, pending>> /\ DOMAIN tx[r] = {}
    BY DEF IInv, TypeOK, Create, RequestInv, Place
  <1>3. /\ me'[r].pc = "commit" /\ me'[r].op = "create" /\ DOMAIN me'[r] = DOMAIN me[r]
        /\ me'[r].target = me[r].target /\ me'[r].stopping = me[r].stopping
        /\ me'[r].found = me[r].found /\ me'[r].erase = me[r].erase
    BY <1>2 DEF Create, StoreTyped, RequestTyped, Idle
  <1>4. OthersKept(r)
    BY <1>1, <1>2, WriteEffect DEF Create, OthersKept, StoreTyped
  <1>5. v \in Nat /\ ~Exists(v) /\ \A u \in 1 .. v - 1 : u \in Versions /\ Exists(u)
    <2>1. v \in Nat /\ \A u \in 1 .. v - 1 : u \in Versions
      BY BoundsAssumption DEF Versions
    <2> QED BY <1>1, <1>2, <2>1, NobodyCreates
  <1> DEFINE value == [status |-> "DRAFT", number |-> v]
  <1>6. Write(r, VersionRow(v), value)
    BY <1>1, <1>2, <1>5, NextNumberIs
  <1>7. value \in Version
    BY <1>5 DEF Version
  <1>8. /\ DOMAIN tx'[r] = {VersionRow(v)} /\ tx'[r][VersionRow(v)] = value
    BY <1>2, <1>6, WriteEffect DEF StoreTyped
  <1>9. StoreTyped'
    <2>1. Unlocked(r, VersionRow(v))
      BY <1>2, <1>5, NobodyCreates DEF Unlocked
    <2>2. VersionRow(v) \in Rows /\ value \in Values(VersionRow(v)) \cup {Absent}
      BY <1>7, RowsOfPairs, ValuesOfRows
    <2> HIDE DEF value
    <2> QED BY <1>2, <1>3, <1>4, <1>6, <2>1, <2>2, WriteTyped DEF OthersKept
  <1>10. RequestTyped(r)'
    BY <1>2, <1>3 DEF RequestTyped
  <1>11. WritesVersions(r)'
    <2>1. value # Absent
      BY <1>7, AbsentAssumption
    <2>2. Created(r, v)'
      BY <1>2, <1>3, <1>5, <1>8 DEF Created, Exists
    <2>3. \A u \in Versions : VersionRow(u) \in DOMAIN tx'[r] => u = v
      BY <1>8, RowNames
    <2> QED BY <1>8, <2>1, <2>2, <2>3 DEF WritesVersions
  <1>12. WritesEvidence(r)'
    <2>1. DOMAIN me'[r].found = {} /\ me'[r].erase = {}
      BY <1>2, <1>3 DEF IInv, RequestInv, Place
    <2> QED BY <1>8, <2>1, RowNames DEF WritesEvidence
  <1>13. Place(r)' /\ Activates(r)'
    BY <1>2, <1>3 DEF IInv, RequestInv, Place, Activates, Exists
  <1> QED
    BY <1>2, <1>4, <1>9, <1>10, <1>11, <1>12, <1>13, RequestStepKeeps DEF RequestInv

LEMMA CheckKeeps ==
    ASSUME IInv, NEW r \in Requests, Check(r)
    PROVE  IInv'
  <1> USE ProcessesSplit
  <1>1. /\ StoreTyped /\ RequestTyped(r) /\ me[r].pc = "lock" /\ me[r].op = "activate"
        /\ ~RuleLocked(r) /\ UNCHANGED <<db, tx, pending>> /\ DOMAIN tx[r] = {}
        /\ me[r].target \in Versions /\ Exists(me[r].target)
        /\ DOMAIN me[r].found = {} /\ me[r].erase = {}
    BY DEF IInv, TypeOK, Check, RequestInv, Place
  <1>2. /\ me'[r].pc = "stop" /\ me'[r].op = "activate" /\ DOMAIN me'[r] = DOMAIN me[r]
        /\ me'[r].target = me[r].target /\ me'[r].stopping = WithStatus(r, "ACTIVE")
        /\ me'[r].found = me[r].found /\ me'[r].erase = me[r].erase
    BY <1>1 DEF Check, StoreTyped, RequestTyped, Idle
  <1>3. OthersKept(r)
    BY <1>1 DEF Check, OthersKept, StoreTyped
  <1>4. \A v \in Versions : v \in WithStatus(r, "ACTIVE") <=> Has(v, "ACTIVE")
    BY <1>1 DEF WithStatus, Visible, Has
  <1>5. Has(me[r].target, "DRAFT") /\ ~Has(me[r].target, "ACTIVE")
    BY <1>1 DEF Check, Visible, Has, Exists
  <1>6. Untouched(me[r].target)'
    <2>1. PICK t : t = me[r].target
      OBVIOUS
    <2>2. Untouched(t)
      BY <1>1, <1>5, <2>1 DEF IInv, DraftsUntouched
    <2>3. Untouched(t)'
      BY <1>1, <1>3, <2>2 DEF Untouched, OthersKept
    <2> QED BY <1>2, <2>1, <2>3
  <1>7. StoreTyped'
    BY <1>1, <1>2, <1>3, NoWriteTyped DEF OthersKept
  <1>8. RequestTyped(r)'
    BY <1>1, <1>2 DEF RequestTyped, WithStatus
  <1>9. WritesVersions(r)' /\ WritesEvidence(r)'
    BY <1>1, <1>2 DEF WritesVersions, WritesEvidence
  <1>10. Place(r)'
    BY <1>1, <1>2, <1>4 DEF Place, Exists, WithStatus, Has
  <1>11. Activates(r)'
    <2>1. ~Has(me[r].target, "ACTIVE")'
      BY <1>1, <1>2, <1>5 DEF Has
    <2>2. me'[r].target \notin me'[r].stopping
      BY <1>1, <1>2, <1>4, <1>5
    <2>3. \A v \in Versions : Has(v, "ACTIVE")' => v \in me'[r].stopping
      BY <1>1, <1>2, <1>4 DEF Has
    <2> QED BY <1>2, <1>6, <2>1, <2>2, <2>3 DEF Activates
  <1> QED
    BY <1>1, <1>3, <1>7, <1>8, <1>9, <1>10, <1>11, RequestStepKeeps DEF RequestInv

LEMMA StopKeeps ==
    ASSUME IInv, NEW r \in Requests, Stop(r)
    PROVE  IInv'
  <1> USE ProcessesSplit
  <1>1. PICK v \in me[r].stopping :
          /\ Unlocked(r, VersionRow(v))
          /\ Write(r, VersionRow(v), [Visible(r, VersionRow(v)) EXCEPT !.status = "DISABLED"])
          /\ me' = [me EXCEPT
                      ![r].pc = "halt",
                      ![r].stopping = @ \ {v},
                      ![r].found = [i \in ActiveIssues(r, v) |-> Visible(r, i)],
                      ![r].erase = {StateRow(<<v, e>>) : e \in Equipment}]
    BY DEF Stop
  <1>2. /\ StoreTyped /\ RequestTyped(r) /\ me[r].pc = "stop" /\ UNCHANGED <<db, pending>>
        /\ DOMAIN me[r].found = {} /\ me[r].erase = {}
        /\ v \in Versions /\ Exists(v)
        /\ me[r].op \in {"activate", "disable"}
    BY DEF IInv, TypeOK, Stop, RequestInv, Place, RequestTyped
  <1>3. /\ me'[r].pc = "halt" /\ me'[r].op = me[r].op /\ DOMAIN me'[r] = DOMAIN me[r]
        /\ me'[r].target = me[r].target /\ me'[r].stopping = me[r].stopping \ {v}
        /\ me'[r].found = [i \in ActiveIssues(r, v) |-> Visible(r, i)]
        /\ me'[r].erase = {StateRow(<<v, e>>) : e \in Equipment}
    BY <1>1, <1>2 DEF StoreTyped, RequestTyped, Idle
  <1>4. OthersKept(r)
    BY <1>1, <1>2, WriteEffect DEF OthersKept, StoreTyped
  <1> DEFINE value == [Visible(r, VersionRow(v)) EXCEPT !.status = "DISABLED"]
  <1>5. value \in Version /\ value.number = v /\ value.status = "DISABLED"
    BY <1>2, VersionSeen DEF Version
  <1>6. Write(r, VersionRow(v), value)
    BY <1>1
  <1> HIDE DEF value
  <1>7. /\ DOMAIN tx'[r] = DOMAIN tx[r] \cup {VersionRow(v)} /\ tx'[r][VersionRow(v)] = value
        /\ \A x \in DOMAIN tx[r] \ {VersionRow(v)} : tx'[r][x] = tx[r][x]
    BY <1>2, <1>6, WriteEffect DEF StoreTyped
  <1>8. StoreTyped'
    <2>1. VersionRow(v) \in Rows /\ value \in Values(VersionRow(v)) \cup {Absent}
      BY <1>2, <1>5, RowsOfPairs, ValuesOfRows
    <2> QED BY <1>1, <1>2, <1>3, <1>4, <1>6, <2>1, WriteTyped DEF OthersKept
  <1>9. ASSUME NEW i \in ActiveIssues(r, v)
        PROVE  /\ i \in IssueRows /\ Visible(r, i) \in Issue /\ i[2][1] = v
               /\ db[i] # Absent
    <2>1. PICK p \in Pairs, n \in Indices : i = IssueRow(p, n)
      BY DEF ActiveIssues, IssueRows
    <2>2. Visible(r, i) # Absent
      BY DEF ActiveIssues
    <2>3. Visible(r, i) \in Issue
      BY <1>2, <2>1, <2>2, VisibleType
    <2>4. db[i] # Absent
      BY <2>1, <2>2 DEF IInv, RequestInv, WritesEvidence, Visible
    <2> QED BY <2>3, <2>4 DEF ActiveIssues
  <1>10. RequestTyped(r)'
    <2>1. \A e \in Equipment : StateRow(<<v, e>>) \in StateRows
      BY <1>2, RowsOfPairs DEF Pairs
    <2> QED BY <1>2, <1>3, <1>9, <2>1 DEF RequestTyped
  <1>11. \A u \in Versions : u = v \/ Stopped(r, u) => Stopped(r, u)'
    <2>1. me[r].op = "activate" => v # me[r].target
      BY <1>2 DEF IInv, RequestInv, Activates, Holds
    <2> QED BY <1>2, <1>3, <1>5, <1>7, <2>1, RowNames DEF Stopped, Exists
  <1>12. WritesVersions(r)'
    <2>1. value # Absent
      BY <1>5, AbsentAssumption
    <2>2. ASSUME NEW u \in Versions, u # v, VersionRow(u) \in DOMAIN tx'[r]
          PROVE  /\ tx'[r][VersionRow(u)] # Absent /\ tx'[r][VersionRow(u)].number = u
                 /\ Stopped(r, u)
      <3>1. VersionRow(u) \in DOMAIN tx[r] /\ tx'[r][VersionRow(u)] = tx[r][VersionRow(u)]
        BY <1>7, <2>2, RowNames
      <3> QED
        BY <1>2, <3>1 DEF IInv, RequestInv, WritesVersions, Activated, Created
    <2> QED BY <1>5, <1>7, <1>11, <2>1, <2>2 DEF WritesVersions
  <1>13. WritesEvidence(r)'
    <2>1. ASSUME NEW p \in Pairs, StateRow(p) \in me'[r].erase
          PROVE  p[1] = v
      <3>1. PICK e \in Equipment : StateRow(p) = StateRow(<<v, e>>)
        BY <1>3, <2>1
      <3>2. p = <<v, e>>
        BY <3>1, RowNames
      <3> QED BY <3>2
    <2>2. ASSUME NEW p \in Pairs, NEW n \in Indices, IssueRow(p, n) \in DOMAIN me'[r].found
          PROVE  p[1] = v /\ db[IssueRow(p, n)] # Absent
      BY <1>3, <1>9, <2>2, RowNames
    <2>3. \A p \in Pairs : p[1] \in Versions
      BY DEF Pairs
    <2>4. WritesEvidence(r)
      BY DEF IInv, RequestInv
    <2>5. ASSUME NEW p \in Pairs
          PROVE  /\ StateRow(p) \in DOMAIN tx'[r] => StateRow(p) \in DOMAIN tx[r] /\ tx'[r][StateRow(p)] = tx[r][StateRow(p)]
                 /\ \A n \in Indices : IssueRow(p, n) \in DOMAIN tx'[r] => IssueRow(p, n) \in DOMAIN tx[r] /\ tx'[r][IssueRow(p, n)] = tx[r][IssueRow(p, n)]
      BY <1>7, RowNames
    <2> QED BY <1>2, <1>11, <2>1, <2>2, <2>3, <2>4, <2>5 DEF WritesEvidence
  <1>14. Place(r)'
    BY <1>2, <1>3 DEF IInv, RequestInv, Place, Exists
  <1>15. Activates(r)'
    <2>1. Holds(r) <=> me[r].op = "activate"
      BY <1>2 DEF Holds
    <2>2. Activates(r)
      BY DEF IInv, RequestInv
    <2>3. me[r].op = "activate" => Untouched(me[r].target)'
      <3>1. PICK t : t = me[r].target
        OBVIOUS
      <3>2. me[r].op = "activate" => Untouched(t)
        BY <2>1, <2>2, <3>1 DEF Activates
      <3>3. Untouched(t) => Untouched(t)'
        BY <1>2, <1>4 DEF Untouched, OthersKept
      <3> QED BY <1>3, <3>1, <3>2, <3>3
    <2> QED BY <1>2, <1>3, <1>7, <2>1, <2>2, <2>3 DEF Activates, Holds, Has
  <1>16. Holds(r)' => Holds(r)
    BY <1>2, <1>3 DEF Holds
  <1> QED
    BY <1>2, <1>4, <1>8, <1>10, <1>12, <1>13, <1>14, <1>15, <1>16, RequestStepKeeps
       DEF RequestInv

\* A step in the middle of a stop that writes no version.
LEMMA VersionsKept ==
    ASSUME IInv, NEW r \in Requests, OthersKept(r), db' = db,
           me[r].pc \in {"halt", "erase"}, me'[r].pc \notin {"idle", "lock"},
           me'[r].op = me[r].op, me'[r].target = me[r].target,
           me'[r].stopping = me[r].stopping,
           me'[r].pc = "commit" => me[r].op # "activate",
           \A v \in Versions :
              /\ VersionRow(v) \in DOMAIN tx'[r] <=> VersionRow(v) \in DOMAIN tx[r]
              /\ VersionRow(v) \in DOMAIN tx[r] => tx'[r][VersionRow(v)] = tx[r][VersionRow(v)]
    PROVE  /\ \A v \in Versions : Stopped(r, v) => Stopped(r, v)'
           /\ WritesVersions(r)' /\ Activates(r)'
           /\ Holds(r)' => Holds(r)
           /\ Stopped(r, me[r].target) => me[r].op # "activate"
  <1> USE ProcessesSplit
  <1>1. \A v \in Versions : Stopped(r, v) => Stopped(r, v)'
    BY DEF Stopped, Exists
  <1>2. \A v \in Versions : VersionRow(v) \in DOMAIN tx[r] => Stopped(r, v)
    BY DEF IInv, RequestInv, WritesVersions, Activated, Created
  <1>3. WritesVersions(r)'
    BY <1>1, <1>2 DEF IInv, RequestInv, WritesVersions
  <1>4. Holds(r)' => Holds(r)
    BY DEF Holds
  <1>5. Activates(r)'
    <2>1. PICK t : t = me[r].target
      OBVIOUS
    <2>2. Activates(r)
      BY DEF IInv, RequestInv
    <2>3. Untouched(t) => Untouched(t)'
      BY DEF Untouched, OthersKept
    <2>4. \A v \in Versions : Has(v, "ACTIVE")' <=> Has(v, "ACTIVE")
      BY DEF Has
    <2>5. Has(t, "ACTIVE")' <=> Has(t, "ACTIVE")
      BY DEF Has
    <2>6. Holds(r)' /\ me'[r].op = "activate" =>
            /\ Untouched(t) /\ ~Has(t, "ACTIVE") /\ t \notin me[r].stopping
            /\ \A v \in Versions : Has(v, "ACTIVE") =>
                 v \in me[r].stopping \/ VersionRow(v) \in DOMAIN tx[r]
      BY <1>4, <2>1, <2>2 DEF Activates
    <2>7. Holds(r)' /\ me'[r].op = "activate" =>
            /\ Untouched(me[r].target)' /\ ~(Has(me[r].target, "ACTIVE"))'
            /\ \A v \in Versions : Has(v, "ACTIVE")' =>
                 v \in me'[r].stopping \/ VersionRow(v) \in DOMAIN tx'[r]
      BY <2>1, <2>3, <2>4, <2>5, <2>6
    <2> QED BY <2>1, <2>6, <2>7 DEF Activates
  <1> QED BY <1>1, <1>3, <1>4, <1>5 DEF Stopped

LEMMA HaltKeeps ==
    ASSUME IInv, NEW r \in Requests, Halt(r)
    PROVE  IInv'
  <1> USE ProcessesSplit
  <1>1. PICK row \in DOMAIN me[r].found :
          /\ Unlocked(r, row)
          /\ Write(r, row, [me[r].found[row] EXCEPT !.status = "STOPPED", !.stopped = TRUE])
          /\ me' = [me EXCEPT ![r].found = [i \in DOMAIN @ \ {row} |-> me[r].found[i]]]
    BY DEF Halt
  <1>2. /\ StoreTyped /\ RequestTyped(r) /\ me[r].pc = "halt" /\ UNCHANGED <<db, pending>>
    BY DEF IInv, TypeOK, Halt
  <1>3. /\ me'[r].pc = "halt" /\ me'[r].op = me[r].op /\ DOMAIN me'[r] = DOMAIN me[r]
        /\ me'[r].target = me[r].target /\ me'[r].stopping = me[r].stopping
        /\ me'[r].found = [i \in DOMAIN me[r].found \ {row} |-> me[r].found[i]]
        /\ me'[r].erase = me[r].erase
    BY <1>1, <1>2 DEF StoreTyped, RequestTyped, Idle
  <1>4. OthersKept(r)
    BY <1>1, <1>2, WriteEffect DEF OthersKept, StoreTyped
  <1> DEFINE value == [me[r].found[row] EXCEPT !.status = "STOPPED", !.stopped = TRUE]
  <1>5. value \in Issue /\ value # Absent
    BY <1>1, <1>2, AbsentAssumption DEF Issue, RequestTyped
  <1>6. Write(r, row, value)
    BY <1>1
  <1> HIDE DEF value
  <1>7. /\ DOMAIN tx'[r] = DOMAIN tx[r] \cup {row} /\ tx'[r][row] = value
        /\ \A x \in DOMAIN tx[r] \ {row} : tx'[r][x] = tx[r][x]
    BY <1>2, <1>6, WriteEffect DEF StoreTyped
  <1>8. PICK p \in Pairs, n \in Indices : row = IssueRow(p, n)
    BY <1>1, <1>2 DEF RequestTyped, IssueRows
  <1>9. StoreTyped'
    <2>1. row \in Rows /\ value \in Values(row) \cup {Absent}
      BY <1>5, <1>8, RowsOfPairs, ValuesOfRows
    <2> QED BY <1>1, <1>2, <1>3, <1>4, <1>6, <2>1, WriteTyped DEF OthersKept
  <1>10. RequestTyped(r)'
    BY <1>2, <1>3 DEF RequestTyped
  <1>11. \A v : VersionRow(v) # row
    BY <1>8, RowNames
  <1>12. /\ \A v \in Versions : Stopped(r, v) => Stopped(r, v)'
         /\ WritesVersions(r)' /\ Activates(r)'
         /\ Holds(r)' => Holds(r)
    BY <1>2, <1>3, <1>4, <1>7, <1>11, VersionsKept
  <1>13. WritesEvidence(r)'
    <2>1. ASSUME NEW q \in Pairs
          PROVE  /\ q[1] \in Versions
                 /\ StateRow(q) \in DOMAIN tx'[r] =>
                      StateRow(q) \in DOMAIN tx[r] /\ tx'[r][StateRow(q)] = tx[r][StateRow(q)]
      BY <1>7, <1>8, RowNames DEF Pairs
    <2>2. ASSUME NEW q \in Pairs, NEW m \in Indices
          PROVE  /\ IssueRow(q, m) \in DOMAIN tx'[r] \cup DOMAIN me'[r].found =>
                      IssueRow(q, m) \in DOMAIN tx[r] \cup DOMAIN me[r].found
                 /\ IssueRow(q, m) \in DOMAIN tx'[r] =>
                      \/ tx'[r][IssueRow(q, m)] = value
                      \/ /\ tx'[r][IssueRow(q, m)] = tx[r][IssueRow(q, m)]
                         /\ IssueRow(q, m) \in DOMAIN tx[r]
      <3> DEFINE i == IssueRow(q, m)
      <3>1. DOMAIN me'[r].found \subseteq DOMAIN me[r].found
        BY <1>3
      <3> HIDE DEF i
      <3>2. i \in DOMAIN tx'[r] => i = row \/ (i \in DOMAIN tx[r] /\ tx'[r][i] = tx[r][i])
        BY <1>7
      <3>3. /\ i \in DOMAIN tx'[r] \cup DOMAIN me'[r].found =>
                  i \in DOMAIN tx[r] \cup DOMAIN me[r].found
            /\ i \in DOMAIN tx'[r] =>
                  tx'[r][i] = value \/ (tx'[r][i] = tx[r][i] /\ i \in DOMAIN tx[r])
        BY <1>1, <1>7, <3>1, <3>2
      <3> QED BY <3>3 DEF i
    <2>3. WritesEvidence(r)
      BY DEF IInv, RequestInv
    <2> QED BY <1>2, <1>3, <1>5, <1>12, <2>1, <2>2, <2>3 DEF WritesEvidence
  <1>14. Place(r)'
    BY <1>2, <1>3 DEF IInv, RequestInv, Place, Exists
  <1> QED
    BY <1>2, <1>4, <1>9, <1>10, <1>12, <1>13, <1>14, RequestStepKeeps DEF RequestInv

LEMMA ScanKeeps ==
    ASSUME IInv, NEW r \in Requests, Scan(r)
    PROVE  IInv'
  <1> USE ProcessesSplit
  <1>1. /\ StoreTyped /\ RequestTyped(r) /\ me[r].pc = "halt" /\ UNCHANGED <<db, tx, pending>>
        /\ DOMAIN me[r].found = {}
    BY DEF IInv, TypeOK, Scan
  <1>2. /\ me'[r].pc = "erase" /\ me'[r].op = me[r].op /\ DOMAIN me'[r] = DOMAIN me[r]
        /\ me'[r].target = me[r].target /\ me'[r].stopping = me[r].stopping
        /\ me'[r].found = me[r].found /\ me'[r].erase \subseteq me[r].erase
    BY <1>1 DEF Scan, StoreTyped, RequestTyped, Idle
  <1>3. OthersKept(r)
    BY <1>1 DEF Scan, OthersKept, StoreTyped
  <1>4. StoreTyped'
    BY <1>1, <1>2, <1>3, NoWriteTyped DEF OthersKept
  <1>5. RequestTyped(r)'
    BY <1>1, <1>2 DEF RequestTyped
  <1>6. /\ \A v \in Versions : Stopped(r, v) => Stopped(r, v)'
        /\ WritesVersions(r)' /\ Activates(r)'
        /\ Holds(r)' => Holds(r)
    BY <1>1, <1>2, <1>3, VersionsKept
  <1>7. WritesEvidence(r)'
    BY <1>1, <1>2, <1>6 DEF IInv, RequestInv, WritesEvidence, Pairs
  <1>8. Place(r)'
    BY <1>1, <1>2 DEF IInv, RequestInv, Place, Exists
  <1> QED
    BY <1>1, <1>3, <1>4, <1>5, <1>6, <1>7, <1>8, RequestStepKeeps DEF RequestInv

LEMMA EraseKeeps ==
    ASSUME IInv, NEW r \in Requests, Erase(r)
    PROVE  IInv'
  <1> USE ProcessesSplit
  <1>1. PICK row \in me[r].erase :
          /\ Unlocked(r, row)
          /\ Write(r, row, Absent)
          /\ me' = [me EXCEPT ![r].erase = @ \ {row}]
    BY DEF Erase
  <1>2. /\ StoreTyped /\ RequestTyped(r) /\ me[r].pc = "erase" /\ UNCHANGED <<db, pending>>
    BY DEF IInv, TypeOK, Erase
  <1>3. /\ me'[r].pc = "erase" /\ me'[r].op = me[r].op /\ DOMAIN me'[r] = DOMAIN me[r]
        /\ me'[r].target = me[r].target /\ me'[r].stopping = me[r].stopping
        /\ me'[r].found = me[r].found /\ me'[r].erase = me[r].erase \ {row}
    BY <1>1, <1>2 DEF StoreTyped, RequestTyped, Idle
  <1>4. OthersKept(r)
    BY <1>1, <1>2, WriteEffect DEF OthersKept, StoreTyped
  <1>5. /\ DOMAIN tx'[r] = DOMAIN tx[r] \cup {row} /\ tx'[r][row] = Absent
        /\ \A x \in DOMAIN tx[r] \ {row} : tx'[r][x] = tx[r][x]
    BY <1>1, <1>2, WriteEffect DEF StoreTyped
  <1>6. PICK p \in Pairs : row = StateRow(p)
    BY <1>1, <1>2 DEF RequestTyped, StateRows
  <1>7. StoreTyped'
    <2>1. row \in Rows
      BY <1>6, RowsOfPairs
    <2> QED BY <1>1, <1>2, <1>3, <1>4, <2>1, WriteTyped DEF OthersKept
  <1>8. RequestTyped(r)'
    BY <1>2, <1>3 DEF RequestTyped
  <1>9. \A v : VersionRow(v) # row
    BY <1>6, RowNames
  <1>10. /\ \A v \in Versions : Stopped(r, v) => Stopped(r, v)'
         /\ WritesVersions(r)' /\ Activates(r)'
         /\ Holds(r)' => Holds(r)
    BY <1>2, <1>3, <1>4, <1>5, <1>9, VersionsKept
  <1>11. WritesEvidence(r)'
    <2>1. ASSUME NEW q \in Pairs
          PROVE  /\ q[1] \in Versions
                 /\ StateRow(q) \in DOMAIN tx'[r] \cup me'[r].erase =>
                      StateRow(q) \in DOMAIN tx[r] \cup me[r].erase
                 /\ StateRow(q) \in DOMAIN tx'[r] =>
                      \/ tx'[r][StateRow(q)] = Absent
                      \/ /\ tx'[r][StateRow(q)] = tx[r][StateRow(q)]
                         /\ StateRow(q) \in DOMAIN tx[r]
      <3> DEFINE i == StateRow(q)
      <3>1. q[1] \in Versions
        BY DEF Pairs
      <3> HIDE DEF i
      <3>2. i \in DOMAIN tx'[r] => i = row \/ (i \in DOMAIN tx[r] /\ tx'[r][i] = tx[r][i])
        BY <1>5
      <3>3. /\ i \in DOMAIN tx'[r] \cup me'[r].erase => i \in DOMAIN tx[r] \cup me[r].erase
            /\ i \in DOMAIN tx'[r] =>
                  tx'[r][i] = Absent \/ (tx'[r][i] = tx[r][i] /\ i \in DOMAIN tx[r])
        BY <1>1, <1>3, <1>5, <3>2
      <3> QED BY <3>1, <3>3 DEF i
    <2>2. ASSUME NEW q \in Pairs, NEW m \in Indices, IssueRow(q, m) \in DOMAIN tx'[r]
          PROVE  IssueRow(q, m) \in DOMAIN tx[r] /\ tx'[r][IssueRow(q, m)] = tx[r][IssueRow(q, m)]
      BY <1>5, <1>6, <2>2, RowNames
    <2>3. WritesEvidence(r)
      BY DEF IInv, RequestInv
    <2> QED BY <1>2, <1>3, <1>10, <2>1, <2>2, <2>3 DEF WritesEvidence
  <1>12. Place(r)'
    BY <1>2, <1>3 DEF IInv, RequestInv, Place, Exists
  <1> QED
    BY <1>2, <1>4, <1>7, <1>8, <1>10, <1>11, <1>12, RequestStepKeeps DEF RequestInv

LEMMA StopDoneKeeps ==
    ASSUME IInv, NEW r \in Requests, StopDone(r)
    PROVE  IInv'
  <1> USE ProcessesSplit
  <1>1. /\ StoreTyped /\ RequestTyped(r) /\ me[r].pc = "erase" /\ UNCHANGED <<db, tx, pending>>
        /\ me[r].erase = {} /\ DOMAIN me[r].found = {}
        /\ me[r].op \in {"activate", "disable"}
    BY DEF IInv, TypeOK, StopDone, RequestInv, Place, RequestTyped
  <1>2. /\ me'[r].pc = (IF me[r].op = "disable" THEN "commit" ELSE "stop")
        /\ me'[r].op = me[r].op /\ DOMAIN me'[r] = DOMAIN me[r]
        /\ me'[r].target = me[r].target /\ me'[r].stopping = me[r].stopping
        /\ me'[r].found = me[r].found /\ me'[r].erase = me[r].erase
    BY <1>1 DEF StopDone, StoreTyped, RequestTyped, Idle
  <1>3. OthersKept(r)
    BY <1>1 DEF StopDone, OthersKept, StoreTyped
  <1>4. StoreTyped'
    BY <1>1, <1>2, <1>3, NoWriteTyped DEF OthersKept
  <1>5. RequestTyped(r)'
    BY <1>1, <1>2 DEF RequestTyped
  <1>6. /\ \A v \in Versions : Stopped(r, v) => Stopped(r, v)'
        /\ WritesVersions(r)' /\ Activates(r)'
        /\ Holds(r)' => Holds(r)
    BY <1>1, <1>2, <1>3, VersionsKept
  <1>7. WritesEvidence(r)'
    BY <1>1, <1>2, <1>6 DEF IInv, RequestInv, WritesEvidence, Pairs
  <1>8. Place(r)'
    BY <1>1, <1>2 DEF IInv, RequestInv, Place, Exists
  <1> QED
    BY <1>1, <1>3, <1>4, <1>5, <1>6, <1>7, <1>8, RequestStepKeeps DEF RequestInv

LEMMA ConfirmKeeps ==
    ASSUME IInv, NEW r \in Requests, Confirm(r)
    PROVE  IInv'
  <1> USE ProcessesSplit
  <1>1. PICK t : t = me[r].target
    OBVIOUS
  <1> DEFINE value == [Visible(r, VersionRow(t)) EXCEPT !.status = "ACTIVE"]
  <1>2. /\ StoreTyped /\ RequestTyped(r) /\ me[r].pc = "stop" /\ UNCHANGED <<db, pending>>
        /\ me[r].op = "activate" /\ me[r].stopping = {}
        /\ DOMAIN me[r].found = {} /\ me[r].erase = {}
        /\ t \in Versions /\ Exists(t) /\ Holds(r)
        /\ Unlocked(r, VersionRow(t)) /\ Write(r, VersionRow(t), value)
        /\ me' = [me EXCEPT ![r].pc = "commit"]
    BY <1>1 DEF IInv, TypeOK, Confirm, RequestInv, Place, Holds
  <1>3. /\ me'[r].pc = "commit" /\ me'[r].op = me[r].op /\ DOMAIN me'[r] = DOMAIN me[r]
        /\ me'[r].target = t /\ me'[r].stopping = {}
        /\ me'[r].found = me[r].found /\ me'[r].erase = {}
    BY <1>1, <1>2 DEF StoreTyped, RequestTyped, Idle
  <1>4. OthersKept(r)
    BY <1>2, WriteEffect DEF OthersKept, StoreTyped
  <1>5. value \in Version /\ value.number = t /\ value.status = "ACTIVE"
    BY <1>2, VersionSeen DEF Version
  <1> HIDE DEF value
  <1>6. /\ DOMAIN tx'[r] = DOMAIN tx[r] \cup {VersionRow(t)} /\ tx'[r][VersionRow(t)] = value
        /\ \A x \in DOMAIN tx[r] \ {VersionRow(t)} : tx'[r][x] = tx[r][x]
    BY <1>2, WriteEffect DEF StoreTyped
  <1>7. StoreTyped'
    <2>1. VersionRow(t) \in Rows /\ value \in Values(VersionRow(t)) \cup {Absent}
      BY <1>2, <1>5, RowsOfPairs, ValuesOfRows
    <2> QED BY <1>2, <1>3, <1>4, <2>1, WriteTyped DEF OthersKept
  <1>8. RequestTyped(r)'
    BY <1>1, <1>2, <1>3 DEF RequestTyped
  <1>9. \A u \in Versions : Stopped(r, u) => u # t /\ Stopped(r, u)'
    <2>1. ASSUME NEW u \in Versions, Stopped(r, u) PROVE u # t
      BY <1>1, <1>2, <2>1 DEF Stopped
    <2> QED BY <1>1, <1>2, <1>3, <1>6, <2>1, RowNames DEF Stopped, Exists
  <1>10. WritesVersions(r)'
    <2>1. value # Absent
      BY <1>5, AbsentAssumption
    <2>2. Activated(r, t)'
      BY <1>2, <1>3, <1>5, <1>6 DEF Activated
    <2>3. ASSUME NEW u \in Versions, u # t, VersionRow(u) \in DOMAIN tx'[r]
          PROVE  /\ tx'[r][VersionRow(u)] # Absent /\ tx'[r][VersionRow(u)].number = u
                 /\ Stopped(r, u)
      <3>1. VersionRow(u) \in DOMAIN tx[r] /\ tx'[r][VersionRow(u)] = tx[r][VersionRow(u)]
        BY <1>6, <2>3, RowNames
      <3> QED
        BY <1>2, <3>1 DEF IInv, RequestInv, WritesVersions, Activated, Created
    <2> QED BY <1>5, <1>6, <1>9, <2>1, <2>2, <2>3 DEF WritesVersions
  <1>11. WritesEvidence(r)'
    <2>1. \A p \in Pairs : p[1] \in Versions
      BY DEF Pairs
    <2>2. WritesEvidence(r)
      BY DEF IInv, RequestInv
    <2>3. ASSUME NEW p \in Pairs
          PROVE  /\ StateRow(p) \in DOMAIN tx'[r] => StateRow(p) \in DOMAIN tx[r] /\ tx'[r][StateRow(p)] = tx[r][StateRow(p)]
                 /\ \A n \in Indices : IssueRow(p, n) \in DOMAIN tx'[r] => IssueRow(p, n) \in DOMAIN tx[r] /\ tx'[r][IssueRow(p, n)] = tx[r][IssueRow(p, n)]
      BY <1>6, RowNames
    <2> QED BY <1>2, <1>3, <1>9, <2>1, <2>2, <2>3 DEF WritesEvidence
  <1>12. Place(r)'
    BY <1>1, <1>2, <1>3 DEF IInv, RequestInv, Place, Exists
  <1>13. Activates(r)'
    <2>1. Activates(r)
      BY DEF IInv, RequestInv
    <2>2. /\ Untouched(t) /\ ~Has(t, "ACTIVE")
          /\ \A v \in Versions : Has(v, "ACTIVE") => VersionRow(v) \in DOMAIN tx[r]
      BY <1>1, <1>2, <2>1 DEF Activates
    <2>3. Untouched(t)' /\ ~Has(t, "ACTIVE")'
          /\ \A v \in Versions : Has(v, "ACTIVE")' => VersionRow(v) \in DOMAIN tx'[r]
      BY <1>2, <1>4, <1>6, <2>2 DEF Untouched, Has, OthersKept
    <2> QED BY <1>3, <2>3 DEF Activates
  <1> QED
    BY <1>2, <1>4, <1>7, <1>8, <1>10, <1>11, <1>12, <1>13, RequestStepKeeps DEF RequestInv

-------------------------------------------------------------------------------
(* The commit of a request. *)

\* What becomes of the versions: those it has written, and no other.
LEMMA CommittedVersions ==
    ASSUME IInv, NEW r \in Requests, Commit(r), NEW v \in Versions
    PROVE  /\ VersionRow(v) \notin DOMAIN tx[r] => db'[VersionRow(v)] = db[VersionRow(v)]
           /\ VersionRow(v) \in DOMAIN tx[r] =>
                /\ db'[VersionRow(v)] = tx[r][VersionRow(v)]
                /\ Exists(v)' /\ db'[VersionRow(v)].number = v
                /\ Stopped(r, v) \/ Activated(r, v) \/ Created(r, v)
           /\ Exists(v) => Exists(v)'
           /\ Has(v, "ACTIVE")' =>
                /\ ~Stopped(r, v)
                /\ \/ Activated(r, v)
                   \/ Has(v, "ACTIVE") /\ VersionRow(v) \notin DOMAIN tx[r]
  <1> USE ProcessesSplit
  <1>1. db'[VersionRow(v)] = Visible(r, VersionRow(v))
    BY CommitEffect, RowsOfPairs DEF Commit, IInv, TypeOK
  <1>2. VersionRow(v) \notin DOMAIN tx[r] => db'[VersionRow(v)] = db[VersionRow(v)]
    BY <1>1 DEF Visible
  <1>3. VersionRow(v) \in DOMAIN tx[r] =>
          /\ db'[VersionRow(v)] = tx[r][VersionRow(v)]
          /\ tx[r][VersionRow(v)] # Absent /\ tx[r][VersionRow(v)].number = v
          /\ Stopped(r, v) \/ Activated(r, v) \/ Created(r, v)
    BY <1>1 DEF Visible, IInv, RequestInv, WritesVersions
  <1>4. VersionRow(v) \in DOMAIN tx[r] => Exists(v)'
    BY <1>3 DEF Exists
  <1>5. Exists(v) => Exists(v)'
    BY <1>2, <1>4 DEF Exists
  <1>6. ASSUME Has(v, "ACTIVE")'
        PROVE  /\ ~Stopped(r, v)
               /\ Activated(r, v) \/ (Has(v, "ACTIVE") /\ VersionRow(v) \notin DOMAIN tx[r])
    <2>1. db'[VersionRow(v)].status = "ACTIVE"
      BY <1>6 DEF Has
    <2>2. CASE VersionRow(v) \in DOMAIN tx[r]
      BY <1>3, <2>1, <2>2 DEF Stopped, Created
    <2>3. CASE VersionRow(v) \notin DOMAIN tx[r]
      BY <1>2, <1>6, <2>3 DEF Stopped, Has
    <2> QED BY <2>2, <2>3
  <1> QED BY <1>2, <1>3, <1>4, <1>5, <1>6

\* What becomes of issues and states: those of versions that were stopped
\* change, states only go, and no issue comes or goes.
LEMMA CommittedEvidence ==
    ASSUME IInv, NEW r \in Requests, Commit(r), NEW p \in Pairs
    PROVE  /\ ~Stopped(r, p[1]) =>
                /\ db'[StateRow(p)] = db[StateRow(p)]
                /\ \A n \in Indices : db'[IssueRow(p, n)] = db[IssueRow(p, n)]
           /\ db'[StateRow(p)] = db[StateRow(p)] \/ db'[StateRow(p)] = Absent
           /\ \A n \in Indices : db'[IssueRow(p, n)] = Absent <=> db[IssueRow(p, n)] = Absent
  <1> USE ProcessesSplit
  <1>1. /\ db'[StateRow(p)] = Visible(r, StateRow(p))
        /\ \A n \in Indices : db'[IssueRow(p, n)] = Visible(r, IssueRow(p, n))
    BY CommitEffect, RowsOfPairs DEF Commit, IInv, TypeOK
  <1>2. WritesEvidence(r)
    BY DEF IInv, RequestInv
  <1>3. /\ ~Stopped(r, p[1]) => db'[StateRow(p)] = db[StateRow(p)]
        /\ db'[StateRow(p)] = db[StateRow(p)] \/ db'[StateRow(p)] = Absent
    BY <1>1, <1>2 DEF WritesEvidence, Visible
  <1>4. ASSUME NEW n \in Indices
        PROVE  /\ ~Stopped(r, p[1]) => db'[IssueRow(p, n)] = db[IssueRow(p, n)]
               /\ db'[IssueRow(p, n)] = Absent <=> db[IssueRow(p, n)] = Absent
    BY <1>1, <1>2 DEF WritesEvidence, Visible
  <1> QED BY <1>3, <1>4

\* Nothing of a version that is put in service was ever evaluated.
LEMMA CommittedTarget ==
    ASSUME IInv, NEW r \in Requests, Commit(r)
    PROVE  /\ OthersKept(r) /\ DOMAIN tx'[r] = {} /\ me'[r] = Idle
           /\ \A v \in Versions : Untouched(v) => Untouched(v)'
           /\ \A v \in Versions : Activated(r, v) => Untouched(v)
           /\ me[r].pc = "commit" /\ me[r].op # "none"
           /\ StoreTyped' /\ RequestTyped(r)'
  <1> USE ProcessesSplit
  <1>1. StoreTyped /\ me[r].pc = "commit" /\ tx' = [tx EXCEPT ![r] = <<>>]
        /\ db' = Overlay(tx[r], db) /\ me' = [me EXCEPT ![r] = Idle]
    BY DEF IInv, TypeOK, Commit
  <1>2. OthersKept(r) /\ DOMAIN tx'[r] = {} /\ me'[r] = Idle
    BY <1>1, CommitEffect DEF OthersKept, StoreTyped
  <1>3. ASSUME NEW v \in Versions, Untouched(v)
        PROVE  Untouched(v)'
    BY <1>2, <1>3, CommittedEvidence DEF Untouched, OthersKept
  <1>4. \A v \in Versions : Activated(r, v) => Untouched(v)
    BY DEF Activated, IInv, RequestInv, Activates, Holds
  <1>5. me[r].op # "none"
    BY <1>1 DEF IInv, RequestInv, Place
  <1>6. StoreTyped'
    BY <1>1, <1>2, EndTyped DEF OthersKept
  <1>7. RequestTyped(r)'
    BY <1>2, BoundsAssumption DEF RequestTyped, Idle
  <1> QED BY <1>1, <1>2, <1>3, <1>4, <1>5, <1>6, <1>7

\* The store.
LEMMA CommitStore ==
    ASSUME IInv, NEW r \in Requests, Commit(r)
    PROVE  /\ Numbered' /\ DraftsUntouched' /\ StatesRefer'
           /\ OneVersionInService' /\ OpenIssueInState'
  <1>1. \A p \in Pairs : p[1] \in Versions
    BY DEF Pairs
  <1>2. Numbered'
    <2>1. ASSUME NEW v \in Versions, Exists(v)'
          PROVE  db'[VersionRow(v)].number = v /\ \A u \in 1 .. v - 1 : Exists(u)
      BY <2>1, CommittedVersions DEF IInv, Numbered, Exists, Created, Stopped, Activated,
           RequestInv, Place
    <2>2. \A v \in Versions : \A u \in 1 .. v - 1 : u \in Versions
      BY BoundsAssumption DEF Versions
    <2>3. ASSUME NEW v \in Versions, Exists(v)'
          PROVE  db'[VersionRow(v)].number = v /\ \A u \in 1 .. v - 1 : Exists(u)'
      BY <2>1, <2>2, <2>3, CommittedVersions
    <2> QED BY <2>3 DEF Numbered
  <1>3. DraftsUntouched'
    <2>1. ASSUME NEW v \in Versions, ~Exists(v)' \/ Has(v, "DRAFT")'
          PROVE  ~Exists(v) \/ Has(v, "DRAFT")
      <3>1. CASE VersionRow(v) \in DOMAIN tx[r]
        BY <2>1, <3>1, CommittedVersions DEF Stopped, Activated, Created, Has
      <3>2. CASE VersionRow(v) \notin DOMAIN tx[r]
        BY <2>1, <3>2, CommittedVersions DEF Has, Exists
      <3> QED BY <3>1, <3>2
    <2>2. ASSUME NEW v \in Versions, ~Exists(v)' \/ Has(v, "DRAFT")'
          PROVE  Untouched(v)'
      BY <2>1, <2>2, CommittedTarget DEF IInv, DraftsUntouched
    <2> QED BY <2>2 DEF DraftsUntouched
  <1>4. StatesRefer'
    <2>1. ASSUME NEW p \in Pairs, NEW n \in Indices, db'[StateRow(p)] # Absent,
                 db'[StateRow(p)].issue = n
          PROVE  db'[IssueRow(p, n)] # Absent
      BY <2>1, CommittedEvidence DEF IInv, StatesRefer
    <2> QED BY <2>1 DEF StatesRefer
  <1>5. OneVersionInService'
    <2>1. ASSUME NEW u \in Versions, NEW v \in Versions,
                 Has(u, "ACTIVE")', Has(v, "ACTIVE")'
          PROVE  u = v
      <3>1. CASE me[r].op = "activate"
        <4>1. \A w \in Versions : Has(w, "ACTIVE") => VersionRow(w) \in DOMAIN tx[r]
          BY <3>1, CommittedTarget DEF IInv, RequestInv, Activates, Holds
        <4> QED BY <2>1, <4>1, CommittedVersions DEF Activated
      <3>2. CASE me[r].op # "activate"
        <4>1. Has(u, "ACTIVE") /\ Has(v, "ACTIVE")
          BY <2>1, <3>2, CommittedVersions DEF Activated
        <4> QED BY <4>1 DEF IInv, OneVersionInService
      <3> QED BY <3>1, <3>2
    <2>2. ASSUME NEW u \in Versions, NEW v \in Versions, Exists(u)', Exists(v)',
                 db'[VersionRow(u)].number = db'[VersionRow(v)].number
          PROVE  u = v
      BY <1>2, <2>2 DEF Numbered
    <2> QED BY <2>1, <2>2 DEF OneVersionInService, Exists
  <1>6. OpenIssueInState'
    <2>1. ASSUME NEW p \in Pairs, Has(p[1], "ACTIVE")', NEW n \in Indices
          PROVE  Open(p, n)' <=> db'[StateRow(p)] # Absent /\ db'[StateRow(p)].issue = n
      <3>1. PICK v \in Versions : v = p[1]
        BY <1>1
      <3>2. Has(v, "ACTIVE")'
        BY <2>1, <3>1
      <3>3. ~Stopped(r, v) /\ (Activated(r, v) \/ Has(v, "ACTIVE"))
        BY <3>2, CommittedVersions
      <3>4. /\ db'[StateRow(p)] = db[StateRow(p)]
            /\ db'[IssueRow(p, n)] = db[IssueRow(p, n)]
        BY <3>1, <3>3, CommittedEvidence
      <3>5. CASE Has(v, "ACTIVE")
        BY <3>1, <3>4, <3>5 DEF IInv, OpenIssueInState, Open
      <3>6. CASE Activated(r, v)
        <4>1. db[StateRow(p)] = Absent /\ db[IssueRow(p, n)] = Absent
          BY <3>1, <3>6, CommittedTarget DEF Untouched
        <4> QED BY <3>4, <4>1 DEF Open
      <3> QED BY <3>3, <3>5, <3>6
    <2> QED BY <2>1 DEF OpenIssueInState
  <1> QED BY <1>2, <1>3, <1>4, <1>5, <1>6

\* The other requests: they have written other rows.
LEMMA CommitRequests ==
    ASSUME IInv, NEW r \in Requests, Commit(r), NEW q \in Requests, q # r
    PROVE  RequestInv(q)'
  <1> USE ProcessesSplit
  <1>1. me'[q] = me[q] /\ tx'[q] = tx[q] /\ DOMAIN tx[q] \cap DOMAIN tx[r] = {}
    BY CommittedTarget DEF OthersKept, IInv, TypeOK, StoreTyped
  <1>2. RequestInv(q)
    BY DEF IInv
  <1>3. \A v \in Versions :
          /\ Exists(v) => Exists(v)'
          /\ VersionRow(v) \in DOMAIN tx[q] => (Exists(v)' <=> Exists(v))
    BY <1>1, CommittedVersions DEF Exists
  <1>4. \A v \in Versions : Stopped(q, v) => Stopped(q, v)'
    BY <1>1, <1>3 DEF Stopped
  <1>5. WritesVersions(q)'
    <2>1. \A v \in Versions : \A u \in 1 .. v - 1 : u \in Versions
      BY BoundsAssumption DEF Versions
    <2>2. \A v \in Versions : VersionRow(v) \in DOMAIN tx[q] /\ Created(q, v) => Created(q, v)'
      BY <1>1, <1>3, <2>1 DEF Created
    <2>3. \A v \in Versions : Activated(q, v) => Activated(q, v)'
      BY <1>1 DEF Activated
    <2> QED BY <1>1, <1>2, <1>4, <2>2, <2>3 DEF RequestInv, WritesVersions
  <1>6. WritesEvidence(q)'
    BY <1>1, <1>2, <1>4, CommittedEvidence DEF RequestInv, WritesEvidence, Pairs
  <1>7. Place(q)'
    <2>1. me[q].stopping \subseteq Versions
      BY DEF IInv, TypeOK, RequestTyped
    <2> QED BY <1>1, <1>2, <1>3, <2>1 DEF RequestInv, Place
  <1>8. Activates(q)'
    <2>1. PICK t : t = me[q].target
      OBVIOUS
    <2>2. SUFFICES ASSUME Holds(q), me[q].op = "activate"
                   PROVE  /\ Untouched(t)' /\ ~Has(t, "ACTIVE")'
                          /\ t \notin me[q].stopping
                          /\ me[q].pc = "commit" => me[q].stopping = {}
                          /\ \A v \in Versions : Has(v, "ACTIVE")' =>
                                v \in me[q].stopping \/ VersionRow(v) \in DOMAIN tx[q]
      BY <1>1, <2>1 DEF Activates, Holds
    <2>3. me[r].op \notin {"create", "activate"}
      BY <2>2, CommittedTarget DEF IInv, Exclusive, Holds
    <2>4. /\ Untouched(t) /\ ~Has(t, "ACTIVE") /\ t \in Versions
          /\ t \notin me[q].stopping
          /\ me[q].pc = "commit" => me[q].stopping = {}
          /\ \A v \in Versions : Has(v, "ACTIVE") =>
                v \in me[q].stopping \/ VersionRow(v) \in DOMAIN tx[q]
      BY <1>2, <2>1, <2>2 DEF RequestInv, Activates, Place
    <2>5. \A v \in Versions : Has(v, "ACTIVE")' => Has(v, "ACTIVE")
      BY <2>3, CommittedVersions DEF Activated
    <2> QED BY <2>4, <2>5, CommittedTarget
  <1> QED BY <1>5, <1>6, <1>7, <1>8 DEF RequestInv

\* The evaluators: what they see of the versions in service has not changed.
LEMMA CommitEvaluators ==
    ASSUME IInv, NEW r \in Requests, Commit(r), NEW e \in Evaluators
    PROVE  EvaluatorInv(e)'
  <1> USE ProcessesSplit
  <1>1. me'[e] = me[e] /\ tx'[e] = tx[e]
    BY CommittedTarget DEF OthersKept
  <1>2. EvaluatorInv(e)
    BY DEF IInv
  <1>3. ASSUME NEW p \in Pairs
        PROVE  /\ ~Stopped(r, p[1]) =>
                    /\ Visible(e, StateRow(p))' = Visible(e, StateRow(p))
                    /\ \A n \in Indices : Visible(e, IssueRow(p, n))' = Visible(e, IssueRow(p, n))
               /\ \/ Visible(e, StateRow(p))' = Visible(e, StateRow(p))
                  \/ Visible(e, StateRow(p))' = Absent
               /\ \A n \in Indices :
                    Visible(e, IssueRow(p, n))' = Absent <=> Visible(e, IssueRow(p, n)) = Absent
    BY <1>1, CommittedEvidence DEF Visible
  <1>4. ASSUME NEW p \in Pairs
        PROVE  /\ ~Stopped(r, p[1]) => Reference(e, p)' = Reference(e, p)
               /\ Reference(e, p)' = Reference(e, p) \/ Reference(e, p)' = 0
    BY <1>3 DEF Reference
  <1>5. me[e].pc \in {"reread", "recover", "put"} => me[e].pair \in Pairs
    BY DEF IInv, TypeOK, EvaluatorTyped, Pairs
  <1>6. WritesKnown(e)'
    BY <1>1, <1>2 DEF EvaluatorInv, WritesKnown
  <1>7. Refers(e)'
    <2>1. \A p \in Pairs : \A n : RefersTo(e, p, n) => RefersTo(e, p, n)'
      BY <1>3 DEF RefersTo
    <2>2. \A p \in Pairs : RefersTo(e, p, 0)'
      BY BoundsAssumption DEF RefersTo, Indices
    <2>3. ASSUME NEW p \in Pairs PROVE RefersTo(e, p, Reference(e, p))'
      <3>1. PICK n : n = Reference(e, p)
        OBVIOUS
      <3>2. RefersTo(e, p, n)
        BY <1>2, <3>1 DEF EvaluatorInv, Refers
      <3>3. Reference(e, p)' = n \/ Reference(e, p)' = 0
        BY <1>4, <3>1
      <3> QED BY <2>1, <2>2, <3>2, <3>3 DEF RefersTo
    <2>4. me[e].pc \in {"reread", "recover"} => RefersTo(e, me[e].pair, me[e].ref)'
      BY <1>1, <1>2, <1>3, <1>5 DEF EvaluatorInv, Refers, RefersTo
    <2>5. me[e].pc = "put" => RefersTo(e, me[e].pair, me[e].next.issue)'
      BY <1>1, <1>2, <1>3, <1>5 DEF EvaluatorInv, Refers, RefersTo
    <2> QED BY <1>1, <2>3, <2>4, <2>5 DEF Refers
  <1>8. ASSUME NEW p \in Pairs, Has(p[1], "ACTIVE")'
        PROVE  /\ ~Stopped(r, p[1])
               /\ Has(p[1], "ACTIVE") \/ Untouched(p[1])
    <2>1. PICK v \in Versions : v = p[1]
      BY DEF Pairs
    <2>2. Has(v, "ACTIVE")'
      BY <1>8, <2>1
    <2> QED BY <2>1, <2>2, CommittedVersions, CommittedTarget
  <1>9. SeesOpenIssue(e)'
    <2>1. ASSUME NEW p \in Pairs, Has(p[1], "ACTIVE")', NEW n \in Indices
          PROVE  OpenFor(e, p, n)' <=> Recorded(e, p)' = n
      <3>1. OpenFor(e, p, n)' <=> OpenFor(e, p, n)
        BY <1>3, <1>8, <2>1 DEF OpenFor
      <3>2. Recorded(e, p)' = Recorded(e, p)
        BY <1>1, <1>4, <1>8, <2>1 DEF Recorded
      <3>3. CASE Has(p[1], "ACTIVE")
        BY <1>2, <3>1, <3>2, <3>3 DEF EvaluatorInv, SeesOpenIssue
      <3>4. CASE Untouched(p[1])
        <4>1. /\ p[1] \notin me[e].known
              /\ db[StateRow(p)] = Absent /\ db[IssueRow(p, n)] = Absent
          BY <3>4 DEF Untouched
        <4>2. StateRow(p) \notin DOMAIN tx[e] /\ IssueRow(p, n) \notin DOMAIN tx[e]
          BY <1>2, <4>1 DEF EvaluatorInv, WritesKnown
        <4>3. ~OpenFor(e, p, n) /\ Reference(e, p) = 0
          BY <4>1, <4>2 DEF OpenFor, Reference, Visible
        <4>4. me[e].pc = "put" => me[e].pair # p
          BY <4>1 DEF IInv, TypeOK, EvaluatorTyped
        <4>5. n # 0
          BY BoundsAssumption DEF Indices
        <4> QED BY <3>1, <3>2, <4>3, <4>4, <4>5 DEF Recorded
      <3> QED BY <1>8, <2>1, <3>3, <3>4
    <2>2. ASSUME me[e].pc \in {"reread", "recover"}
          PROVE  /\ me[e].next.issue = 0
                 /\ Has(me[e].pair[1], "ACTIVE")' => Reference(e, me[e].pair)' = me[e].ref
      <3>1. PICK p \in Pairs : p = me[e].pair
        BY <1>5, <2>2
      <3>2. p[1] \in me[e].known
        BY <2>2, <3>1 DEF IInv, TypeOK, EvaluatorTyped
      <3>3. Has(p[1], "ACTIVE")' => Reference(e, p)' = me[e].ref
        <4> SUFFICES ASSUME Has(p[1], "ACTIVE")' PROVE Reference(e, p)' = me[e].ref
          OBVIOUS
        <4>1. ~Untouched(p[1])
          BY <3>2 DEF Untouched
        <4>2. Reference(e, p)' = Reference(e, p) /\ Has(p[1], "ACTIVE")
          BY <1>4, <1>8, <4>1
        <4> QED BY <1>2, <2>2, <3>1, <4>2 DEF EvaluatorInv, SeesOpenIssue
      <3>4. me[e].next.issue = 0
        BY <1>2, <2>2 DEF EvaluatorInv, SeesOpenIssue
      <3> QED BY <1>1, <3>1, <3>3, <3>4
    <2> QED BY <1>1, <2>1, <2>2 DEF SeesOpenIssue
  <1> QED BY <1>6, <1>7, <1>9 DEF EvaluatorInv

LEMMA IdleRequest ==
    ASSUME NEW r \in Requests, DOMAIN tx'[r] = {}, me'[r] = Idle
    PROVE  RequestInv(r)'
  BY DEF RequestInv, WritesVersions, WritesEvidence, Place, Activates, Holds, Idle

LEMMA CommitKeeps ==
    ASSUME IInv, NEW r \in Requests, Commit(r)
    PROVE  IInv'
  <1> USE ProcessesSplit
  <1>1. /\ OthersKept(r) /\ DOMAIN tx'[r] = {} /\ me'[r] = Idle
        /\ StoreTyped' /\ RequestTyped(r)' /\ pending' = pending
    BY CommittedTarget DEF Commit
  <1>2. \A q \in Requests : RequestInv(q)'
    BY <1>1, IdleRequest, CommitRequests
  <1>3. TypeOK'
    BY <1>1 DEF IInv, TypeOK, RequestTyped, EvaluatorTyped, OthersKept
  <1>4. Exclusive'
    BY <1>1 DEF IInv, Exclusive, Holds, OthersKept, Idle
  <1> QED BY <1>2, <1>3, <1>4, CommitStore, CommitEvaluators DEF IInv

-------------------------------------------------------------------------------
(* The steps of an evaluator. *)

\* An evaluator that has written nothing sees what is committed.
LEMMA FreshView ==
    ASSUME NEW e \in Evaluators, StatesRefer', OpenIssueInState',
           DOMAIN tx'[e] = {}, me'[e].pc \in {"idle", "frame"}
    PROVE  EvaluatorInv(e)'
  <1>1. \A x : Visible(e, x)' = db'[x]
    BY DEF Visible
  <1>2. \A n \in Indices : n # 0
    BY BoundsAssumption DEF Indices
  <1>3. WritesKnown(e)'
    BY DEF WritesKnown
  <1>4. \A p \in Pairs : \A n \in Indices :
          Reference(e, p)' = n <=> db'[StateRow(p)] # Absent /\ db'[StateRow(p)].issue = n
    BY <1>1, <1>2 DEF Reference
  <1>5. Refers(e)'
    <2>1. \A p \in Pairs : RefersTo(e, p, Reference(e, p))'
      BY <1>1, <1>4 DEF RefersTo, StatesRefer
    <2> QED BY <2>1 DEF Refers
  <1>6. SeesOpenIssue(e)'
    <2>1. ASSUME NEW p \in Pairs, Has(p[1], "ACTIVE")', NEW n \in Indices
          PROVE  OpenFor(e, p, n)' <=> Recorded(e, p)' = n
      <3>1. OpenFor(e, p, n)' <=> Open(p, n)'
        BY <1>1 DEF OpenFor, Open
      <3>2. Recorded(e, p)' = Reference(e, p)'
        BY DEF Recorded
      <3> QED BY <1>4, <2>1, <3>1, <3>2 DEF OpenIssueInState
    <2> QED BY <2>1 DEF SeesOpenIssue
  <1> QED BY <1>3, <1>5, <1>6 DEF EvaluatorInv

\* A transaction that is rolled back leaves nothing.
LEMMA FailKeeps ==
    ASSUME IInv, NEW p \in Processes, Fail(p)
    PROVE  IInv'
  <1> USE ProcessesSplit
  <1>1. /\ StoreTyped /\ tx' = [tx EXCEPT ![p] = <<>>] /\ UNCHANGED <<db, pending>>
        /\ me' = [me EXCEPT ![p] = IF p \in Requests THEN Idle ELSE Asleep]
    BY DEF IInv, TypeOK, Fail
  <1>2. OthersKept(p) /\ DOMAIN tx'[p] = {}
    BY <1>1 DEF OthersKept, StoreTyped
  <1>3. StoreTyped'
    BY <1>1, <1>2, EndTyped DEF OthersKept
  <1>4. CASE p \in Requests
    <2>1. me'[p] = Idle
      BY <1>1, <1>4 DEF StoreTyped
    <2>2. RequestTyped(p)' /\ ~Holds(p)'
      BY <2>1, BoundsAssumption DEF RequestTyped, Idle, Holds
    <2>3. RequestInv(p)'
      BY <1>2, <1>4, <2>1, IdleRequest
    <2> QED BY <1>1, <1>2, <1>3, <1>4, <2>2, <2>3, RequestStepKeeps
  <1>5. CASE p \in Evaluators
    <2>1. me'[p] = Asleep
      BY <1>1, <1>5 DEF StoreTyped
    <2>2. EvaluatorTyped(p)' /\ me'[p].known = {} /\ me'[p].pc = "idle"
      BY <2>1 DEF EvaluatorTyped, Asleep
    <2>3. StatesRefer' /\ OpenIssueInState'
      BY <1>1 DEF IInv, StatesRefer, OpenIssueInState, Has, Open
    <2>4. EvaluatorInv(p)'
      BY <1>2, <1>5, <2>2, <2>3, FreshView
    <2> QED BY <1>1, <1>2, <1>3, <1>5, <2>2, <2>4, EvaluatorStepKeeps
  <1> QED BY <1>4, <1>5 DEF Processes

LEMMA StartDrainKeeps ==
    ASSUME IInv, NEW e \in Evaluators, StartDrain(e)
    PROVE  IInv'
  <1> USE ProcessesSplit
  <1>1. PICK frames \in 1 .. pending :
          me' = [me EXCEPT ![e].pc = "frame", ![e].frames = frames,
                           ![e].taken = frames, ![e].known = WithStatus(e, "ACTIVE")]
    BY DEF StartDrain
  <1>2. /\ StoreTyped /\ EvaluatorTyped(e) /\ me[e].pc = "idle" /\ TryLock(e)
        /\ UNCHANGED <<db, tx, pending>> /\ pending \in Nat
    BY BoundsAssumption DEF IInv, TypeOK, StartDrain
  <1>3. /\ me'[e].pc = "frame" /\ me'[e].frames = frames /\ me'[e].taken = frames
        /\ me'[e].known = WithStatus(e, "ACTIVE") /\ DOMAIN me'[e] = DOMAIN me[e]
        /\ me'[e].todo = me[e].todo
    BY <1>1, <1>2 DEF StoreTyped, EvaluatorTyped, Asleep
  <1>4. OthersKept(e)
    BY <1>1, <1>2 DEF OthersKept, StoreTyped
  <1>5. DOMAIN tx[e] = {} /\ \A x : Visible(e, x) = db[x]
    BY <1>2, EmptyTx
  <1>6. \A v \in WithStatus(e, "ACTIVE") : v \in Versions /\ Has(v, "ACTIVE")
    BY <1>5 DEF WithStatus, Has
  <1>7. StoreTyped'
    BY <1>2, <1>3, <1>4, NoWriteTyped DEF OthersKept
  <1>8. me[e].todo = {}
    BY <1>2 DEF EvaluatorTyped
  <1>9. EvaluatorTyped(e)'
    <2>1. frames \in Nat /\ frames <= frames
      BY <1>2
    <2>2. WithStatus(e, "ACTIVE") \subseteq Versions
      BY <1>6
    <2> QED BY <1>2, <1>3, <1>8, <2>1, <2>2 DEF EvaluatorTyped
  <1>10. StatesRefer' /\ OpenIssueInState'
    BY <1>2 DEF IInv, StatesRefer, OpenIssueInState, Has, Open
  <1>11. EvaluatorInv(e)'
    BY <1>2, <1>3, <1>5, <1>10, FreshView
  <1> QED
    BY <1>2, <1>3, <1>4, <1>6, <1>7, <1>9, <1>11, EvaluatorStepKeeps

\* What holds of an evaluator in the middle of a drain.
LEMMA Draining ==
    ASSUME IInv, NEW e \in Evaluators
    PROVE  /\ StoreTyped /\ EvaluatorTyped(e) /\ EvaluatorInv(e)
           /\ me[e].known \X Equipment \subseteq Pairs
           /\ \A p \in Pairs : Reference(e, p) \in 0 .. MaxIssues
           /\ \A n \in Indices : n # 0
  BY ProcessesSplit, ReferenceType, BoundsAssumption
     DEF IInv, TypeOK, EvaluatorTyped, Pairs, Indices

\* A step that only reads: what is seen stays, and what was known stays known.
LEMMA ReadKeeps ==
    ASSUME IInv, NEW e \in Evaluators, OthersKept(e), UNCHANGED <<db, tx, pending>>,
           me[e].pc # "idle", me'[e].pc # "idle", me'[e].known = me[e].known,
           EvaluatorTyped(e)',
           me'[e].pc \in {"reread", "recover"} => RefersTo(e, me[e].pair, me[e].ref)',
           me'[e].pc = "put" => RefersTo(e, me[e].pair, me[e].next.issue)',
           \A p \in Pairs : Recorded(e, p)' = Recorded(e, p),
           me'[e].pc \in {"reread", "recover"} =>
              /\ me'[e].next.issue = 0
              /\ Has(me[e].pair[1], "ACTIVE")' => Reference(e, me[e].pair)' = me'[e].ref
    PROVE  IInv'
  <1> USE ProcessesSplit
  <1>1. EvaluatorInv(e)
    BY DEF IInv
  <1>2. StoreTyped'
    BY NoWriteTyped DEF IInv, TypeOK, OthersKept
  <1>3. WritesKnown(e)'
    BY <1>1 DEF EvaluatorInv, WritesKnown
  <1>4. Refers(e)'
    <2>1. \A p \in Pairs : RefersTo(e, p, Reference(e, p))'
      BY <1>1 DEF EvaluatorInv, Refers, RefersTo, Reference, Visible
    <2> QED BY <2>1 DEF Refers
  <1>5. SeesOpenIssue(e)'
    <2>1. \A p \in Pairs, n \in Indices : OpenFor(e, p, n)' <=> OpenFor(e, p, n)
      BY DEF OpenFor, Visible
    <2>2. \A p \in Pairs : Has(p[1], "ACTIVE")' <=> Has(p[1], "ACTIVE")
      BY DEF Has
    <2>3. ASSUME NEW p \in Pairs, Has(p[1], "ACTIVE")', NEW n \in Indices
          PROVE  OpenFor(e, p, n)' <=> Recorded(e, p)' = n
      BY <1>1, <2>1, <2>2, <2>3 DEF EvaluatorInv, SeesOpenIssue
    <2> QED BY <2>3 DEF SeesOpenIssue
  <1> QED
    BY <1>2, <1>3, <1>4, <1>5, EvaluatorStepKeeps DEF EvaluatorInv

LEMMA FrameKeeps ==
    ASSUME IInv, NEW e \in Evaluators, Frame(e)
    PROVE  IInv'
  <1> USE ProcessesSplit
  <1>1. PICK todo \in SUBSET (me[e].known \X Equipment) :
          me' = [me EXCEPT ![e].frames = @ - 1, ![e].todo = todo]
    BY DEF Frame
  <1>2. /\ StoreTyped /\ EvaluatorTyped(e) /\ me[e].pc = "frame" /\ me[e].frames > 0
        /\ UNCHANGED <<db, tx, pending>>
    BY Draining DEF Frame
  <1>3. /\ me'[e].pc = "frame" /\ me'[e].frames = me[e].frames - 1
        /\ me'[e].taken = me[e].taken /\ me'[e].known = me[e].known
        /\ me'[e].todo = todo /\ DOMAIN me'[e] = DOMAIN me[e]
    BY <1>1, <1>2 DEF StoreTyped, EvaluatorTyped, Asleep
  <1>4. OthersKept(e)
    BY <1>1, <1>2 DEF OthersKept, StoreTyped
  <1>5. EvaluatorTyped(e)'
    <2>1. pending \in Nat /\ me[e].frames \in Nat /\ me[e].frames <= me[e].taken
          /\ me[e].taken \in 1 .. pending
      BY <1>2, BoundsAssumption DEF IInv, TypeOK, EvaluatorTyped
    <2>2. me'[e].frames \in Nat /\ me'[e].frames <= me'[e].taken
      BY <1>2, <1>3, <2>1
    <2>3. todo \subseteq me'[e].known \X Equipment
      BY <1>3
    <2> QED BY <1>2, <1>3, <2>2, <2>3 DEF EvaluatorTyped
  <1>6. \A p \in Pairs : Recorded(e, p)' = Recorded(e, p)
    BY <1>2, <1>3 DEF Recorded, Reference, Visible
  <1> QED BY <1>2, <1>3, <1>4, <1>5, <1>6, ReadKeeps

LEMMA KeepKeeps ==
    ASSUME IInv, NEW e \in Evaluators, me[e].pc = "frame", NEW p \in me[e].todo, Keep(e, p)
    PROVE  IInv'
  <1> USE ProcessesSplit
  <1>1. /\ StoreTyped /\ EvaluatorTyped(e) /\ EvaluatorInv(e)
        /\ UNCHANGED <<db, tx, pending>>
        /\ p \in me[e].known \X Equipment /\ p \in Pairs
    BY Draining DEF Keep, EvaluatorTyped
  <1>2. PICK n : n = Reference(e, p)
    OBVIOUS
  <1>3. /\ me'[e].pc = "put" /\ me'[e].frames = me[e].frames
        /\ me'[e].taken = me[e].taken /\ me'[e].known = me[e].known
        /\ me'[e].todo = me[e].todo \ {p} /\ me'[e].pair = p /\ me'[e].next = [issue |-> n]
        /\ DOMAIN me'[e] = DOMAIN me[e]
    BY <1>1, <1>2 DEF Keep, StoreTyped, EvaluatorTyped, Asleep
  <1>4. OthersKept(e)
    BY <1>1 DEF Keep, OthersKept, StoreTyped
  <1>5. EvaluatorTyped(e)'
    <2>1. [issue |-> n] \in State
      BY <1>1, <1>2, Draining DEF State
    <2> QED BY <1>1, <1>3, <2>1 DEF EvaluatorTyped
  <1>6. \A q \in Pairs : Reference(e, q)' = Reference(e, q)
    BY <1>1 DEF Reference, Visible
  <1>7. \A q \in Pairs : Recorded(e, q)' = Recorded(e, q)
    BY <1>2, <1>3, <1>6 DEF Recorded
  <1>8. RefersTo(e, me[e].pair, me[e].next.issue)'
    <2>1. RefersTo(e, p, n)
      BY <1>1, <1>2 DEF EvaluatorInv, Refers
    <2>2. RefersTo(e, p, n)'
      BY <1>1, <2>1 DEF RefersTo, Visible
    <2> QED BY <1>3, <2>2
  <1> QED BY <1>1, <1>3, <1>4, <1>5, <1>7, <1>8, ReadKeeps

LEMMA ClearKeeps ==
    ASSUME IInv, NEW e \in Evaluators, me[e].pc = "frame", NEW p \in me[e].todo, Clear(e, p)
    PROVE  IInv'
  <1> USE ProcessesSplit
  <1>1. /\ StoreTyped /\ EvaluatorTyped(e) /\ EvaluatorInv(e)
        /\ UNCHANGED <<db, tx, pending>>
        /\ p \in me[e].known \X Equipment /\ p \in Pairs
    BY Draining DEF Clear, EvaluatorTyped
  <1>2. PICK n : n = Reference(e, p)
    OBVIOUS
  <1>3. /\ me'[e].pc = "reread" /\ me'[e].frames = me[e].frames
        /\ me'[e].taken = me[e].taken /\ me'[e].known = me[e].known
        /\ me'[e].todo = me[e].todo \ {p} /\ me'[e].pair = p /\ me'[e].next = [issue |-> 0]
        /\ me'[e].ref = n /\ DOMAIN me'[e] = DOMAIN me[e]
    BY <1>1, <1>2 DEF Clear, StoreTyped, EvaluatorTyped, Asleep
  <1>4. OthersKept(e)
    BY <1>1 DEF Clear, OthersKept, StoreTyped
  <1>5. n \in Indices
    BY <1>1, <1>2, Draining, BoundsAssumption DEF Clear, Indices
  <1>6. EvaluatorTyped(e)'
    <2>1. [issue |-> 0] \in State
      BY BoundsAssumption DEF State
    <2> QED BY <1>1, <1>3, <1>5, <2>1 DEF EvaluatorTyped
  <1>7. \A q \in Pairs : Reference(e, q)' = Reference(e, q)
    BY <1>1 DEF Reference, Visible
  <1>8. \A q \in Pairs : Recorded(e, q)' = Recorded(e, q)
    BY <1>3, <1>7 DEF Recorded
  <1>9. RefersTo(e, me[e].pair, me[e].ref)'
    <2>1. RefersTo(e, p, n)
      BY <1>1, <1>2 DEF EvaluatorInv, Refers
    <2>2. RefersTo(e, p, n)'
      BY <1>1, <2>1 DEF RefersTo, Visible
    <2> QED BY <1>3, <2>2
  <1>10. me'[e].next.issue = 0 /\ Reference(e, me[e].pair)' = me'[e].ref
    <2>1. Reference(e, p)' = n
      BY <1>1, <1>2, <1>7
    <2> QED BY <1>3, <2>1
  <1> QED BY <1>1, <1>3, <1>4, <1>6, <1>8, <1>9, <1>10, ReadKeeps

LEMMA ReadIssueKeeps ==
    ASSUME IInv, NEW e \in Evaluators, ReadIssue(e)
    PROVE  IInv'
  <1> USE ProcessesSplit
  <1>1. /\ StoreTyped /\ EvaluatorTyped(e) /\ EvaluatorInv(e)
        /\ UNCHANGED <<db, tx, pending>> /\ me[e].pc = "reread"
        /\ me[e].pair \in Pairs /\ me[e].ref \in Indices
    BY Draining DEF ReadIssue, EvaluatorTyped
  <1>2. /\ me'[e].pc = "recover" /\ me'[e].frames = me[e].frames
        /\ me'[e].taken = me[e].taken /\ me'[e].known = me[e].known
        /\ me'[e].todo = me[e].todo /\ me'[e].pair = me[e].pair
        /\ me'[e].next = me[e].next /\ me'[e].ref = me[e].ref
        /\ me'[e].read = Visible(e, OpenIssue(e)) /\ DOMAIN me'[e] = DOMAIN me[e]
    BY <1>1 DEF ReadIssue, StoreTyped, EvaluatorTyped, Asleep
  <1>3. OthersKept(e)
    BY <1>1 DEF ReadIssue, OthersKept, StoreTyped
  <1>4. RefersTo(e, me[e].pair, me[e].ref)
    BY <1>1 DEF EvaluatorInv, Refers
  <1>5. Visible(e, OpenIssue(e)) \in Issue
    BY <1>1, <1>4, VisibleType DEF RefersTo, OpenIssue
  <1>6. EvaluatorTyped(e)'
    BY <1>1, <1>2, <1>5 DEF EvaluatorTyped
  <1>7. \A q \in Pairs : Reference(e, q)' = Reference(e, q)
    BY <1>1 DEF Reference, Visible
  <1>8. \A q \in Pairs : Recorded(e, q)' = Recorded(e, q)
    BY <1>1, <1>2, <1>7 DEF Recorded
  <1>9. RefersTo(e, me[e].pair, me[e].ref)'
    BY <1>1, <1>2, <1>4 DEF RefersTo, Visible
  <1>10. /\ me'[e].next.issue = 0
         /\ Has(me[e].pair[1], "ACTIVE")' => Reference(e, me[e].pair)' = me'[e].ref
    <2>1. PICK p \in Pairs : p = me[e].pair
      BY <1>1
    <2>2. me[e].next.issue = 0 /\ (Has(p[1], "ACTIVE") => Reference(e, p) = me[e].ref)
      BY <1>1, <2>1 DEF EvaluatorInv, SeesOpenIssue
    <2>3. Has(p[1], "ACTIVE")' => Reference(e, p)' = me'[e].ref
      BY <1>1, <1>2, <1>7, <2>2 DEF Has
    <2> QED BY <1>2, <2>1, <2>2, <2>3
  <1> QED BY <1>1, <1>2, <1>3, <1>6, <1>8, <1>9, <1>10, ReadKeeps

\* A step that writes a row of a pair of the evaluation.
LEMMA WriteKeeps ==
    ASSUME IInv, NEW e \in Evaluators, OthersKept(e), UNCHANGED <<db, pending>>,
           me[e].pc # "idle", me'[e].pc \in {"frame", "put"}, me'[e].known = me[e].known,
           StoreTyped', EvaluatorTyped(e)',
           NEW p \in me[e].known \X Equipment,
           NEW row, NEW value, value # Absent, Write(e, row, value),
           row = StateRow(p) \/ \E n \in Indices : row = IssueRow(p, n),
           \A q \in Pairs : RefersTo(e, q, Reference(e, q))',
           me'[e].pc = "put" => RefersTo(e, me[e].pair, me[e].next.issue)',
           \A q \in Pairs : Has(q[1], "ACTIVE") =>
              \A n \in Indices : OpenFor(e, q, n)' <=> Recorded(e, q)' = n
    PROVE  IInv'
  <1> USE ProcessesSplit
  <1>1. EvaluatorInv(e) /\ p \in Pairs
    BY Draining
  <1>2. /\ DOMAIN tx'[e] = DOMAIN tx[e] \cup {row} /\ tx'[e][row] = value
        /\ \A x \in DOMAIN tx[e] \ {row} : tx'[e][x] = tx[e][x]
    BY WriteEffect DEF IInv, TypeOK, StoreTyped
  <1>3. WritesKnown(e)'
    <2>1. WritesKnown(e)
      BY <1>1 DEF EvaluatorInv
    <2>2. \A v \in Versions : VersionRow(v) \notin DOMAIN tx'[e]
      BY <1>2, <2>1, RowNames DEF WritesKnown
    <2>3. ASSUME NEW q \in Pairs, StateRow(q) \in DOMAIN tx'[e]
          PROVE  q[1] \in me'[e].known /\ tx'[e][StateRow(q)] # Absent
      <3>1. CASE StateRow(q) = row
        <4>1. q = p
          BY <3>1, RowNames
        <4> QED BY <1>2, <3>1, <4>1
      <3>2. CASE StateRow(q) # row
        BY <1>2, <2>1, <2>3, <3>2 DEF WritesKnown
      <3> QED BY <3>1, <3>2
    <2>4. ASSUME NEW q \in Pairs, NEW m \in Indices, IssueRow(q, m) \in DOMAIN tx'[e]
          PROVE  q[1] \in me'[e].known /\ tx'[e][IssueRow(q, m)] # Absent
      <3>1. CASE IssueRow(q, m) = row
        <4>1. q = p
          BY <3>1, RowNames
        <4> QED BY <1>2, <3>1, <4>1
      <3>2. CASE IssueRow(q, m) # row
        BY <1>2, <2>1, <2>4, <3>2 DEF WritesKnown
      <3> QED BY <3>1, <3>2
    <2> QED BY <2>2, <2>3, <2>4 DEF WritesKnown
  <1>4. Refers(e)'
    BY DEF Refers
  <1>5. \A q \in Pairs : Has(q[1], "ACTIVE")' <=> Has(q[1], "ACTIVE")
    BY DEF Has
  <1>6. SeesOpenIssue(e)'
    BY <1>5 DEF SeesOpenIssue
  <1> QED BY <1>3, <1>4, <1>6, EvaluatorStepKeeps DEF EvaluatorInv

\* An issue that is inserted: nobody else writes it.
LEMMA InsertUnlocked ==
    ASSUME IInv, NEW e \in Evaluators, me[e].pc # "idle",
           NEW p \in Pairs, NEW n \in Indices, Visible(e, IssueRow(p, n)) = Absent
    PROVE  Unlocked(e, IssueRow(p, n))
  <1> USE ProcessesSplit
  <1>1. db[IssueRow(p, n)] = Absent
    BY DEF IInv, EvaluatorInv, WritesKnown, Visible
  <1>2. ASSUME NEW r \in Requests PROVE IssueRow(p, n) \notin DOMAIN tx[r]
    BY <1>1 DEF IInv, RequestInv, WritesEvidence
  <1>3. ASSUME NEW f \in Evaluators \ {e} PROVE IssueRow(p, n) \notin DOMAIN tx[f]
    <2>1. me[f].pc = "idle"
      BY DEF IInv, Exclusive
    <2> QED BY <2>1, EmptyTx DEF IInv, TypeOK
  <1> QED BY <1>2, <1>3 DEF Unlocked, Processes

LEMMA TriggerKeeps ==
    ASSUME IInv, NEW e \in Evaluators, me[e].pc = "frame", NEW p \in me[e].todo, Trigger(e, p)
    PROVE  IInv'
  <1> USE ProcessesSplit
  <1> DEFINE value == [status |-> "ACTIVE", recovered |-> FALSE, stopped |-> FALSE]
  <1>1. PICK n \in Indices :
          /\ Visible(e, IssueRow(p, n)) = Absent
          /\ Write(e, IssueRow(p, n), value)
          /\ me' = [me EXCEPT ![e].pc = "put", ![e].todo = @ \ {p}, ![e].pair = p,
                              ![e].next = [issue |-> n]]
    BY DEF Trigger
  <1>2. /\ StoreTyped /\ EvaluatorTyped(e) /\ EvaluatorInv(e)
        /\ UNCHANGED <<db, pending>> /\ Reference(e, p) = 0
        /\ p \in me[e].known \X Equipment /\ p \in Pairs
    BY Draining DEF Trigger, EvaluatorTyped
  <1>3. /\ me'[e].pc = "put" /\ me'[e].frames = me[e].frames
        /\ me'[e].taken = me[e].taken /\ me'[e].known = me[e].known
        /\ me'[e].todo = me[e].todo \ {p} /\ me'[e].pair = p /\ me'[e].next = [issue |-> n]
        /\ DOMAIN me'[e] = DOMAIN me[e]
    BY <1>1, <1>2 DEF StoreTyped, EvaluatorTyped, Asleep
  <1>4. OthersKept(e)
    BY <1>1, <1>2, WriteEffect DEF OthersKept, StoreTyped
  <1>5. value \in Issue /\ value # Absent /\ value.status = "ACTIVE"
    <2>1. value \in Issue /\ value.status = "ACTIVE"
      BY DEF Issue
    <2> HIDE DEF value
    <2> QED BY <2>1, AbsentAssumption
  <1> HIDE DEF value
  <1>6. StoreTyped'
    <2>1. IssueRow(p, n) \in Rows /\ value \in Values(IssueRow(p, n)) \cup {Absent}
      BY <1>2, <1>5, RowsOfPairs, ValuesOfRows
    <2>2. Unlocked(e, IssueRow(p, n))
      BY <1>1, <1>2, InsertUnlocked
    <2> QED BY <1>1, <1>2, <1>3, <1>4, <2>1, <2>2, WriteTyped DEF OthersKept
  <1>7. EvaluatorTyped(e)'
    <2>1. [issue |-> n] \in State
      BY BoundsAssumption DEF State, Indices
    <2> QED BY <1>2, <1>3, <2>1 DEF EvaluatorTyped
  <1>8. /\ Visible(e, IssueRow(p, n))' = value
        /\ \A x : x # IssueRow(p, n) => Visible(e, x)' = Visible(e, x)
    BY <1>1, <1>2, WriteSeen DEF StoreTyped
  <1>9. \A q \in Pairs : Reference(e, q)' = Reference(e, q)
    BY <1>8, RowNames DEF Reference
  <1>10. \A q \in Pairs : RefersTo(e, q, Reference(e, q))'
    <2>1. ASSUME NEW q \in Pairs PROVE RefersTo(e, q, Reference(e, q))'
      <3>1. PICK m : m = Reference(e, q)
        OBVIOUS
      <3>2. RefersTo(e, q, m)
        BY <1>2, <3>1 DEF EvaluatorInv, Refers
      <3>3. RefersTo(e, q, m)'
        BY <1>5, <1>8, <3>2 DEF RefersTo
      <3> QED BY <1>9, <3>1, <3>3
    <2> QED BY <2>1
  <1>11. RefersTo(e, me[e].pair, me[e].next.issue)'
    BY <1>3, <1>5, <1>8 DEF RefersTo
  <1>12. ASSUME NEW q \in Pairs, Has(q[1], "ACTIVE"), NEW m \in Indices
         PROVE  OpenFor(e, q, m)' <=> Recorded(e, q)' = m
    <2>1. OpenFor(e, q, m) <=> Reference(e, q) = m
      BY <1>2, <1>12 DEF EvaluatorInv, SeesOpenIssue, Recorded
    <2>2. CASE q = p
      <3>1. Recorded(e, q)' = n
        BY <1>3, <2>2 DEF Recorded
      <3>2. CASE m = n
        BY <1>5, <1>8, <2>2, <3>1, <3>2 DEF OpenFor
      <3>3. CASE m # n
        <4>1. ~OpenFor(e, q, m)
          BY <1>2, <2>1, <2>2, Draining
        <4>2. ~OpenFor(e, q, m)'
          BY <1>8, <3>3, <4>1, RowNames DEF OpenFor
        <4> QED BY <3>1, <3>3, <4>2
      <3> QED BY <3>2, <3>3
    <2>3. CASE q # p
      <3>1. Recorded(e, q)' = Reference(e, q)
        BY <1>3, <1>9, <2>3 DEF Recorded
      <3>2. OpenFor(e, q, m)' <=> OpenFor(e, q, m)
        BY <1>8, <2>3, RowNames DEF OpenFor
      <3> QED BY <2>1, <3>1, <3>2
    <2> QED BY <2>2, <2>3
  <1> QED
    BY <1>1, <1>2, <1>3, <1>4, <1>5, <1>6, <1>7, <1>10, <1>11, <1>12, WriteKeeps

LEMMA RecoverKeeps ==
    ASSUME IInv, NEW e \in Evaluators, Recover(e)
    PROVE  IInv'
  <1> USE ProcessesSplit
  <1> DEFINE value == [me[e].read EXCEPT !.status = "RECOVERED", !.recovered = TRUE]
  <1>1. /\ StoreTyped /\ EvaluatorTyped(e) /\ EvaluatorInv(e)
        /\ UNCHANGED <<db, pending>> /\ me[e].pc = "recover"
        /\ me[e].pair \in me[e].known \X Equipment /\ me[e].pair \in Pairs
        /\ me[e].ref \in Indices /\ me[e].next \in State
    BY Draining DEF Recover, EvaluatorTyped
  <1>2. PICK p, n : p = me[e].pair /\ n = me[e].ref
    OBVIOUS
  <1>3. /\ Unlocked(e, IssueRow(p, n)) /\ Write(e, IssueRow(p, n), value)
        /\ me' = [me EXCEPT ![e].pc = "put", ![e].read = Absent, ![e].ref = 0]
    BY <1>2 DEF Recover, OpenIssue
  <1>4. /\ me'[e].pc = "put" /\ me'[e].frames = me[e].frames
        /\ me'[e].taken = me[e].taken /\ me'[e].known = me[e].known
        /\ me'[e].todo = me[e].todo /\ me'[e].pair = p /\ me'[e].next = me[e].next
        /\ DOMAIN me'[e] = DOMAIN me[e]
    BY <1>1, <1>2, <1>3 DEF StoreTyped, EvaluatorTyped, Asleep
  <1>5. OthersKept(e)
    BY <1>1, <1>3, WriteEffect DEF OthersKept, StoreTyped
  <1>6. value \in Issue /\ value # Absent /\ value.status # "ACTIVE"
    <2>1. me[e].read \in Issue
      BY <1>1 DEF EvaluatorTyped
    <2>2. value \in Issue /\ value.status = "RECOVERED"
      BY <2>1 DEF Issue
    <2> HIDE DEF value
    <2> QED BY <2>2, AbsentAssumption
  <1> HIDE DEF value
  <1>7. StoreTyped'
    <2>1. IssueRow(p, n) \in Rows /\ value \in Values(IssueRow(p, n)) \cup {Absent}
      BY <1>1, <1>2, <1>6, RowsOfPairs, ValuesOfRows
    <2> QED BY <1>1, <1>3, <1>4, <1>5, <2>1, WriteTyped DEF OthersKept
  <1>8. EvaluatorTyped(e)'
    BY <1>1, <1>2, <1>4 DEF EvaluatorTyped
  <1>9. /\ Visible(e, IssueRow(p, n))' = value
        /\ \A x : x # IssueRow(p, n) => Visible(e, x)' = Visible(e, x)
    BY <1>1, <1>3, WriteSeen DEF StoreTyped
  <1>10. \A q \in Pairs : Reference(e, q)' = Reference(e, q)
    BY <1>9, RowNames DEF Reference
  <1>11. \A q \in Pairs : RefersTo(e, q, Reference(e, q))'
    <2>1. ASSUME NEW q \in Pairs PROVE RefersTo(e, q, Reference(e, q))'
      <3>1. PICK m : m = Reference(e, q)
        OBVIOUS
      <3>2. RefersTo(e, q, m)
        BY <1>1, <3>1 DEF EvaluatorInv, Refers
      <3>3. RefersTo(e, q, m)'
        BY <1>6, <1>9, <3>2 DEF RefersTo
      <3> QED BY <1>10, <3>1, <3>3
    <2> QED BY <2>1
  <1>12. me'[e].next.issue = 0 /\ (Has(p[1], "ACTIVE") => Reference(e, p) = n)
    BY <1>1, <1>2, <1>4 DEF EvaluatorInv, SeesOpenIssue
  <1>13. RefersTo(e, me[e].pair, me[e].next.issue)'
    BY <1>12, Draining DEF RefersTo
  <1>14. ASSUME NEW q \in Pairs, Has(q[1], "ACTIVE"), NEW m \in Indices
         PROVE  OpenFor(e, q, m)' <=> Recorded(e, q)' = m
    <2>1. OpenFor(e, q, m) <=> Reference(e, q) = m
      BY <1>1, <1>14 DEF EvaluatorInv, SeesOpenIssue, Recorded
    <2>2. CASE q = p
      <3>1. Recorded(e, q)' = 0
        BY <1>4, <1>12, <2>2 DEF Recorded
      <3>2. CASE m = n
        BY <1>6, <1>9, <2>2, <3>1, <3>2, Draining DEF OpenFor
      <3>3. CASE m # n
        <4>1. ~OpenFor(e, q, m)
          BY <1>12, <1>14, <2>1, <2>2, <3>3
        <4>2. ~OpenFor(e, q, m)'
          BY <1>9, <3>3, <4>1, RowNames DEF OpenFor
        <4> QED BY <3>1, <4>2, Draining
      <3> QED BY <3>2, <3>3
    <2>3. CASE q # p
      <3>1. Recorded(e, q)' = Reference(e, q)
        BY <1>4, <1>10, <2>3 DEF Recorded
      <3>2. OpenFor(e, q, m)' <=> OpenFor(e, q, m)
        BY <1>9, <2>3, RowNames DEF OpenFor
      <3> QED BY <2>1, <3>1, <3>2
    <2> QED BY <2>2, <2>3
  <1> QED
    BY <1>1, <1>2, <1>3, <1>4, <1>5, <1>6, <1>7, <1>8, <1>11, <1>13, <1>14, WriteKeeps

LEMMA PutStateKeeps ==
    ASSUME IInv, NEW e \in Evaluators, PutState(e)
    PROVE  IInv'
  <1> USE ProcessesSplit
  <1>1. /\ StoreTyped /\ EvaluatorTyped(e) /\ EvaluatorInv(e)
        /\ UNCHANGED <<db, pending>> /\ me[e].pc = "put"
        /\ me[e].pair \in me[e].known \X Equipment /\ me[e].pair \in Pairs
        /\ me[e].next \in State
    BY Draining DEF PutState, EvaluatorTyped
  <1>2. PICK p, value : p = me[e].pair /\ value = me[e].next
    OBVIOUS
  <1>3. /\ Unlocked(e, StateRow(p)) /\ Write(e, StateRow(p), value)
        /\ me' = [me EXCEPT ![e].pc = "frame", ![e].pair = Absent, ![e].next = Absent]
    BY <1>2 DEF PutState
  <1>4. /\ me'[e].pc = "frame" /\ me'[e].frames = me[e].frames
        /\ me'[e].taken = me[e].taken /\ me'[e].known = me[e].known
        /\ me'[e].todo = me[e].todo /\ DOMAIN me'[e] = DOMAIN me[e]
    BY <1>1, <1>3 DEF StoreTyped, EvaluatorTyped, Asleep
  <1>5. OthersKept(e)
    BY <1>1, <1>3, WriteEffect DEF OthersKept, StoreTyped
  <1>6. value # Absent
    BY <1>1, <1>2, AbsentAssumption
  <1>7. StoreTyped'
    <2>1. StateRow(p) \in Rows /\ value \in Values(StateRow(p)) \cup {Absent}
      BY <1>1, <1>2, RowsOfPairs, ValuesOfRows
    <2> QED BY <1>1, <1>3, <1>4, <1>5, <2>1, WriteTyped DEF OthersKept
  <1>8. EvaluatorTyped(e)'
    BY <1>1, <1>4 DEF EvaluatorTyped
  <1>9. /\ Visible(e, StateRow(p))' = value
        /\ \A x : x # StateRow(p) => Visible(e, x)' = Visible(e, x)
    BY <1>1, <1>3, WriteSeen DEF StoreTyped
  <1>10. \A q \in Pairs : Reference(e, q)' = Recorded(e, q)
    <2>1. ASSUME NEW q \in Pairs, q # p PROVE Reference(e, q)' = Recorded(e, q)
      BY <1>2, <1>9, <2>1, RowNames DEF Reference, Recorded
    <2>2. Reference(e, p)' = Recorded(e, p)
      BY <1>1, <1>2, <1>6, <1>9 DEF Reference, Recorded
    <2> QED BY <2>1, <2>2
  <1>11. \A q \in Pairs : \A m \in Indices : Visible(e, IssueRow(q, m))' = Visible(e, IssueRow(q, m))
    BY <1>9, RowNames
  <1>12. \A q \in Pairs : RefersTo(e, q, Reference(e, q))'
    <2>1. ASSUME NEW q \in Pairs PROVE RefersTo(e, q, Reference(e, q))'
      <3>1. PICK m : m = Recorded(e, q)
        OBVIOUS
      <3>2. RefersTo(e, q, m)
        BY <1>1, <3>1 DEF EvaluatorInv, Refers, Recorded
      <3>3. RefersTo(e, q, m)'
        BY <1>11, <3>2 DEF RefersTo
      <3> QED BY <1>10, <3>1, <3>3
    <2> QED BY <2>1
  <1>13. ASSUME NEW q \in Pairs, Has(q[1], "ACTIVE"), NEW m \in Indices
         PROVE  OpenFor(e, q, m)' <=> Recorded(e, q)' = m
    <2>1. OpenFor(e, q, m) <=> Recorded(e, q) = m
      BY <1>1, <1>13 DEF EvaluatorInv, SeesOpenIssue
    <2>2. OpenFor(e, q, m)' <=> OpenFor(e, q, m)
      BY <1>11 DEF OpenFor
    <2>3. Recorded(e, q)' = Reference(e, q)'
      BY <1>4 DEF Recorded
    <2> QED BY <1>10, <2>1, <2>2, <2>3
  <1> QED
    BY <1>1, <1>2, <1>3, <1>4, <1>5, <1>6, <1>7, <1>8, <1>12, <1>13, WriteKeeps

-------------------------------------------------------------------------------
(* The end of a drain. *)

\* What the evaluator saw is what is committed; versions are not written.
LEMMA Drained ==
    ASSUME IInv, NEW e \in Evaluators, FinishDrain(e)
    PROVE  /\ StoreTyped' /\ OthersKept(e) /\ DOMAIN tx'[e] = {} /\ me'[e] = Asleep
           /\ me[e].pc = "frame" /\ pending' = pending - me[e].taken
           /\ \A v \in Versions : db'[VersionRow(v)] = db[VersionRow(v)]
           /\ \A p \in Pairs :
                /\ db'[StateRow(p)] = Visible(e, StateRow(p))
                /\ \A n \in Indices : db'[IssueRow(p, n)] = Visible(e, IssueRow(p, n))
           /\ \A p \in Pairs : \A n \in Indices :
                db[IssueRow(p, n)] # Absent => db'[IssueRow(p, n)] # Absent
           /\ \A v \in Versions : Untouched(v) => Untouched(v)'
  <1> USE ProcessesSplit
  <1>1. /\ StoreTyped /\ me[e].pc = "frame" /\ tx' = [tx EXCEPT ![e] = <<>>]
        /\ db' = Overlay(tx[e], db) /\ me' = [me EXCEPT ![e] = Asleep]
        /\ pending' = pending - me[e].taken
    BY DEF IInv, TypeOK, FinishDrain
  <1>2. OthersKept(e) /\ DOMAIN tx'[e] = {} /\ me'[e] = Asleep
    BY <1>1, CommitEffect DEF OthersKept, StoreTyped
  <1>3. \A row \in Rows : db'[row] = Visible(e, row)
    BY <1>1, CommitEffect
  <1>4. WritesKnown(e)
    BY DEF IInv, EvaluatorInv
  <1>5. \A v \in Versions : db'[VersionRow(v)] = db[VersionRow(v)]
    BY <1>3, <1>4, RowsOfPairs DEF WritesKnown, Visible
  <1>6. \A p \in Pairs :
          /\ db'[StateRow(p)] = Visible(e, StateRow(p))
          /\ \A n \in Indices : db'[IssueRow(p, n)] = Visible(e, IssueRow(p, n))
    BY <1>3, RowsOfPairs
  <1>7. \A p \in Pairs : \A n \in Indices :
          db[IssueRow(p, n)] # Absent => db'[IssueRow(p, n)] # Absent
    BY <1>4, <1>6 DEF WritesKnown, Visible
  <1>8. ASSUME NEW v \in Versions, Untouched(v)
        PROVE  Untouched(v)'
    <2>1. v \notin me[e].known
      BY <1>8 DEF Untouched
    <2>2. ASSUME NEW p \in Pairs, p[1] = v
          PROVE  db'[StateRow(p)] = Absent /\ \A n \in Indices : db'[IssueRow(p, n)] = Absent
      BY <1>4, <1>6, <1>8, <2>1, <2>2 DEF WritesKnown, Visible, Untouched
    <2>3. \A f \in Evaluators : v \notin me'[f].known
      BY <1>2, <1>8 DEF Untouched, OthersKept, Asleep
    <2> QED BY <2>2, <2>3 DEF Untouched
  <1>9. StoreTyped'
    BY <1>1, <1>2, EndTyped DEF OthersKept
  <1> QED BY <1>1, <1>2, <1>5, <1>6, <1>7, <1>8, <1>9

LEMMA DrainedStore ==
    ASSUME IInv, NEW e \in Evaluators, FinishDrain(e)
    PROVE  /\ Numbered' /\ DraftsUntouched' /\ StatesRefer'
           /\ OneVersionInService' /\ OpenIssueInState'
  <1>1. \A v \in Versions : db'[VersionRow(v)] = db[VersionRow(v)]
    BY Drained
  <1>2. \A p \in Pairs : p[1] \in Versions
    BY DEF Pairs
  <1>3. /\ EvaluatorInv(e) /\ me[e].pc = "frame"
    BY Drained DEF IInv
  <1>4. Numbered'
    <2>1. \A v \in Versions : \A u \in 1 .. v - 1 : u \in Versions
      BY BoundsAssumption DEF Versions
    <2>2. \A v \in Versions : Exists(v)' <=> Exists(v)
      BY <1>1 DEF Exists
    <2> QED BY <1>1, <2>1, <2>2 DEF IInv, Numbered
  <1>5. OneVersionInService'
    BY <1>1 DEF IInv, OneVersionInService, Has
  <1>6. DraftsUntouched'
    <2>1. \A v \in Versions : /\ Exists(v)' <=> Exists(v)
                              /\ Has(v, "DRAFT")' <=> Has(v, "DRAFT")
      BY <1>1 DEF Exists, Has
    <2> QED BY <2>1, Drained DEF IInv, DraftsUntouched
  <1>7. \A p \in Pairs : \A n \in Indices :
          Reference(e, p) = n <=> db'[StateRow(p)] # Absent /\ db'[StateRow(p)].issue = n
    BY Drained, Draining DEF Reference
  <1>8. StatesRefer'
    <2>1. ASSUME NEW p \in Pairs, NEW n \in Indices, db'[StateRow(p)] # Absent,
                 db'[StateRow(p)].issue = n
          PROVE  db'[IssueRow(p, n)] # Absent
      <3>1. Reference(e, p) = n
        BY <1>7, <2>1
      <3>2. Visible(e, IssueRow(p, n)) # Absent
        BY <1>3, <3>1 DEF EvaluatorInv, Refers, RefersTo
      <3> QED BY <3>2, Drained
    <2> QED BY <2>1 DEF StatesRefer
  <1>9. OpenIssueInState'
    <2>1. ASSUME NEW p \in Pairs, Has(p[1], "ACTIVE")', NEW n \in Indices
          PROVE  Open(p, n)' <=> db'[StateRow(p)] # Absent /\ db'[StateRow(p)].issue = n
      <3>1. Has(p[1], "ACTIVE")
        BY <1>1, <1>2, <2>1 DEF Has
      <3>2. OpenFor(e, p, n) <=> Reference(e, p) = n
        BY <1>3, <3>1 DEF EvaluatorInv, SeesOpenIssue, Recorded
      <3>3. Open(p, n)' <=> OpenFor(e, p, n)
        BY Drained DEF Open, OpenFor
      <3> QED BY <1>7, <3>2, <3>3
    <2> QED BY <2>1 DEF OpenIssueInState
  <1> QED BY <1>4, <1>5, <1>6, <1>8, <1>9

LEMMA DrainedRequests ==
    ASSUME IInv, NEW e \in Evaluators, FinishDrain(e), NEW r \in Requests
    PROVE  RequestInv(r)'
  <1> USE ProcessesSplit
  <1>1. me'[r] = me[r] /\ tx'[r] = tx[r] /\ RequestInv(r)
    BY Drained DEF OthersKept, IInv
  <1>2. \A v \in Versions : db'[VersionRow(v)] = db[VersionRow(v)]
    BY Drained
  <1>3. \A v \in Versions : \A u \in 1 .. v - 1 : u \in Versions
    BY BoundsAssumption DEF Versions
  <1>4. \A v \in Versions :
          /\ Exists(v)' <=> Exists(v)
          /\ Has(v, "ACTIVE")' <=> Has(v, "ACTIVE")
          /\ Stopped(r, v) => Stopped(r, v)'
    BY <1>1, <1>2 DEF Exists, Has, Stopped
  <1>5. WritesVersions(r)'
    <2>1. \A v \in Versions : Created(r, v) => Created(r, v)'
      BY <1>1, <1>3, <1>4 DEF Created
    <2>2. \A v \in Versions : Activated(r, v) => Activated(r, v)'
      BY <1>1 DEF Activated
    <2> QED BY <1>1, <1>4, <2>1, <2>2 DEF RequestInv, WritesVersions
  <1>6. WritesEvidence(r)'
    BY <1>1, <1>4, Drained DEF RequestInv, WritesEvidence, Pairs
  <1>7. Place(r)'
    <2>1. me[r].stopping \subseteq Versions
      BY DEF IInv, TypeOK, RequestTyped
    <2> QED BY <1>1, <1>4, <2>1 DEF RequestInv, Place
  <1>8. Activates(r)'
    <2>1. PICK t : t = me[r].target
      OBVIOUS
    <2>2. SUFFICES ASSUME Holds(r), me[r].op = "activate"
                   PROVE  /\ Untouched(t)' /\ ~Has(t, "ACTIVE")'
                          /\ t \notin me[r].stopping
                          /\ me[r].pc = "commit" => me[r].stopping = {}
                          /\ \A v \in Versions : Has(v, "ACTIVE")' =>
                                v \in me[r].stopping \/ VersionRow(v) \in DOMAIN tx[r]
      BY <1>1, <2>1 DEF Activates, Holds
    <2>3. /\ Untouched(t) /\ ~Has(t, "ACTIVE") /\ t \in Versions
          /\ t \notin me[r].stopping
          /\ me[r].pc = "commit" => me[r].stopping = {}
          /\ \A v \in Versions : Has(v, "ACTIVE") =>
                v \in me[r].stopping \/ VersionRow(v) \in DOMAIN tx[r]
      BY <1>1, <2>1, <2>2 DEF RequestInv, Activates, Place
    <2> QED BY <1>4, <2>3, Drained
  <1> QED BY <1>5, <1>6, <1>7, <1>8 DEF RequestInv

LEMMA FinishDrainKeeps ==
    ASSUME IInv, NEW e \in Evaluators, FinishDrain(e)
    PROVE  IInv'
  <1> USE ProcessesSplit
  <1>1. /\ StoreTyped' /\ OthersKept(e) /\ DOMAIN tx'[e] = {} /\ me'[e] = Asleep
        /\ me[e].pc = "frame" /\ pending' = pending - me[e].taken
    BY Drained
  <1>2. \A f \in Evaluators : me'[f].pc = "idle" /\ DOMAIN tx'[f] = {}
    <2>1. ASSUME NEW f \in Evaluators, f # e PROVE me'[f].pc = "idle" /\ DOMAIN tx'[f] = {}
      <3>1. me[f].pc = "idle"
        BY <1>1, <2>1 DEF IInv, Exclusive
      <3> QED BY <1>1, <2>1, <3>1, EmptyTx DEF IInv, TypeOK, OthersKept
    <2> QED BY <1>1, <2>1 DEF Asleep
  <1>3. \A f \in Evaluators : EvaluatorInv(f)'
    BY <1>2, DrainedStore, FreshView
  <1>4. Exclusive'
    BY <1>1, <1>2 DEF IInv, Exclusive, Holds, OthersKept
  <1>5. \A r \in Requests : RequestTyped(r)'
    BY <1>1 DEF IInv, TypeOK, RequestTyped, OthersKept
  <1>6. \A f \in Evaluators : EvaluatorTyped(f)'
    <2>1. EvaluatorTyped(e)'
      BY <1>1 DEF EvaluatorTyped, Asleep
    <2>2. ASSUME NEW f \in Evaluators, f # e PROVE EvaluatorTyped(f)'
      BY <1>1, <1>2, <2>2 DEF IInv, TypeOK, EvaluatorTyped, OthersKept
    <2> QED BY <2>1, <2>2
  <1>7. pending' \in 0 .. MaxPending
    BY <1>1, BoundsAssumption DEF IInv, TypeOK, EvaluatorTyped
  <1>8. TypeOK'
    BY <1>1, <1>5, <1>6, <1>7 DEF TypeOK
  <1> QED BY <1>3, <1>4, <1>8, DrainedStore, DrainedRequests DEF IInv

-------------------------------------------------------------------------------
(* All of it. *)

LEMMA NothingMoves ==
    ASSUME IInv, UNCHANGED <<db, tx, me>>, pending' \in 0 .. MaxPending, pending' >= pending
    PROVE  IInv'
  <1> USE ProcessesSplit
  <1>1. /\ Numbered' /\ DraftsUntouched' /\ StatesRefer'
        /\ OneVersionInService' /\ OpenIssueInState'
    BY StoreKept
  <1>2. \A r \in Requests : RequestInv(r)'
    BY RequestKept DEF IInv
  <1>3. \A e \in Evaluators : EvaluatorInv(e)'
    BY EvaluatorKept DEF IInv
  <1>4. Exclusive'
    BY DEF IInv, Exclusive, Holds
  <1>5. TypeOK'
    <2>1. StoreTyped'
      BY DEF IInv, TypeOK, StoreTyped, Values
    <2>2. \A r \in Requests : RequestTyped(r)'
      BY DEF IInv, TypeOK, RequestTyped
    <2>3. ASSUME NEW e \in Evaluators PROVE EvaluatorTyped(e)'
      <3>1. EvaluatorTyped(e) /\ pending \in Nat /\ pending' \in Nat
        BY BoundsAssumption DEF IInv, TypeOK
      <3>2. \A k \in 1 .. pending : k \in 1 .. pending'
        BY <3>1
      <3> QED BY <3>1, <3>2 DEF EvaluatorTyped
    <2> QED BY <2>1, <2>2, <2>3 DEF TypeOK
  <1> QED BY <1>1, <1>2, <1>3, <1>4, <1>5 DEF IInv

LEMMA Initially == Init => IInv
  <1> SUFFICES ASSUME Init PROVE IInv
    OBVIOUS
  <1> USE ProcessesSplit, BoundsAssumption
  <1>1. /\ DOMAIN db = Rows /\ \A row \in Rows : db[row] = Absent
        /\ DOMAIN tx = Processes /\ DOMAIN me = Processes /\ pending = 0
        /\ \A p \in Processes : tx[p] = <<>> /\ DOMAIN tx[p] = {} /\ me[p].pc = "idle"
        /\ \A r \in Requests : me[r] = Idle
        /\ \A e \in Evaluators : me[e] = Asleep
    <2>1. \A r \in Requests : me[r] = Idle
      BY DEF Init
    <2>2. \A e \in Evaluators : me[e] = Asleep
      BY DEF Init
    <2>3. \A p \in Processes : me[p].pc = "idle"
      BY <2>1, <2>2 DEF Processes, Idle, Asleep
    <2> QED BY <2>1, <2>2, <2>3 DEF Init
  <1>2. /\ \A v \in Versions : db[VersionRow(v)] = Absent
        /\ \A p \in Pairs : db[StateRow(p)] = Absent
        /\ \A p \in Pairs, n \in Indices : db[IssueRow(p, n)] = Absent
    BY <1>1, RowsOfPairs
  <1>3. StoreTyped
    BY <1>1 DEF StoreTyped
  <1>4. \A r \in Requests : RequestTyped(r)
    BY <1>1 DEF RequestTyped, Idle
  <1>5. \A e \in Evaluators : EvaluatorTyped(e)
    BY <1>1 DEF EvaluatorTyped, Asleep
  <1>6. TypeOK
    BY <1>1, <1>3, <1>4, <1>5 DEF TypeOK
  <1>7. Exclusive
    BY <1>1 DEF Exclusive, Holds
  <1>8. Numbered /\ StatesRefer /\ OneVersionInService /\ OpenIssueInState
    <2>1. \A p \in Pairs : p[1] \in Versions
      BY DEF Pairs
    <2> QED
      BY <1>2, <2>1
      DEF Numbered, StatesRefer, OneVersionInService, OpenIssueInState, Exists, Has
  <1>9. DraftsUntouched
    BY <1>1, <1>2 DEF DraftsUntouched, Untouched, Asleep
  <1>10. \A r \in Requests : RequestInv(r)
    BY <1>1 DEF RequestInv, WritesVersions, WritesEvidence, Place, Activates, Holds, Idle
  <1>11. ASSUME NEW e \in Evaluators PROVE EvaluatorInv(e)
    <2>1. \A x : Visible(e, x) = db[x]
      BY <1>1 DEF Visible
    <2>2. WritesKnown(e) /\ Refers(e)
      BY <1>1, <1>2, <2>1 DEF WritesKnown, Refers, RefersTo, Reference, Asleep, Indices
    <2>3. SeesOpenIssue(e)
      <3>1. \A p \in Pairs : p[1] \in Versions
        BY DEF Pairs
      <3> QED BY <1>1, <1>2, <3>1 DEF SeesOpenIssue, Has, Asleep
    <2> QED BY <2>2, <2>3 DEF EvaluatorInv
  <1> QED BY <1>6, <1>7, <1>8, <1>9, <1>10, <1>11 DEF IInv

LEMMA RequestsKeep ==
    ASSUME IInv, NEW r \in Requests, RequestStep(r)
    PROVE  IInv'
  <1>1. CASE Request(r, "create", 0)
    BY <1>1, RequestBegins, BoundsAssumption
  <1>2. ASSUME NEW v \in Versions, Request(r, "activate", v) \/ Request(r, "disable", v)
        PROVE  IInv'
    <2>1. v \in 0 .. MaxVersions
      BY BoundsAssumption DEF Versions
    <2> QED BY <1>2, <2>1, RequestBegins
  <1>3. CASE Create(r) \/ Check(r) \/ Confirm(r)
    BY <1>3, CreateKeeps, CheckKeeps, ConfirmKeeps
  <1>4. CASE Stop(r) \/ Halt(r) \/ Scan(r) \/ Erase(r) \/ StopDone(r)
    BY <1>4, StopKeeps, HaltKeeps, ScanKeeps, EraseKeeps, StopDoneKeeps
  <1>5. CASE Commit(r)
    BY <1>5, CommitKeeps
  <1> QED BY <1>1, <1>2, <1>3, <1>4, <1>5 DEF RequestStep

LEMMA EvaluatorsKeep ==
    ASSUME IInv, NEW e \in Evaluators, EvaluatorStep(e)
    PROVE  IInv'
  <1>1. CASE StartDrain(e) \/ Frame(e)
    BY <1>1, StartDrainKeeps, FrameKeeps
  <1>2. CASE Evaluate(e)
    BY <1>2, KeepKeeps, TriggerKeeps, ClearKeeps DEF Evaluate
  <1>3. CASE ReadIssue(e) \/ Recover(e) \/ PutState(e)
    BY <1>3, ReadIssueKeeps, RecoverKeeps, PutStateKeeps
  <1>4. CASE FinishDrain(e)
    BY <1>4, FinishDrainKeeps
  <1> QED BY <1>1, <1>2, <1>3, <1>4 DEF EvaluatorStep

\* Every step of every process keeps the invariant.
LEMMA EveryStepKeeps == IInv /\ [Next]_vars => IInv'
  <1> SUFFICES ASSUME IInv, [Next]_vars PROVE IInv'
    OBVIOUS
  <1>1. pending \in 0 .. MaxPending /\ MaxPending \in Nat
    BY BoundsAssumption DEF IInv, TypeOK
  <1>2. CASE Due
    <2>1. UNCHANGED <<db, tx, me>> /\ pending' \in 0 .. MaxPending /\ pending' >= pending
      BY <1>1, <1>2 DEF Due
    <2> QED BY <2>1, NothingMoves
  <1>3. CASE UNCHANGED vars
    <2>1. UNCHANGED <<db, tx, me>> /\ pending' \in 0 .. MaxPending /\ pending' >= pending
      BY <1>1, <1>3 DEF vars
    <2> QED BY <2>1, NothingMoves
  <1>4. CASE \E r \in Requests : RequestStep(r)
    BY <1>4, RequestsKeep
  <1>5. CASE \E e \in Evaluators : EvaluatorStep(e)
    BY <1>5, EvaluatorsKeep
  <1>6. CASE \E p \in Processes : Fail(p)
    BY <1>6, FailKeeps
  <1> QED BY <1>2, <1>3, <1>4, <1>5, <1>6 DEF Next

\* The inductive invariant holds in every state.
THEOREM InductiveInvariant == Spec => []IInv
  BY Initially, EveryStepKeeps, PTL DEF Spec

\* Every row, transaction and process has the type it should have; in
\* particular, no two open transactions have written the same row.
THEOREM TypeCorrect == Spec => []TypeOK
  <1>1. IInv => TypeOK
    BY DEF IInv
  <1> QED BY <1>1, InductiveInvariant, PTL

\* A rule has at most one version in service and no two versions of it share a
\* number, on either database, however the requests interleave with each other,
\* with evaluation and with transactions that fail (rules.py, activate and
\* create under the rule's advisory lock).
THEOREM OneVersion == Spec => []OneVersionInService
  <1>1. IInv => OneVersionInService
    BY DEF IInv
  <1> QED BY <1>1, InductiveInvariant, PTL

\* For every pair of a version in service, the committed state refers to the one
\* open issue of the pair, and to none when there is none: an open issue is never
\* forgotten and never opened twice (evaluator.py, state["issue_id"]).
THEOREM StateKnowsIssue == Spec => []OpenIssueInState
  <1>1. IInv => OpenIssueInState
    BY DEF IInv
  <1> QED BY <1>1, InductiveInvariant, PTL

-------------------------------------------------------------------------------
(***************************************************************************)
(* Where transactions are serial, which is what BEGIN IMMEDIATE makes of   *)
(* them on SQLite: what is out of service is quiet, what is closed stays   *)
(* closed, and every commit is one step of RuleLifecycle.  On PostgreSQL   *)
(* these do not hold.                                                      *)
(***************************************************************************)

(* The inductive invariant: a transaction sees and has written all that    *)
(* its statements say, as nothing changes while it runs.                   *)

\* One transaction is open at a time.
Alone == \A p, q \in Processes : me[p].pc # "idle" /\ me[q].pc # "idle" => p = q

\* An open issue has neither recovered nor been stopped.
OpenIsFresh ==
    \A p \in Pairs, n \in Indices : Open(p, n) =>
        db[IssueRow(p, n)].recovered = FALSE /\ db[IssueRow(p, n)].stopped = FALSE

Halted(issue) == [issue EXCEPT !.status = "STOPPED", !.stopped = TRUE]

\* The open issues of a version that r has stopped are stopped or will be, its
\* closed ones are left alone, and its states are gone or will be.
Complete(r) ==
    \A p \in Pairs : Stopped(r, p[1]) =>
        /\ StateRow(p) \in me[r].erase \/ Visible(r, StateRow(p)) = Absent
        /\ \A n \in Indices :
              LET row == IssueRow(p, n)
              IN  /\ row \in DOMAIN tx[r] =>
                        Open(p, n) /\ tx[r][row] = Halted(db[row])
                  /\ row \in DOMAIN me[r].found =>
                        Open(p, n) /\ me[r].found[row] = db[row]
                  /\ Open(p, n) => row \in DOMAIN tx[r] \cup DOMAIN me[r].found

\* What r is to stop it has not yet stopped; what it activates is a draft, and it
\* stops what is in service and nothing else.
Purpose(r) ==
    /\ \A v \in me[r].stopping : VersionRow(v) \notin DOMAIN tx[r]
    /\ me[r].op = "create" /\ me[r].pc = "commit" =>
          \E v \in Versions : DOMAIN tx[r] = {VersionRow(v)} /\ Created(r, v)
    /\ me[r].op = "disable" =>
          /\ me[r].stopping \subseteq {me[r].target}
          /\ \A v \in Versions : VersionRow(v) \in DOMAIN tx[r] => v = me[r].target
          /\ me[r].pc # "stop" => VersionRow(me[r].target) \in DOMAIN tx[r]
    /\ me[r].op = "activate" /\ Holds(r) =>
          /\ Has(me[r].target, "DRAFT")
          /\ \A v \in me[r].stopping : Has(v, "ACTIVE")
          /\ \A v \in Versions : VersionRow(v) \in DOMAIN tx[r] =>
                v = me[r].target \/ Has(v, "ACTIVE")
          /\ me[r].pc = "commit" => VersionRow(me[r].target) \in DOMAIN tx[r]

\* e opens issues and recovers open ones, of versions in service.
Evaluated(e, p, n) ==
    LET row == IssueRow(p, n)
    IN  /\ db[row] = Absent \/ db[row].status = "ACTIVE"
        /\ tx[e][row].status \in {"ACTIVE", "RECOVERED"}
        /\ tx[e][row].recovered = (tx[e][row].status = "RECOVERED")
        /\ tx[e][row].stopped = FALSE

Evaluates(e) ==
    /\ \A v \in me[e].known : Has(v, "ACTIVE")
    /\ \A p \in Pairs, n \in Indices : IssueRow(p, n) \in DOMAIN tx[e] => Evaluated(e, p, n)
    /\ me[e].pc = "recover" => me[e].read = Visible(e, OpenIssue(e))

SInv ==
    /\ IInv
    /\ Alone /\ OutOfServiceIsQuiet /\ OpenIsFresh
    /\ \A r \in Requests : Complete(r) /\ Purpose(r)
    /\ \A e \in Evaluators : Evaluates(e)

-------------------------------------------------------------------------------
(* What a step leaves alone. *)

LEMMA SerialRequestKept ==
    ASSUME NEW q \in Requests, Complete(q), Purpose(q), db' = db,
           me'[q] = me[q], tx'[q] = tx[q]
    PROVE  Complete(q)' /\ Purpose(q)'
  <1>1. \A v : Stopped(q, v)' <=> Stopped(q, v)
    BY DEF Stopped, Exists
  <1>2. Complete(q)'
    BY <1>1 DEF Complete, Visible, Open
  <1>3. Purpose(q)'
    BY DEF Purpose, Created, Exists, Has, Holds
  <1> QED BY <1>2, <1>3

LEMMA SerialEvaluatorKept ==
    ASSUME NEW e \in Evaluators, Evaluates(e), db' = db, me'[e] = me[e], tx'[e] = tx[e]
    PROVE  Evaluates(e)'
  BY DEF Evaluates, Evaluated, Has, Visible, OpenIssue

\* A process that has no transaction.
LEMMA IdleSerial ==
    ASSUME IInv, NEW q \in Processes, me[q].pc = "idle"
    PROVE  /\ q \in Requests => Complete(q) /\ Purpose(q)
           /\ q \in Evaluators => Evaluates(q)
  <1>1. StoreTyped /\ DOMAIN tx[q] = {}
    BY EmptyTx DEF IInv, TypeOK
  <1>2. ASSUME q \in Requests PROVE Complete(q) /\ Purpose(q)
    <2>1. me[q].op = "none" /\ me[q].stopping = {}
      BY <1>2 DEF IInv, RequestInv, Place
    <2>2. \A v : ~Stopped(q, v)
      BY <1>1 DEF Stopped
    <2> QED BY <1>1, <2>1, <2>2 DEF Complete, Purpose
  <1>3. ASSUME q \in Evaluators PROVE Evaluates(q)
    BY <1>1, <1>3 DEF IInv, TypeOK, EvaluatorTyped, Evaluates
  <1> QED BY <1>2, <1>3

\* A step of one process that does not commit.
LEMMA SerialStepKeeps ==
    ASSUME SInv, IInv', NEW p \in Processes, OthersKept(p), db' = db,
           me[p].pc # "idle" \/ \A q \in Processes : me[q].pc = "idle",
           p \in Requests => Complete(p)' /\ Purpose(p)',
           p \in Evaluators => Evaluates(p)'
    PROVE  SInv'
  <1> USE ProcessesSplit
  <1>1. \A q \in Processes \ {p} : me'[q] = me[q] /\ tx'[q] = tx[q]
    BY DEF OthersKept
  <1>2. Alone'
    BY <1>1 DEF SInv, Alone
  <1>3. OutOfServiceIsQuiet' /\ OpenIsFresh'
    BY DEF SInv, OutOfServiceIsQuiet, OpenIsFresh, Has, Open
  <1>4. \A q \in Requests : Complete(q)' /\ Purpose(q)'
    BY <1>1, SerialRequestKept DEF SInv
  <1>5. \A e \in Evaluators : Evaluates(e)'
    BY <1>1, SerialEvaluatorKept DEF SInv
  <1> QED BY <1>2, <1>3, <1>4, <1>5 DEF SInv

-------------------------------------------------------------------------------
(* The steps of a request. *)

LEMMA SerialBegins ==
    ASSUME SInv, IInv', Dialect = "sqlite", NEW r \in Requests,
           NEW op \in {"create", "activate", "disable"}, NEW target,
           Request(r, op, target)
    PROVE  SInv'
  <1> USE ProcessesSplit
  <1>1. /\ StoreTyped /\ RequestTyped(r) /\ me[r].pc = "idle" /\ tx' = tx /\ db' = db
        /\ DOMAIN tx[r] = {} /\ \A q \in Processes : me[q].pc = "idle"
    BY EmptyTx DEF SInv, IInv, TypeOK, Request, MayBegin
  <1>2. /\ me'[r].pc = (IF op = "disable" THEN "stop" ELSE "lock")
        /\ me'[r].op = op /\ me'[r].target = target
        /\ me'[r].stopping = (IF op = "disable" THEN {target} ELSE {})
    BY <1>1 DEF Request, StoreTyped, RequestTyped, Idle
  <1>3. OthersKept(r)
    BY <1>1 DEF Request, OthersKept, StoreTyped
  <1>4. \A v : ~Stopped(r, v)'
    BY <1>1 DEF Stopped
  <1>5. Complete(r)'
    BY <1>4 DEF Complete
  <1>6. Purpose(r)'
    BY <1>1, <1>2 DEF Purpose, Holds
  <1> QED BY <1>1, <1>3, <1>5, <1>6, SerialStepKeeps

LEMMA CreateSerial ==
    ASSUME SInv, IInv', NEW r \in Requests, Create(r)
    PROVE  SInv'
  <1> USE ProcessesSplit
  <1>1. PICK v \in Versions :
          Write(r, VersionRow(v), [status |-> "DRAFT", number |-> NextNumber(r)])
    BY DEF Create
  <1>2. /\ StoreTyped /\ RequestTyped(r) /\ me[r].pc = "lock" /\ me[r].op = "create"
        /\ db' = db /\ DOMAIN tx[r] = {} /\ me[r].stopping = {}
    BY DEF SInv, IInv, TypeOK, Create, RequestInv, Place
  <1>3. me'[r].pc = "commit" /\ me'[r].op = "create" /\ me'[r].stopping = me[r].stopping
    BY <1>2 DEF Create, StoreTyped, RequestTyped, Idle
  <1>4. OthersKept(r)
    BY <1>1, <1>2, WriteEffect DEF Create, OthersKept, StoreTyped
  <1>5. DOMAIN tx'[r] = {VersionRow(v)} /\ tx'[r][VersionRow(v)].status = "DRAFT"
    <2>1. /\ DOMAIN tx'[r] = DOMAIN tx[r] \cup {VersionRow(v)}
          /\ tx'[r][VersionRow(v)] = [status |-> "DRAFT", number |-> NextNumber(r)]
      BY <1>1, <1>2, WriteEffect DEF StoreTyped
    <2> QED BY <1>2, <2>1
  <1>6. Created(r, v)'
    BY <1>5 DEF IInv, RequestInv, WritesVersions, Stopped, Activated
  <1>7. \A u \in Versions : ~Stopped(r, u)'
    BY <1>5, RowNames DEF Stopped
  <1>8. Complete(r)'
    BY <1>7 DEF Complete, Pairs
  <1>9. Purpose(r)'
    BY <1>2, <1>3, <1>5, <1>6 DEF Purpose
  <1> QED BY <1>2, <1>4, <1>8, <1>9, SerialStepKeeps

LEMMA CheckSerial ==
    ASSUME SInv, IInv', NEW r \in Requests, Check(r)
    PROVE  SInv'
  <1> USE ProcessesSplit
  <1>1. /\ StoreTyped /\ RequestTyped(r) /\ me[r].pc = "lock" /\ me[r].op = "activate"
        /\ UNCHANGED <<db, tx>> /\ DOMAIN tx[r] = {}
        /\ Exists(me[r].target)
    BY DEF SInv, IInv, TypeOK, Check, RequestInv, Place
  <1>2. /\ me'[r].pc = "stop" /\ me'[r].op = "activate"
        /\ me'[r].target = me[r].target /\ me'[r].stopping = WithStatus(r, "ACTIVE")
    BY <1>1 DEF Check, StoreTyped, RequestTyped, Idle
  <1>3. OthersKept(r)
    BY <1>1 DEF Check, OthersKept, StoreTyped
  <1>4. \A v : Visible(r, VersionRow(v)) = db[VersionRow(v)]
    BY <1>1 DEF Visible
  <1>5. \A v \in WithStatus(r, "ACTIVE") : Has(v, "ACTIVE")
    BY <1>4 DEF WithStatus, Has
  <1>6. Has(me[r].target, "DRAFT")
    BY <1>1, <1>4 DEF Check, Has, Exists
  <1>7. \A v : ~Stopped(r, v)'
    BY <1>1 DEF Stopped
  <1>8. Complete(r)'
    BY <1>7 DEF Complete
  <1>9. Purpose(r)'
    BY <1>1, <1>2, <1>5, <1>6 DEF Purpose, Has
  <1> QED BY <1>1, <1>3, <1>8, <1>9, SerialStepKeeps

LEMMA StopSerial ==
    ASSUME SInv, IInv', NEW r \in Requests, Stop(r)
    PROVE  SInv'
  <1> USE ProcessesSplit
  <1> DEFINE value(v) == [Visible(r, VersionRow(v)) EXCEPT !.status = "DISABLED"]
  <1>1. PICK v \in me[r].stopping :
          /\ Write(r, VersionRow(v), value(v))
          /\ me' = [me EXCEPT
                      ![r].pc = "halt",
                      ![r].stopping = @ \ {v},
                      ![r].found = [i \in ActiveIssues(r, v) |-> Visible(r, i)],
                      ![r].erase = {StateRow(<<v, e>>) : e \in Equipment}]
    BY DEF Stop
  <1> HIDE DEF value
  <1>2. /\ StoreTyped /\ RequestTyped(r) /\ me[r].pc = "stop" /\ db' = db
        /\ DOMAIN me[r].found = {} /\ me[r].erase = {} /\ v \in Versions
        /\ me[r].op \in {"activate", "disable"}
        /\ Complete(r) /\ Purpose(r) /\ WritesEvidence(r)
    BY DEF SInv, IInv, TypeOK, Stop, RequestInv, Place, RequestTyped
  <1>3. /\ me'[r].pc = "halt" /\ me'[r].op = me[r].op
        /\ me'[r].target = me[r].target /\ me'[r].stopping = me[r].stopping \ {v}
        /\ me'[r].found = [i \in ActiveIssues(r, v) |-> Visible(r, i)]
        /\ me'[r].erase = {StateRow(<<v, e>>) : e \in Equipment}
    BY <1>1, <1>2 DEF StoreTyped, RequestTyped, Idle
  <1>4. OthersKept(r)
    BY <1>1, <1>2, WriteEffect DEF OthersKept, StoreTyped
  <1>5. /\ DOMAIN tx'[r] = DOMAIN tx[r] \cup {VersionRow(v)}
        /\ \A x \in DOMAIN tx[r] \ {VersionRow(v)} : tx'[r][x] = tx[r][x]
    <2>1. Write(r, VersionRow(v), value(v))
      BY <1>1
    <2> QED BY <1>2, <2>1, WriteEffect DEF StoreTyped
  <1>6. ~Stopped(r, v)
    BY <1>2 DEF Purpose, Stopped
  <1>7. ASSUME NEW p \in Pairs
        PROVE  /\ StateRow(p) \in DOMAIN tx'[r] <=> StateRow(p) \in DOMAIN tx[r]
               /\ Visible(r, StateRow(p))' = Visible(r, StateRow(p))
               /\ \A n \in Indices :
                    /\ IssueRow(p, n) \in DOMAIN tx'[r] <=> IssueRow(p, n) \in DOMAIN tx[r]
                    /\ IssueRow(p, n) \in DOMAIN tx[r] =>
                         tx'[r][IssueRow(p, n)] = tx[r][IssueRow(p, n)]
    BY <1>2, <1>5, RowNames DEF Visible
  <1>8. ASSUME NEW p \in Pairs, Stopped(r, p[1])', p[1] # v
        PROVE  Stopped(r, p[1])
    BY <1>2, <1>3, <1>5, <1>8, RowNames DEF Stopped, Exists
  <1>9. \A i \in DOMAIN me'[r].found : i[2][1] = v
    BY <1>3 DEF ActiveIssues
  <1>10. Complete(r)'
    <2>1. ASSUME NEW p \in Pairs, Stopped(r, p[1])', p[1] # v
          PROVE  /\ Visible(r, StateRow(p))' = Absent
                 /\ \A n \in Indices :
                      LET row == IssueRow(p, n)
                      IN  /\ row \in DOMAIN tx'[r] =>
                                Open(p, n) /\ tx'[r][row] = Halted(db[row])
                          /\ row \notin DOMAIN me'[r].found
                          /\ Open(p, n) => row \in DOMAIN tx'[r]
      <3>1. \A n \in Indices : IssueRow(p, n) \notin DOMAIN me'[r].found
        BY <1>9, <2>1, RowNames
      <3>2. Stopped(r, p[1])
        BY <1>8, <2>1
      <3> QED BY <1>2, <1>7, <3>1, <3>2 DEF Complete
    <2>2. ASSUME NEW p \in Pairs, p[1] = v
          PROVE  /\ StateRow(p) \in me'[r].erase
                 /\ \A n \in Indices :
                      LET row == IssueRow(p, n)
                      IN  /\ row \notin DOMAIN tx'[r]
                          /\ row \in DOMAIN me'[r].found =>
                                Open(p, n) /\ me'[r].found[row] = db[row]
                          /\ Open(p, n) => row \in DOMAIN me'[r].found
      <3>1. StateRow(p) \in me'[r].erase
        <4>1. p = <<v, p[2]>> /\ p[2] \in Equipment
          BY <2>2 DEF Pairs
        <4> QED BY <1>3, <4>1
      <3>2. ASSUME NEW n \in Indices
            PROVE  /\ IssueRow(p, n) \notin DOMAIN tx'[r]
                   /\ IssueRow(p, n) \in DOMAIN me'[r].found =>
                        Open(p, n) /\ me'[r].found[IssueRow(p, n)] = db[IssueRow(p, n)]
                   /\ Open(p, n) => IssueRow(p, n) \in DOMAIN me'[r].found
        <4>1. IssueRow(p, n) \notin DOMAIN tx[r]
          BY <1>2, <1>6, <2>2 DEF WritesEvidence
        <4>2. Visible(r, IssueRow(p, n)) = db[IssueRow(p, n)]
          BY <4>1 DEF Visible
        <4>3. IssueRow(p, n) \in ActiveIssues(r, v) <=> Open(p, n)
          BY <2>2, <4>2, RowNames, RowsOfPairs DEF ActiveIssues, Open
        <4> QED BY <1>3, <1>7, <4>1, <4>2, <4>3
      <3> QED BY <3>1, <3>2
    <2>3. \A p \in Pairs, n \in Indices : Open(p, n)' <=> Open(p, n)
      BY <1>2 DEF Open
    <2> QED BY <1>2, <2>1, <2>2, <2>3 DEF Complete, Halted
  <1>11. Purpose(r)'
    <2>1. \A u \in Versions : VersionRow(u) \in DOMAIN tx'[r] <=> u = v \/ VersionRow(u) \in DOMAIN tx[r]
      BY <1>5, RowNames
    <2>2. me[r].stopping \subseteq Versions
      BY <1>2 DEF RequestTyped
    <2>3. me[r].op = "activate" => Holds(r)
      BY <1>2 DEF Holds
    <2>4. \A u : Has(u, "ACTIVE")' <=> Has(u, "ACTIVE")
      BY <1>2 DEF Has
    <2>5. \A u : Has(u, "DRAFT")' <=> Has(u, "DRAFT")
      BY <1>2 DEF Has
    <2>6. me[r].op = "disable" => v = me[r].target
      BY <1>2 DEF Purpose
    <2>7. \A u \in me'[r].stopping : VersionRow(u) \notin DOMAIN tx'[r]
      BY <1>2, <1>3, <2>1, <2>2 DEF Purpose
    <2>8. me[r].op = "disable" =>
            /\ me'[r].stopping \subseteq {me'[r].target}
            /\ \A u \in Versions : VersionRow(u) \in DOMAIN tx'[r] => u = me'[r].target
            /\ VersionRow(me'[r].target) \in DOMAIN tx'[r]
      BY <1>2, <1>3, <2>1, <2>6 DEF Purpose
    <2>9. PICK t : t = me[r].target
      OBVIOUS
    <2>10. me[r].op = "activate" =>
            /\ Has(t, "DRAFT")'
            /\ \A u \in me'[r].stopping : Has(u, "ACTIVE")'
            /\ \A u \in Versions : VersionRow(u) \in DOMAIN tx'[r] => u = t \/ Has(u, "ACTIVE")'
      BY <1>2, <1>3, <2>1, <2>3, <2>4, <2>5, <2>9 DEF Purpose
    <2> QED BY <1>2, <1>3, <2>7, <2>8, <2>9, <2>10 DEF Purpose
  <1> QED BY <1>2, <1>4, <1>10, <1>11, SerialStepKeeps

\* A step in the middle of a stop that writes no version.
LEMMA PurposeKept ==
    ASSUME SInv, NEW r \in Requests, db' = db,
           me[r].pc \in {"halt", "erase"}, me'[r].pc \notin {"idle", "lock"},
           me'[r].op = me[r].op, me'[r].target = me[r].target,
           me'[r].stopping = me[r].stopping,
           me'[r].pc = "commit" => me[r].op # "activate",
           \A v \in Versions : VersionRow(v) \in DOMAIN tx'[r] <=> VersionRow(v) \in DOMAIN tx[r],
           me[r].target \in Versions
    PROVE  Purpose(r)'
  <1>1. Purpose(r) /\ me[r].stopping \subseteq Versions /\ me[r].op # "create"
    BY DEF SInv, IInv, RequestInv, Place, TypeOK, RequestTyped
  <1>2. \A v \in me[r].stopping : VersionRow(v) \notin DOMAIN tx'[r]
    BY <1>1 DEF Purpose
  <1>3. me[r].op = "disable" =>
          /\ me[r].stopping \subseteq {me[r].target}
          /\ \A v \in Versions : VersionRow(v) \in DOMAIN tx'[r] => v = me[r].target
          /\ VersionRow(me[r].target) \in DOMAIN tx'[r]
    BY <1>1 DEF Purpose
  <1>4. PICK t : t = me[r].target
    OBVIOUS
  <1>5. me[r].op = "activate" =>
          /\ Has(t, "DRAFT")
          /\ \A v \in me[r].stopping : Has(v, "ACTIVE")
          /\ \A v \in Versions : VersionRow(v) \in DOMAIN tx'[r] => v = t \/ Has(v, "ACTIVE")
    BY <1>1, <1>4 DEF Purpose, Holds
  <1>6. \A v : /\ Has(v, "ACTIVE")' <=> Has(v, "ACTIVE")
               /\ Has(v, "DRAFT")' <=> Has(v, "DRAFT")
    BY DEF Has
  <1> QED BY <1>1, <1>2, <1>3, <1>4, <1>5, <1>6 DEF Purpose

\* Who stops knows what it is about.
LEMMA StoppingHas ==
    ASSUME SInv, NEW r \in Requests, me[r].pc \in {"stop", "halt", "erase"}
    PROVE  /\ StoreTyped /\ RequestTyped(r) /\ WritesEvidence(r)
           /\ Complete(r) /\ Purpose(r)
           /\ me[r].op \in {"activate", "disable"} /\ me[r].target \in Versions
  BY ProcessesSplit DEF SInv, IInv, TypeOK, RequestInv, Place, RequestTyped

LEMMA HaltSerial ==
    ASSUME SInv, IInv', NEW r \in Requests, Halt(r)
    PROVE  SInv'
  <1> USE ProcessesSplit
  <1> DEFINE value(i) == Halted(me[r].found[i])
  <1>1. PICK row \in DOMAIN me[r].found :
          /\ Write(r, row, value(row))
          /\ me' = [me EXCEPT ![r].found = [i \in DOMAIN @ \ {row} |-> me[r].found[i]]]
    BY DEF Halt, Halted
  <1> HIDE DEF value
  <1>2. /\ StoreTyped /\ RequestTyped(r) /\ me[r].pc = "halt" /\ db' = db
        /\ me[r].target \in Versions /\ Complete(r) /\ WritesEvidence(r)
    BY StoppingHas DEF Halt
  <1>3. /\ me'[r].pc = "halt" /\ me'[r].op = me[r].op
        /\ me'[r].target = me[r].target /\ me'[r].stopping = me[r].stopping
        /\ me'[r].found = [i \in DOMAIN me[r].found \ {row} |-> me[r].found[i]]
        /\ me'[r].erase = me[r].erase
    BY <1>1, <1>2 DEF StoreTyped, RequestTyped, Idle
  <1>4. OthersKept(r)
    BY <1>1, <1>2, WriteEffect DEF OthersKept, StoreTyped
  <1>5. /\ DOMAIN tx'[r] = DOMAIN tx[r] \cup {row} /\ tx'[r][row] = value(row)
        /\ \A x \in DOMAIN tx[r] \ {row} : tx'[r][x] = tx[r][x]
    BY <1>1, <1>2, WriteEffect DEF StoreTyped
  <1>6. PICK q \in Pairs, m \in Indices : row = IssueRow(q, m)
    BY <1>1, <1>2 DEF RequestTyped, IssueRows
  <1>7. \A v : VersionRow(v) # row
    BY <1>6, RowNames
  <1>8. Purpose(r)'
    BY <1>2, <1>3, <1>5, <1>7, PurposeKept
  <1>9. \A v \in Versions : Stopped(r, v)' => Stopped(r, v)
    BY <1>2, <1>3, <1>5, <1>7 DEF Stopped, Exists
  <1>10. Complete(r)'
    <2>1. ASSUME NEW p \in Pairs, Stopped(r, p[1])'
          PROVE  StateRow(p) \in me'[r].erase \/ Visible(r, StateRow(p))' = Absent
      <3>1. Stopped(r, p[1])
        BY <1>9, <2>1 DEF Pairs
      <3>2. Visible(r, StateRow(p))' = Visible(r, StateRow(p))
        BY <1>2, <1>5, <1>6, RowNames DEF Visible
      <3> QED BY <1>2, <1>3, <3>1, <3>2 DEF Complete
    <2>2. ASSUME NEW p \in Pairs, Stopped(r, p[1])', NEW n \in Indices, NEW i, i = IssueRow(p, n)
          PROVE  /\ i \in DOMAIN tx'[r] => Open(p, n) /\ tx'[r][i] = Halted(db[i])
                 /\ i \in DOMAIN me'[r].found => Open(p, n) /\ me'[r].found[i] = db[i]
                 /\ Open(p, n) => i \in DOMAIN tx'[r] \cup DOMAIN me'[r].found
      <3>1. Stopped(r, p[1])
        BY <1>9, <2>2 DEF Pairs
      <3>2. /\ i \in DOMAIN tx[r] => Open(p, n) /\ tx[r][i] = Halted(db[i])
            /\ i \in DOMAIN me[r].found => Open(p, n) /\ me[r].found[i] = db[i]
            /\ Open(p, n) => i \in DOMAIN tx[r] \cup DOMAIN me[r].found
        BY <1>2, <2>2, <3>1 DEF Complete
      <3>3. CASE i = row
        <4>1. Open(p, n) /\ me[r].found[row] = db[row]
          BY <1>1, <3>2, <3>3
        <4>2. value(row) = Halted(db[row])
          BY <4>1 DEF value
        <4> QED BY <1>3, <1>5, <3>3, <4>1, <4>2
      <3>4. CASE i # row
        <4>1. i \in DOMAIN tx'[r] <=> i \in DOMAIN tx[r]
          BY <1>5, <3>4
        <4>2. i \in DOMAIN tx[r] => tx'[r][i] = tx[r][i]
          BY <1>5, <3>4
        <4>3. /\ i \in DOMAIN me'[r].found <=> i \in DOMAIN me[r].found
              /\ i \in DOMAIN me[r].found => me'[r].found[i] = me[r].found[i]
          BY <1>3, <3>4
        <4> QED BY <3>2, <4>1, <4>2, <4>3
      <3> QED BY <3>3, <3>4
    <2>3. \A p \in Pairs, n \in Indices : Open(p, n)' <=> Open(p, n)
      BY <1>2 DEF Open
    <2> QED BY <1>2, <2>1, <2>2, <2>3 DEF Complete, Halted
  <1> QED BY <1>2, <1>4, <1>8, <1>10, SerialStepKeeps

\* A step that writes nothing, in the middle of a stop.
LEMMA UnwrittenSerial ==
    ASSUME SInv, IInv', NEW r \in Requests, OthersKept(r), UNCHANGED <<db, tx>>,
           me[r].pc \in {"halt", "erase"}, me'[r].pc \notin {"idle", "lock"},
           me'[r].op = me[r].op, me'[r].target = me[r].target,
           me'[r].stopping = me[r].stopping, me'[r].found = me[r].found,
           me'[r].pc = "commit" => me[r].op # "activate",
           \A p \in Pairs : StateRow(p) \in me[r].erase =>
              StateRow(p) \in me'[r].erase \/ Visible(r, StateRow(p)) = Absent
    PROVE  SInv'
  <1> USE ProcessesSplit
  <1>1. /\ StoreTyped /\ me[r].target \in Versions /\ Complete(r)
    BY StoppingHas
  <1>2. Purpose(r)'
    BY <1>1, PurposeKept
  <1>3. \A v : Stopped(r, v)' <=> Stopped(r, v)
    BY DEF Stopped, Exists
  <1>4. \A p \in Pairs : Visible(r, StateRow(p))' = Visible(r, StateRow(p))
    BY DEF Visible
  <1>5. \A p \in Pairs, n \in Indices : Open(p, n)' <=> Open(p, n)
    BY DEF Open
  <1>6. Complete(r)'
    BY <1>1, <1>3, <1>4, <1>5 DEF Complete, Halted
  <1> QED BY <1>2, <1>6, SerialStepKeeps

LEMMA ScanSerial ==
    ASSUME SInv, IInv', NEW r \in Requests, Scan(r)
    PROVE  SInv'
  <1> USE ProcessesSplit
  <1>1. /\ StoreTyped /\ RequestTyped(r) /\ me[r].pc = "halt" /\ UNCHANGED <<db, tx>>
    BY StoppingHas DEF Scan
  <1>2. /\ me'[r].pc = "erase" /\ me'[r].op = me[r].op
        /\ me'[r].target = me[r].target /\ me'[r].stopping = me[r].stopping
        /\ me'[r].found = me[r].found
        /\ me'[r].erase = {row \in me[r].erase : Visible(r, row) # Absent}
    BY <1>1 DEF Scan, StoreTyped, RequestTyped, Idle
  <1>3. OthersKept(r)
    BY <1>1 DEF Scan, OthersKept, StoreTyped
  <1>4. \A p \in Pairs : StateRow(p) \in me[r].erase =>
              StateRow(p) \in me'[r].erase \/ Visible(r, StateRow(p)) = Absent
    BY <1>2
  <1> QED BY <1>1, <1>2, <1>3, <1>4, UnwrittenSerial

LEMMA EraseSerial ==
    ASSUME SInv, IInv', NEW r \in Requests, Erase(r)
    PROVE  SInv'
  <1> USE ProcessesSplit
  <1>1. PICK row \in me[r].erase :
          /\ Write(r, row, Absent)
          /\ me' = [me EXCEPT ![r].erase = @ \ {row}]
    BY DEF Erase
  <1>2. /\ StoreTyped /\ RequestTyped(r) /\ me[r].pc = "erase" /\ db' = db
        /\ me[r].target \in Versions /\ Complete(r)
    BY StoppingHas DEF Erase
  <1>3. /\ me'[r].pc = "erase" /\ me'[r].op = me[r].op
        /\ me'[r].target = me[r].target /\ me'[r].stopping = me[r].stopping
        /\ me'[r].found = me[r].found /\ me'[r].erase = me[r].erase \ {row}
    BY <1>1, <1>2 DEF StoreTyped, RequestTyped, Idle
  <1>4. OthersKept(r)
    BY <1>1, <1>2, WriteEffect DEF OthersKept, StoreTyped
  <1>5. /\ DOMAIN tx'[r] = DOMAIN tx[r] \cup {row} /\ tx'[r][row] = Absent
        /\ \A x \in DOMAIN tx[r] \ {row} : tx'[r][x] = tx[r][x]
    BY <1>1, <1>2, WriteEffect DEF StoreTyped
  <1>6. PICK q \in Pairs : row = StateRow(q)
    BY <1>1, <1>2 DEF RequestTyped, StateRows
  <1>7. \A v : VersionRow(v) # row
    BY <1>6, RowNames
  <1>8. Purpose(r)'
    BY <1>2, <1>3, <1>5, <1>7, PurposeKept
  <1>9. \A v \in Versions : Stopped(r, v)' => Stopped(r, v)
    BY <1>2, <1>3, <1>5, <1>7 DEF Stopped, Exists
  <1>10. Complete(r)'
    <2>1. ASSUME NEW p \in Pairs, Stopped(r, p[1])'
          PROVE  StateRow(p) \in me'[r].erase \/ Visible(r, StateRow(p))' = Absent
      <3>1. Stopped(r, p[1])
        BY <1>9, <2>1 DEF Pairs
      <3>2. StateRow(p) \in me[r].erase \/ Visible(r, StateRow(p)) = Absent
        BY <1>2, <3>1 DEF Complete
      <3>3. StateRow(p) = row => Visible(r, StateRow(p))' = Absent
        BY <1>5 DEF Visible
      <3>4. StateRow(p) # row => Visible(r, StateRow(p))' = Visible(r, StateRow(p))
        BY <1>2, <1>5 DEF Visible
      <3> QED BY <1>3, <3>2, <3>3, <3>4
    <2>2. ASSUME NEW p \in Pairs, Stopped(r, p[1])', NEW n \in Indices
          PROVE  /\ IssueRow(p, n) \in DOMAIN tx'[r] <=> IssueRow(p, n) \in DOMAIN tx[r]
                 /\ IssueRow(p, n) \in DOMAIN tx[r] => tx'[r][IssueRow(p, n)] = tx[r][IssueRow(p, n)]
                 /\ Stopped(r, p[1])
      <3>1. Stopped(r, p[1])
        BY <1>9, <2>2 DEF Pairs
      <3> QED BY <1>5, <1>6, <3>1, RowNames
    <2>3. \A p \in Pairs, n \in Indices : Open(p, n)' <=> Open(p, n)
      BY <1>2 DEF Open
    <2>4. ASSUME NEW p \in Pairs, Stopped(r, p[1])', NEW n \in Indices
          PROVE  LET i == IssueRow(p, n)
                 IN  /\ i \in DOMAIN tx'[r] => Open(p, n)' /\ tx'[r][i] = Halted(db[i])
                     /\ i \in DOMAIN me'[r].found => Open(p, n)' /\ me'[r].found[i] = db[i]
                     /\ Open(p, n)' => i \in DOMAIN tx'[r] \cup DOMAIN me'[r].found
      BY <1>2, <1>3, <2>2, <2>3, <2>4 DEF Complete
    <2> QED BY <1>2, <2>1, <2>4 DEF Complete, Halted
  <1> QED BY <1>2, <1>4, <1>8, <1>10, SerialStepKeeps

LEMMA StopDoneSerial ==
    ASSUME SInv, IInv', NEW r \in Requests, StopDone(r)
    PROVE  SInv'
  <1> USE ProcessesSplit
  <1>1. /\ StoreTyped /\ RequestTyped(r) /\ me[r].pc = "erase" /\ UNCHANGED <<db, tx>>
    BY StoppingHas DEF StopDone
  <1>2. /\ me'[r].pc = (IF me[r].op = "disable" THEN "commit" ELSE "stop")
        /\ me'[r].op = me[r].op
        /\ me'[r].target = me[r].target /\ me'[r].stopping = me[r].stopping
        /\ me'[r].found = me[r].found /\ me'[r].erase = me[r].erase
    BY <1>1 DEF StopDone, StoreTyped, RequestTyped, Idle
  <1>3. OthersKept(r)
    BY <1>1 DEF StopDone, OthersKept, StoreTyped
  <1> QED BY <1>1, <1>2, <1>3, UnwrittenSerial

LEMMA ConfirmSerial ==
    ASSUME SInv, IInv', NEW r \in Requests, Confirm(r)
    PROVE  SInv'
  <1> USE ProcessesSplit
  <1>1. PICK t : t = me[r].target
    OBVIOUS
  <1> DEFINE value == [Visible(r, VersionRow(t)) EXCEPT !.status = "ACTIVE"]
  <1>2. /\ StoreTyped /\ RequestTyped(r) /\ me[r].pc = "stop" /\ db' = db
        /\ me[r].op = "activate" /\ me[r].stopping = {}
        /\ DOMAIN me[r].found = {} /\ me[r].erase = {}
        /\ t \in Versions /\ Holds(r) /\ Complete(r) /\ Purpose(r)
        /\ Write(r, VersionRow(t), value)
        /\ me' = [me EXCEPT ![r].pc = "commit"]
    BY <1>1, StoppingHas DEF SInv, IInv, Confirm, RequestInv, Place, Holds
  <1>3. /\ me'[r].pc = "commit" /\ me'[r].op = me[r].op
        /\ me'[r].target = t /\ me'[r].stopping = {}
        /\ me'[r].found = me[r].found /\ me'[r].erase = {}
    BY <1>1, <1>2 DEF StoreTyped, RequestTyped, Idle
  <1> HIDE DEF value
  <1>4. OthersKept(r)
    BY <1>2, WriteEffect DEF OthersKept, StoreTyped
  <1>5. /\ DOMAIN tx'[r] = DOMAIN tx[r] \cup {VersionRow(t)}
        /\ \A x \in DOMAIN tx[r] \ {VersionRow(t)} : tx'[r][x] = tx[r][x]
    BY <1>2, WriteEffect DEF StoreTyped
  <1>6. ASSUME NEW v \in Versions, Stopped(r, v)' PROVE Stopped(r, v)
    <2>1. v # t
      BY <1>2, <1>3, <1>6 DEF Stopped
    <2> QED BY <1>1, <1>2, <1>3, <1>5, <1>6, <2>1, RowNames DEF Stopped, Exists
  <1>7. ASSUME NEW p \in Pairs
        PROVE  /\ Visible(r, StateRow(p))' = Visible(r, StateRow(p))
               /\ \A n \in Indices :
                    /\ Open(p, n)' <=> Open(p, n)
                    /\ IssueRow(p, n) \in DOMAIN tx'[r] <=> IssueRow(p, n) \in DOMAIN tx[r]
                    /\ IssueRow(p, n) \in DOMAIN tx[r] =>
                         tx'[r][IssueRow(p, n)] = tx[r][IssueRow(p, n)]
    BY <1>2, <1>5, RowNames DEF Visible, Open
  <1>8. Complete(r)'
    <2>1. ASSUME NEW p \in Pairs, Stopped(r, p[1])'
          PROVE  /\ Visible(r, StateRow(p))' = Absent
                 /\ \A n \in Indices :
                      LET i == IssueRow(p, n)
                      IN  /\ i \in DOMAIN tx'[r] => Open(p, n)' /\ tx'[r][i] = Halted(db[i])
                          /\ Open(p, n)' => i \in DOMAIN tx'[r]
      <3>1. Stopped(r, p[1])
        BY <1>6, <2>1 DEF Pairs
      <3> QED BY <1>2, <1>7, <3>1 DEF Complete
    <2> QED BY <1>2, <1>3, <2>1 DEF Complete, Halted
  <1>9. Purpose(r)'
    <2>1. \A u \in Versions : VersionRow(u) \in DOMAIN tx'[r] <=> u = t \/ VersionRow(u) \in DOMAIN tx[r]
      BY <1>5, RowNames
    <2>2. /\ Has(t, "DRAFT")
          /\ \A v \in Versions : VersionRow(v) \in DOMAIN tx[r] => v = t \/ Has(v, "ACTIVE")
      BY <1>1, <1>2 DEF Purpose
    <2>3. \A v : /\ Has(v, "ACTIVE")' <=> Has(v, "ACTIVE")
                 /\ Has(v, "DRAFT")' <=> Has(v, "DRAFT")
      BY <1>2 DEF Has
    <2> QED BY <1>2, <1>3, <2>1, <2>2, <2>3 DEF Purpose
  <1> QED BY <1>2, <1>4, <1>8, <1>9, SerialStepKeeps

\* A transaction that is rolled back.
LEMMA FailSerial ==
    ASSUME SInv, IInv', NEW p \in Processes, Fail(p)
    PROVE  SInv'
  <1> USE ProcessesSplit
  <1>1. /\ StoreTyped /\ tx' = [tx EXCEPT ![p] = <<>>] /\ db' = db /\ me[p].pc # "idle"
        /\ me' = [me EXCEPT ![p] = IF p \in Requests THEN Idle ELSE Asleep]
    BY DEF SInv, IInv, TypeOK, Fail
  <1>2. OthersKept(p) /\ DOMAIN tx'[p] = {}
    BY <1>1 DEF OthersKept, StoreTyped
  <1>3. ASSUME p \in Requests PROVE Complete(p)' /\ Purpose(p)'
    <2>1. me'[p] = Idle
      BY <1>1, <1>3 DEF StoreTyped
    <2>2. me'[p].op = "none" /\ me'[p].stopping = {}
      BY <2>1 DEF Idle
    <2>3. \A v : ~Stopped(p, v)'
      BY <1>2 DEF Stopped
    <2> QED BY <1>2, <2>2, <2>3 DEF Complete, Purpose
  <1>4. ASSUME p \in Evaluators PROVE Evaluates(p)'
    <2>1. me'[p] = Asleep
      BY <1>1, <1>4 DEF StoreTyped
    <2> QED BY <1>2, <2>1 DEF Evaluates, Asleep
  <1> QED BY <1>1, <1>2, <1>3, <1>4, SerialStepKeeps

-------------------------------------------------------------------------------
(* The steps of an evaluator. *)

LEMMA StartDrainSerial ==
    ASSUME SInv, IInv', Dialect = "sqlite", NEW e \in Evaluators, StartDrain(e)
    PROVE  SInv'
  <1> USE ProcessesSplit
  <1>1. PICK frames \in 1 .. pending :
          me' = [me EXCEPT ![e].pc = "frame", ![e].frames = frames,
                           ![e].taken = frames, ![e].known = WithStatus(e, "ACTIVE")]
    BY DEF StartDrain
  <1>2. /\ StoreTyped /\ EvaluatorTyped(e) /\ me[e].pc = "idle" /\ UNCHANGED <<db, tx>>
        /\ \A q \in Processes : me[q].pc = "idle"
        /\ DOMAIN tx[e] = {} /\ \A x : Visible(e, x) = db[x]
    BY EmptyTx DEF SInv, IInv, TypeOK, StartDrain, MayBegin
  <1>3. me'[e].pc = "frame" /\ me'[e].known = WithStatus(e, "ACTIVE")
    BY <1>1, <1>2 DEF StoreTyped, EvaluatorTyped, Asleep
  <1>4. OthersKept(e)
    BY <1>1, <1>2 DEF OthersKept, StoreTyped
  <1>5. \A v \in WithStatus(e, "ACTIVE") : Has(v, "ACTIVE")
    BY <1>2 DEF WithStatus, Has
  <1>6. \A v : Has(v, "ACTIVE")' <=> Has(v, "ACTIVE")
    BY <1>2 DEF Has
  <1>7. Evaluates(e)'
    BY <1>2, <1>3, <1>5, <1>6 DEF Evaluates
  <1> QED BY <1>2, <1>4, <1>7, SerialStepKeeps

\* A step that only reads.
LEMMA ReadSerial ==
    ASSUME SInv, IInv', NEW e \in Evaluators, OthersKept(e), UNCHANGED <<db, tx>>,
           me[e].pc # "idle", me'[e].known = me[e].known,
           me'[e].pc = "recover" => me'[e].read = Visible(e, OpenIssue(e))'
    PROVE  SInv'
  <1> USE ProcessesSplit
  <1>1. Evaluates(e)
    BY DEF SInv
  <1>2. Evaluates(e)'
    BY <1>1 DEF Evaluates, Evaluated, Has
  <1> QED BY <1>2, SerialStepKeeps

\* A step that writes a state or an issue in service.
LEMMA WriteSerial ==
    ASSUME SInv, IInv', NEW e \in Evaluators, OthersKept(e), db' = db,
           me[e].pc # "idle", me'[e].known = me[e].known, me'[e].pc # "recover",
           NEW row, NEW value, Write(e, row, value),
           \A p \in Pairs, n \in Indices : row = IssueRow(p, n) =>
              /\ db[row] = Absent \/ db[row].status = "ACTIVE"
              /\ value.status \in {"ACTIVE", "RECOVERED"}
              /\ value.recovered = (value.status = "RECOVERED")
              /\ value.stopped = FALSE
    PROVE  SInv'
  <1> USE ProcessesSplit
  <1>1. Evaluates(e)
    BY DEF SInv
  <1>2. /\ DOMAIN tx'[e] = DOMAIN tx[e] \cup {row} /\ tx'[e][row] = value
        /\ \A x \in DOMAIN tx[e] \ {row} : tx'[e][x] = tx[e][x]
    BY WriteEffect DEF SInv, IInv, TypeOK, StoreTyped
  <1>3. ASSUME NEW p \in Pairs, NEW n \in Indices, IssueRow(p, n) \in DOMAIN tx'[e]
        PROVE  Evaluated(e, p, n)'
    <2>1. CASE IssueRow(p, n) = row
      BY <1>2, <2>1 DEF Evaluated
    <2>2. CASE IssueRow(p, n) # row
      BY <1>1, <1>2, <1>3, <2>2 DEF Evaluated, Evaluates
    <2> QED BY <2>1, <2>2
  <1>4. Evaluates(e)'
    BY <1>1, <1>3 DEF Evaluates, Has
  <1> QED BY <1>4, SerialStepKeeps

LEMMA ReadingSerial ==
    ASSUME SInv, IInv', NEW e \in Evaluators,
           \/ Frame(e) \/ ReadIssue(e)
           \/ me[e].pc = "frame" /\ \E p \in me[e].todo : Keep(e, p) \/ Clear(e, p)
    PROVE  SInv'
  <1> USE ProcessesSplit
  <1>1. StoreTyped /\ EvaluatorTyped(e)
    BY Draining DEF SInv
  <1>2. CASE Frame(e)
    <2>1. PICK todo : me' = [me EXCEPT ![e].frames = @ - 1, ![e].todo = todo]
      BY <1>2 DEF Frame
    <2>2. /\ me[e].pc = "frame" /\ me'[e].pc = "frame" /\ me'[e].known = me[e].known
          /\ UNCHANGED <<db, tx>>
      BY <1>1, <1>2, <2>1 DEF Frame, StoreTyped, EvaluatorTyped, Asleep
    <2>3. OthersKept(e)
      BY <1>1, <2>1, <2>2 DEF OthersKept, StoreTyped
    <2> QED BY <2>2, <2>3, ReadSerial
  <1>3. CASE me[e].pc = "frame" /\ \E p \in me[e].todo : Keep(e, p) \/ Clear(e, p)
    <2>1. PICK p \in me[e].todo : Keep(e, p) \/ Clear(e, p)
      BY <1>3
    <2>2. /\ me'[e].pc # "recover" /\ me'[e].known = me[e].known /\ UNCHANGED <<db, tx>>
          /\ OthersKept(e)
      <3>1. CASE Keep(e, p)
        BY <1>1, <3>1 DEF Keep, StoreTyped, EvaluatorTyped, Asleep, OthersKept
      <3>2. CASE Clear(e, p)
        BY <1>1, <3>2 DEF Clear, StoreTyped, EvaluatorTyped, Asleep, OthersKept
      <3> QED BY <2>1, <3>1, <3>2
    <2> QED BY <1>3, <2>2, ReadSerial
  <1>4. CASE ReadIssue(e)
    <2>1. /\ me[e].pc = "reread" /\ me'[e].known = me[e].known /\ UNCHANGED <<db, tx>>
          /\ me'[e].pair = me[e].pair /\ me'[e].ref = me[e].ref
          /\ me'[e].read = Visible(e, OpenIssue(e)) /\ OthersKept(e)
      BY <1>1, <1>4 DEF ReadIssue, StoreTyped, EvaluatorTyped, Asleep, OthersKept
    <2>2. Visible(e, OpenIssue(e))' = Visible(e, OpenIssue(e))
      BY <2>1 DEF Visible, OpenIssue
    <2> QED BY <2>1, <2>2, ReadSerial
  <1> QED BY <1>2, <1>3, <1>4

LEMMA TriggerSerial ==
    ASSUME SInv, IInv', NEW e \in Evaluators, me[e].pc = "frame", NEW p \in me[e].todo,
           Trigger(e, p)
    PROVE  SInv'
  <1> USE ProcessesSplit
  <1> DEFINE value == [status |-> "ACTIVE", recovered |-> FALSE, stopped |-> FALSE]
  <1>1. PICK n \in Indices :
          /\ Visible(e, IssueRow(p, n)) = Absent
          /\ Write(e, IssueRow(p, n), value)
          /\ me' = [me EXCEPT ![e].pc = "put", ![e].todo = @ \ {p}, ![e].pair = p,
                              ![e].next = [issue |-> n]]
    BY DEF Trigger
  <1>2. /\ StoreTyped /\ EvaluatorTyped(e) /\ WritesKnown(e) /\ db' = db /\ p \in Pairs
    BY Draining DEF SInv, Trigger, EvaluatorTyped, EvaluatorInv
  <1>3. me'[e].pc = "put" /\ me'[e].known = me[e].known
    BY <1>1, <1>2 DEF StoreTyped, EvaluatorTyped, Asleep
  <1>4. Write(e, IssueRow(p, n), value)
    BY <1>1
  <1>5. /\ value.status = "ACTIVE" /\ value.recovered = FALSE /\ value.stopped = FALSE
    OBVIOUS
  <1> HIDE DEF value
  <1>6. OthersKept(e)
    BY <1>1, <1>2, WriteEffect DEF OthersKept, StoreTyped
  <1>7. db[IssueRow(p, n)] = Absent
    BY <1>1, <1>2 DEF WritesKnown, Visible
  <1> QED BY <1>2, <1>3, <1>4, <1>5, <1>6, <1>7, WriteSerial

LEMMA RecoverSerial ==
    ASSUME SInv, IInv', NEW e \in Evaluators, Recover(e)
    PROVE  SInv'
  <1> USE ProcessesSplit
  <1> DEFINE value == [me[e].read EXCEPT !.status = "RECOVERED", !.recovered = TRUE]
  <1>1. /\ StoreTyped /\ EvaluatorTyped(e) /\ EvaluatorInv(e) /\ Evaluates(e)
        /\ db' = db /\ me[e].pc = "recover"
        /\ me[e].pair \in me[e].known \X Equipment /\ me[e].pair \in Pairs
        /\ me[e].ref \in Indices /\ me[e].read \in Issue
    BY Draining DEF SInv, Recover, EvaluatorTyped
  <1>2. PICK p, n : p = me[e].pair /\ n = me[e].ref
    OBVIOUS
  <1>3. /\ Write(e, IssueRow(p, n), value)
        /\ me' = [me EXCEPT ![e].pc = "put", ![e].read = Absent, ![e].ref = 0]
    BY <1>2 DEF Recover, OpenIssue
  <1>4. me'[e].pc = "put" /\ me'[e].known = me[e].known
    BY <1>1, <1>3 DEF StoreTyped, EvaluatorTyped, Asleep
  <1>5. OthersKept(e)
    BY <1>1, <1>3, WriteEffect DEF OthersKept, StoreTyped
  <1>6. /\ me[e].read = Visible(e, IssueRow(p, n)) /\ Has(p[1], "ACTIVE")
        /\ p \in Pairs /\ n \in Indices
    BY <1>1, <1>2 DEF Evaluates, OpenIssue
  <1>7. Visible(e, IssueRow(p, n)).status = "ACTIVE"
    <2>1. Reference(e, p) = n
      BY <1>1, <1>2, <1>6 DEF EvaluatorInv, SeesOpenIssue
    <2>2. OpenFor(e, p, n)
      BY <1>1, <1>6, <2>1 DEF EvaluatorInv, SeesOpenIssue, Recorded
    <2> QED BY <2>2 DEF OpenFor
  <1>8. /\ db[IssueRow(p, n)] = Absent \/ db[IssueRow(p, n)].status = "ACTIVE"
        /\ me[e].read.stopped = FALSE
    <2>1. CASE IssueRow(p, n) \in DOMAIN tx[e]
      BY <1>1, <1>6, <2>1 DEF Evaluates, Evaluated, Visible
    <2>2. CASE IssueRow(p, n) \notin DOMAIN tx[e]
      <3>1. me[e].read = db[IssueRow(p, n)] /\ db[IssueRow(p, n)].status = "ACTIVE"
        BY <1>6, <1>7, <2>2 DEF Visible
      <3>2. Open(p, n)
        BY <1>1, <3>1, AbsentAssumption DEF Open
      <3> QED BY <1>6, <3>1, <3>2 DEF SInv, OpenIsFresh
    <2> QED BY <2>1, <2>2
  <1>9. /\ value.status = "RECOVERED" /\ value.recovered = TRUE /\ value.stopped = FALSE
    BY <1>1, <1>8 DEF Issue
  <1> HIDE DEF value
  <1> QED BY <1>1, <1>3, <1>4, <1>5, <1>8, <1>9, WriteSerial

LEMMA PutStateSerial ==
    ASSUME SInv, IInv', NEW e \in Evaluators, PutState(e)
    PROVE  SInv'
  <1> USE ProcessesSplit
  <1>1. StoreTyped /\ EvaluatorTyped(e) /\ db' = db /\ me[e].pc = "put"
    BY Draining DEF SInv, PutState
  <1>2. PICK p, value : p = me[e].pair /\ value = me[e].next
    OBVIOUS
  <1>3. /\ Write(e, StateRow(p), value)
        /\ me' = [me EXCEPT ![e].pc = "frame", ![e].pair = Absent, ![e].next = Absent]
    BY <1>2 DEF PutState
  <1>4. me'[e].pc = "frame" /\ me'[e].known = me[e].known
    BY <1>1, <1>3 DEF StoreTyped, EvaluatorTyped, Asleep
  <1>5. OthersKept(e)
    BY <1>1, <1>3, WriteEffect DEF OthersKept, StoreTyped
  <1>6. \A q \in Pairs, n \in Indices : StateRow(p) # IssueRow(q, n)
    BY RowNames
  <1>7. PICK row : row = StateRow(p)
    OBVIOUS
  <1>8. Write(e, row, value) /\ \A q \in Pairs, n \in Indices : row # IssueRow(q, n)
    BY <1>3, <1>6, <1>7
  <1> QED BY <1>1, <1>4, <1>5, <1>8, WriteSerial

-------------------------------------------------------------------------------
(* The commits. *)

\* A commit of a request: the issues and states of what it has stopped.
LEMMA StoppedRows ==
    ASSUME SInv, NEW r \in Requests, Commit(r), NEW p \in Pairs, Stopped(r, p[1])
    PROVE  /\ db'[StateRow(p)] = Absent
           /\ \A n \in Indices :
                db'[IssueRow(p, n)] =
                  IF Open(p, n) THEN Halted(db[IssueRow(p, n)]) ELSE db[IssueRow(p, n)]
           /\ \A n \in Indices : ~Open(p, n)'
  <1> USE ProcessesSplit
  <1>1. me[r].erase = {} /\ DOMAIN me[r].found = {} /\ Complete(r)
    BY DEF SInv, IInv, RequestInv, Place, Commit
  <1>2. /\ db'[StateRow(p)] = Visible(r, StateRow(p))
        /\ \A n \in Indices : db'[IssueRow(p, n)] = Visible(r, IssueRow(p, n))
    BY CommitEffect, RowsOfPairs DEF Commit, SInv, IInv, TypeOK
  <1>3. db'[StateRow(p)] = Absent
    BY <1>1, <1>2 DEF Complete
  <1>4. ASSUME NEW n \in Indices
        PROVE  db'[IssueRow(p, n)] =
                 IF Open(p, n) THEN Halted(db[IssueRow(p, n)]) ELSE db[IssueRow(p, n)]
    BY <1>1, <1>2 DEF Complete, Visible
  <1>5. ASSUME NEW n \in Indices PROVE ~Open(p, n)'
    <2>1. db[IssueRow(p, n)] \in Issue \cup {Absent}
      BY RowsOfPairs, ValuesOfRows DEF SInv, IInv, TypeOK, StoreTyped
    <2>2. Open(p, n) => Halted(db[IssueRow(p, n)]).status = "STOPPED"
      BY <2>1 DEF Halted, Issue, Open
    <2> QED BY <1>4, <2>2 DEF Open
  <1> QED BY <1>3, <1>4, <1>5

\* Its versions.
LEMMA CommittedStatus ==
    ASSUME SInv, NEW r \in Requests, Commit(r), NEW v \in Versions
    PROVE  /\ Stopped(r, v) => db'[VersionRow(v)] = [db[VersionRow(v)] EXCEPT !.status = "DISABLED"]
           /\ VersionRow(v) \in DOMAIN tx[r] /\ Activated(r, v) =>
                db'[VersionRow(v)] = [db[VersionRow(v)] EXCEPT !.status = "ACTIVE"]
           /\ me[r].op # "create" /\ VersionRow(v) \in DOMAIN tx[r] =>
                Stopped(r, v) \/ Activated(r, v)
  <1> USE ProcessesSplit
  <1>1. IInv
    BY DEF SInv
  <1>2. VersionRow(v) \in DOMAIN tx[r] =>
          /\ db'[VersionRow(v)] = tx[r][VersionRow(v)]
          /\ db'[VersionRow(v)] \in Version /\ db'[VersionRow(v)].number = v
    <2>1. VersionRow(v) \in DOMAIN tx[r] =>
            /\ db'[VersionRow(v)] = tx[r][VersionRow(v)] /\ db'[VersionRow(v)].number = v
            /\ tx[r][VersionRow(v)] # Absent
      BY <1>1, CommittedVersions DEF IInv, RequestInv, WritesVersions
    <2>2. VersionRow(v) \in DOMAIN tx[r] =>
            tx[r][VersionRow(v)] \in Version \cup {Absent}
      BY <1>1, RowsOfPairs, ValuesOfRows DEF IInv, TypeOK, StoreTyped
    <2> QED BY <2>1, <2>2
  <1>3. Exists(v) => db[VersionRow(v)] \in Version /\ db[VersionRow(v)].number = v
    BY <1>1, RowsOfPairs, ValuesOfRows DEF IInv, TypeOK, StoreTyped, Numbered, Exists
  <1>4. Stopped(r, v) => db'[VersionRow(v)] = [db[VersionRow(v)] EXCEPT !.status = "DISABLED"]
    BY <1>2, <1>3 DEF Stopped, Version
  <1>5. Activated(r, v) => Exists(v)
    BY <1>1 DEF Activated, IInv, RequestInv, Place
  <1>6. VersionRow(v) \in DOMAIN tx[r] /\ Activated(r, v) =>
          db'[VersionRow(v)] = [db[VersionRow(v)] EXCEPT !.status = "ACTIVE"]
    BY <1>2, <1>3, <1>5 DEF Activated, Version
  <1>7. me[r].op # "create" /\ VersionRow(v) \in DOMAIN tx[r] =>
          Stopped(r, v) \/ Activated(r, v)
    BY <1>1, CommittedVersions DEF Created
  <1> QED BY <1>4, <1>6, <1>7

\* After a commit all processes are idle.
LEMMA AllIdle ==
    ASSUME SInv, IInv', NEW p \in Processes, OthersKept(p), me[p].pc # "idle",
           me'[p].pc = "idle"
    PROVE  /\ Alone'
           /\ \A r \in Requests : Complete(r)' /\ Purpose(r)'
           /\ \A e \in Evaluators : Evaluates(e)'
  <1> USE ProcessesSplit
  <1>1. ASSUME NEW q \in Processes PROVE me'[q].pc = "idle"
    BY DEF SInv, Alone, OthersKept
  <1>2. ASSUME NEW q \in Processes PROVE DOMAIN tx'[q] = {}
    BY <1>1 DEF IInv, TypeOK, StoreTyped
  <1>3. ASSUME NEW r \in Requests PROVE Complete(r)' /\ Purpose(r)'
    <2>1. me'[r].op = "none" /\ me'[r].stopping = {}
      BY <1>1 DEF IInv, RequestInv, Place
    <2>2. \A v : ~Stopped(r, v)'
      BY <1>2 DEF Stopped
    <2> QED BY <1>2, <2>1, <2>2 DEF Complete, Purpose
  <1>4. ASSUME NEW e \in Evaluators PROVE Evaluates(e)'
    <2>1. me'[e].known = {} /\ me'[e].pc = "idle"
      BY <1>1 DEF IInv, TypeOK, EvaluatorTyped
    <2> QED BY <1>2, <2>1 DEF Evaluates
  <1> QED BY <1>1, <1>3, <1>4 DEF Alone

LEMMA CommitSerial ==
    ASSUME SInv, IInv', NEW r \in Requests, Commit(r)
    PROVE  SInv'
  <1> USE ProcessesSplit
  <1>1. IInv /\ \A p \in Pairs : p[1] \in Versions
    BY DEF SInv, Pairs
  <1>2. OthersKept(r) /\ me[r].pc # "idle" /\ me'[r].pc = "idle"
    BY <1>1, CommittedTarget DEF Idle
  <1>3. ASSUME NEW p \in Pairs, Has(p[1], "DISABLED")', ~Stopped(r, p[1])
        PROVE  Has(p[1], "DISABLED")
    <2>1. PICK v \in Versions : v = p[1]
      BY <1>1
    <2>2. db'[VersionRow(v)].status = "DISABLED" /\ Has(v, "DISABLED")'
      BY <1>3, <2>1 DEF Has
    <2>3. VersionRow(v) \notin DOMAIN tx[r]
      BY <1>1, <1>3, <2>1, <2>2, CommittedVersions DEF Activated, Created
    <2> QED BY <1>1, <2>1, <2>2, <2>3, CommittedVersions DEF Has
  <1>4. OutOfServiceIsQuiet'
    <2>1. ASSUME NEW p \in Pairs, Has(p[1], "DISABLED")'
          PROVE  db'[StateRow(p)] = Absent /\ \A n \in Indices : ~Open(p, n)'
      <3>1. CASE Stopped(r, p[1])
        BY <3>1, StoppedRows
      <3>2. CASE ~Stopped(r, p[1])
        BY <1>1, <1>3, <2>1, <3>2, CommittedEvidence DEF SInv, OutOfServiceIsQuiet, Open
      <3> QED BY <3>1, <3>2
    <2> QED BY <2>1 DEF OutOfServiceIsQuiet
  <1>5. OpenIsFresh'
    <2>1. ASSUME NEW p \in Pairs, NEW n \in Indices, Open(p, n)'
          PROVE  db'[IssueRow(p, n)] = db[IssueRow(p, n)]
      BY <1>1, <2>1, StoppedRows, CommittedEvidence
    <2> QED BY <2>1 DEF SInv, OpenIsFresh, Open
  <1> QED BY <1>2, <1>4, <1>5, AllIdle DEF SInv

\* A commit of a drain: issues open and recover.
LEMMA DrainedIssue ==
    ASSUME SInv, NEW e \in Evaluators, FinishDrain(e), NEW p \in Pairs
    PROVE  /\ ~Has(p[1], "ACTIVE") => db'[StateRow(p)] = db[StateRow(p)]
           /\ \A n \in Indices :
                \/ db'[IssueRow(p, n)] = db[IssueRow(p, n)]
                \/ /\ Has(p[1], "ACTIVE")
                   /\ db[IssueRow(p, n)] = Absent \/ db[IssueRow(p, n)].status = "ACTIVE"
                   /\ db'[IssueRow(p, n)] \in Issue
                   /\ db'[IssueRow(p, n)].status \in {"ACTIVE", "RECOVERED"}
                   /\ db'[IssueRow(p, n)].recovered = (db'[IssueRow(p, n)].status = "RECOVERED")
                   /\ db'[IssueRow(p, n)].stopped = FALSE
  <1> USE ProcessesSplit
  <1>1. IInv /\ StoreTyped /\ WritesKnown(e) /\ Evaluates(e)
    BY DEF SInv, IInv, TypeOK, EvaluatorInv
  <1>2. /\ db'[StateRow(p)] = Visible(e, StateRow(p))
        /\ \A n \in Indices : db'[IssueRow(p, n)] = Visible(e, IssueRow(p, n))
    BY <1>1, Drained
  <1>3. ~Has(p[1], "ACTIVE") => db'[StateRow(p)] = db[StateRow(p)]
    BY <1>1, <1>2 DEF WritesKnown, Evaluates, Visible
  <1>4. ASSUME NEW n \in Indices, NEW row, row = IssueRow(p, n)
        PROVE  \/ db'[row] = db[row]
               \/ /\ Has(p[1], "ACTIVE")
                  /\ db[row] = Absent \/ db[row].status = "ACTIVE"
                  /\ db'[row] \in Issue
                  /\ db'[row].status \in {"ACTIVE", "RECOVERED"}
                  /\ db'[row].recovered = (db'[row].status = "RECOVERED")
                  /\ db'[row].stopped = FALSE
    <2>1. CASE row \notin DOMAIN tx[e]
      BY <1>2, <1>4, <2>1 DEF Visible
    <2>2. CASE row \in DOMAIN tx[e]
      <3>1. db'[row] = tx[e][row]
        BY <1>2, <1>4, <2>2 DEF Visible
      <3>2. Has(p[1], "ACTIVE") /\ Evaluated(e, p, n) /\ tx[e][row] # Absent
        BY <1>1, <1>4, <2>2 DEF WritesKnown, Evaluates
      <3>3. tx[e][row] \in Issue
        BY <1>1, <1>4, <2>2, <3>2, RowsOfPairs, ValuesOfRows DEF StoreTyped
      <3> QED BY <1>4, <3>1, <3>2, <3>3 DEF Evaluated
    <2> QED BY <2>1, <2>2
  <1> QED BY <1>3, <1>4

LEMMA FinishDrainSerial ==
    ASSUME SInv, IInv', NEW e \in Evaluators, FinishDrain(e)
    PROVE  SInv'
  <1> USE ProcessesSplit
  <1>1. IInv /\ \A p \in Pairs : p[1] \in Versions
    BY DEF SInv, Pairs
  <1>2. OthersKept(e) /\ me[e].pc # "idle" /\ me'[e].pc = "idle"
    BY <1>1, Drained DEF Asleep
  <1>3. ASSUME NEW p \in Pairs, NEW status PROVE Has(p[1], status)' <=> Has(p[1], status)
    BY <1>1, Drained DEF Has
  <1>4. OutOfServiceIsQuiet'
    <2>1. ASSUME NEW p \in Pairs, Has(p[1], "DISABLED")'
          PROVE  db'[StateRow(p)] = Absent /\ \A n \in Indices : ~Open(p, n)'
      <3>1. Has(p[1], "DISABLED") /\ ~Has(p[1], "ACTIVE")
        BY <1>3, <2>1 DEF Has
      <3>2. /\ db'[StateRow(p)] = db[StateRow(p)]
            /\ \A n \in Indices : db'[IssueRow(p, n)] = db[IssueRow(p, n)]
        BY <3>1, DrainedIssue
      <3> QED BY <3>1, <3>2 DEF SInv, OutOfServiceIsQuiet, Open
    <2> QED BY <2>1 DEF OutOfServiceIsQuiet
  <1>5. OpenIsFresh'
    <2>1. ASSUME NEW p \in Pairs, NEW n \in Indices, Open(p, n)'
          PROVE  db'[IssueRow(p, n)].recovered = FALSE /\ db'[IssueRow(p, n)].stopped = FALSE
      <3>1. CASE db'[IssueRow(p, n)] = db[IssueRow(p, n)]
        BY <2>1, <3>1 DEF SInv, OpenIsFresh, Open
      <3>2. CASE db'[IssueRow(p, n)] # db[IssueRow(p, n)]
        BY <2>1, <3>2, DrainedIssue DEF Open
      <3> QED BY <3>1, <3>2
    <2> QED BY <2>1 DEF OpenIsFresh
  <1> QED BY <1>2, <1>4, <1>5, AllIdle DEF SInv

-------------------------------------------------------------------------------
(* All of it. *)

\* Where transactions are serial, every step keeps the serial invariant.
LEMMA SerialStep ==
    ASSUME Dialect = "sqlite"
    PROVE  SInv /\ [Next]_vars => SInv'
  <1> SUFFICES ASSUME SInv, [Next]_vars PROVE SInv'
    OBVIOUS
  <1> USE ProcessesSplit
  <1>1. IInv'
    BY EveryStepKeeps DEF SInv
  <1>2. CASE Due \/ UNCHANGED vars
    <2>1. UNCHANGED <<db, tx, me>>
      BY <1>2 DEF Due, vars
    <2>2. Alone' /\ OutOfServiceIsQuiet' /\ OpenIsFresh'
      BY <2>1 DEF SInv, Alone, OutOfServiceIsQuiet, OpenIsFresh, Has, Open
    <2>3. \A r \in Requests : Complete(r)' /\ Purpose(r)'
      BY <2>1, SerialRequestKept DEF SInv
    <2>4. \A e \in Evaluators : Evaluates(e)'
      BY <2>1, SerialEvaluatorKept DEF SInv
    <2> QED BY <1>1, <2>2, <2>3, <2>4 DEF SInv
  <1>3. ASSUME NEW r \in Requests, RequestStep(r) PROVE SInv'
    <2>1. CASE Request(r, "create", 0)
      BY <1>1, <2>1, SerialBegins
    <2>2. CASE \E v \in Versions : Request(r, "activate", v) \/ Request(r, "disable", v)
      BY <1>1, <2>2, SerialBegins
    <2>3. CASE Create(r) \/ Check(r) \/ Confirm(r)
      BY <1>1, <2>3, CreateSerial, CheckSerial, ConfirmSerial
    <2>4. CASE Stop(r) \/ Halt(r) \/ Scan(r) \/ Erase(r) \/ StopDone(r)
      BY <1>1, <2>4, StopSerial, HaltSerial, ScanSerial, EraseSerial, StopDoneSerial
    <2>5. CASE Commit(r)
      BY <1>1, <2>5, CommitSerial
    <2> QED BY <1>3, <2>1, <2>2, <2>3, <2>4, <2>5 DEF RequestStep
  <1>4. ASSUME NEW e \in Evaluators, EvaluatorStep(e) PROVE SInv'
    <2>1. CASE StartDrain(e)
      BY <1>1, <2>1, StartDrainSerial
    <2>2. CASE Frame(e) \/ ReadIssue(e)
      BY <1>1, <2>2, ReadingSerial
    <2>3. CASE Evaluate(e)
      <3>1. PICK p \in me[e].todo : Keep(e, p) \/ Trigger(e, p) \/ Clear(e, p)
        BY <2>3 DEF Evaluate
      <3>2. me[e].pc = "frame"
        BY <2>3 DEF Evaluate
      <3>3. CASE Trigger(e, p)
        BY <1>1, <3>2, <3>3, TriggerSerial
      <3>4. CASE Keep(e, p) \/ Clear(e, p)
        BY <1>1, <3>2, <3>4, ReadingSerial
      <3> QED BY <3>1, <3>3, <3>4
    <2>4. CASE Recover(e) \/ PutState(e)
      BY <1>1, <2>4, RecoverSerial, PutStateSerial
    <2>5. CASE FinishDrain(e)
      BY <1>1, <2>5, FinishDrainSerial
    <2> QED BY <1>4, <2>1, <2>2, <2>3, <2>4, <2>5 DEF EvaluatorStep
  <1>5. CASE \E p \in Processes : Fail(p)
    BY <1>1, <1>5, FailSerial
  <1> QED BY <1>2, <1>3, <1>4, <1>5 DEF Next

LEMMA SeriallyInitial == Init => SInv
  <1> SUFFICES ASSUME Init PROVE SInv
    OBVIOUS
  <1> USE ProcessesSplit
  <1>1. IInv
    BY Initially
  <1>2. \A p \in Processes : me[p].pc = "idle"
    <2>1. \A p \in Processes : me[p] = Idle \/ me[p] = Asleep
      BY DEF Init
    <2> QED BY <2>1 DEF Idle, Asleep
  <1>3. Alone
    BY <1>2 DEF Alone
  <1>4. /\ \A v \in Versions : db[VersionRow(v)] = Absent
        /\ \A p \in Pairs, n \in Indices : db[IssueRow(p, n)] = Absent
    BY RowsOfPairs DEF Init
  <1>5. \A p \in Pairs : p[1] \in Versions
    BY DEF Pairs
  <1>6. OutOfServiceIsQuiet /\ OpenIsFresh
    BY <1>4, <1>5 DEF OutOfServiceIsQuiet, OpenIsFresh, Has, Open
  <1>7. /\ \A r \in Requests : Complete(r) /\ Purpose(r)
        /\ \A e \in Evaluators : Evaluates(e)
    BY <1>1, <1>2, IdleSerial
  <1> QED BY <1>1, <1>3, <1>6, <1>7 DEF SInv

\* The serial invariant holds in every state where transactions are serial.
THEOREM SerialInvariant ==
    ASSUME Dialect = "sqlite"
    PROVE  Spec => []SInv
  BY SeriallyInitial, SerialStep, PTL DEF Spec

\* Where transactions are serial, a disabled version has no open issue and no
\* state, whatever requests, drains and failures came before (rules.py, stop).
THEOREM DisabledIsQuiet ==
    ASSUME Dialect = "sqlite"
    PROVE  Spec => []OutOfServiceIsQuiet
  <1>1. SInv => OutOfServiceIsQuiet
    BY DEF SInv
  <1> QED BY <1>1, SerialInvariant, PTL

\* A step that changes what is committed is a commit.
LEMMA OnlyCommitsWrite ==
    ASSUME SInv, [Next]_vars, db' # db
    PROVE  \/ \E r \in Requests : Commit(r)
           \/ \E e \in Evaluators : FinishDrain(e)
  <1>1. ASSUME NEW r \in Requests, RequestStep(r) PROVE Commit(r)
    BY <1>1 DEF RequestStep, Request, Create, Check, Confirm, Stop, Halt, Scan, Erase, StopDone
  <1>2. ASSUME NEW e \in Evaluators, EvaluatorStep(e) PROVE FinishDrain(e)
    BY <1>2 DEF EvaluatorStep, StartDrain, Frame, Evaluate, Keep, Trigger, Clear,
                ReadIssue, Recover, PutState
  <1>3. ~Due /\ ~UNCHANGED vars /\ ~\E p \in Processes : Fail(p)
    BY DEF Due, vars, Fail
  <1> QED BY <1>1, <1>2, <1>3 DEF Next

\* Where transactions are serial, an issue that has recovered or was stopped is
\* never written again (evaluator.py and rules.py, the issues that are updated).
THEOREM ClosedIsFinal ==
    ASSUME Dialect = "sqlite"
    PROVE  Spec => ClosedStaysClosed
  <1> DEFINE Kept == \A row \in IssueRows :
                        db[row] # Absent /\ db[row].status # "ACTIVE" => db'[row] = db[row]
  <1>1. ASSUME SInv, [Next]_vars PROVE [Kept]_db
    <2> SUFFICES ASSUME db' # db PROVE Kept
      OBVIOUS
    <2>1. IInv
      BY <1>1 DEF SInv
    <2>2. ASSUME NEW p \in Pairs, NEW n \in Indices, db[IssueRow(p, n)] # Absent,
                 db[IssueRow(p, n)].status # "ACTIVE"
          PROVE  db'[IssueRow(p, n)] = db[IssueRow(p, n)]
      <3>1. ASSUME NEW r \in Requests, Commit(r)
            PROVE  db'[IssueRow(p, n)] = db[IssueRow(p, n)]
        BY <1>1, <2>1, <2>2, <3>1, StoppedRows, CommittedEvidence DEF Open
      <3>2. ASSUME NEW e \in Evaluators, FinishDrain(e)
            PROVE  db'[IssueRow(p, n)] = db[IssueRow(p, n)]
        BY <1>1, <2>2, <3>2, DrainedIssue
      <3> QED BY <1>1, <3>1, <3>2, OnlyCommitsWrite
    <2> QED BY <2>2 DEF IssueRows
  <1> QED BY <1>1, SerialInvariant, PTL DEF Spec, ClosedStaysClosed

\* Where transactions are serial, only a draft enters service (rules.py, activate,
\* which reads the status again under the lock).
THEOREM OnlyDraftsEnter ==
    ASSUME Dialect = "sqlite"
    PROVE  Spec => OnlyDraftsActivated
  <1> DEFINE Drafted == \A v \in Versions :
                          (Has(v, "ACTIVE"))' /\ ~Has(v, "ACTIVE") => Has(v, "DRAFT")
  <1>1. ASSUME SInv, [Next]_vars PROVE [Drafted]_db
    <2> SUFFICES ASSUME db' # db PROVE Drafted
      OBVIOUS
    <2>1. IInv
      BY <1>1 DEF SInv
    <2>2. ASSUME NEW v \in Versions, Has(v, "ACTIVE")', ~Has(v, "ACTIVE")
          PROVE  Has(v, "DRAFT")
      <3>1. ASSUME NEW r \in Requests, Commit(r) PROVE Has(v, "DRAFT")
        <4>1. Activated(r, v)
          BY <2>1, <2>2, <3>1, CommittedVersions
        <4>2. Purpose(r) /\ Holds(r)
          BY <1>1, <4>1 DEF SInv, Activated, Holds
        <4> QED BY <4>1, <4>2 DEF Activated, Purpose
      <3>2. ASSUME NEW e \in Evaluators, FinishDrain(e) PROVE Has(v, "DRAFT")
        BY <2>1, <2>2, <3>2, Drained DEF Has
      <3> QED BY <1>1, <3>1, <3>2, OnlyCommitsWrite
    <2> QED BY <2>2
  <1> QED BY <1>1, SerialInvariant, PTL DEF Spec, OnlyDraftsActivated

-------------------------------------------------------------------------------
(* Each commit is a step of the lifecycle. *)

versionsOf == [v \in Versions |-> db[VersionRow(v)]]
issuesOf == [i \in Pairs \X Indices |-> db[IssueRow(i[1], i[2])]]
statesOf == [p \in Pairs |-> db[StateRow(p)]]

\* A commit of a request stops what it has stopped, and no more.
LEMMA CommitStops ==
    ASSUME SInv, NEW r \in Requests, Commit(r), NEW set,
           \A v \in Versions : v \in set <=> Stopped(r, v)
    PROVE  Lifecycle!Stop(set)
  <1>1. IInv /\ \A p \in Pairs : p[1] \in Versions
    BY DEF SInv, Pairs
  <1>2. ASSUME NEW i \in Pairs \X Indices
        PROVE  db'[IssueRow(i[1], i[2])] =
                 IF /\ i[1][1] \in set
                    /\ db[IssueRow(i[1], i[2])] # Absent
                    /\ db[IssueRow(i[1], i[2])].status = "ACTIVE"
                 THEN Halted(db[IssueRow(i[1], i[2])]) ELSE db[IssueRow(i[1], i[2])]
    <2>1. PICK p \in Pairs, n \in Indices : p = i[1] /\ n = i[2]
      OBVIOUS
    <2>2. CASE Stopped(r, p[1])
      BY <1>1, <2>1, <2>2, StoppedRows DEF Open
    <2>3. CASE ~Stopped(r, p[1])
      BY <1>1, <2>1, <2>3, CommittedEvidence
    <2> QED BY <2>2, <2>3
  <1>3. ASSUME NEW p \in Pairs
        PROVE  db'[StateRow(p)] = IF p[1] \in set THEN Absent ELSE db[StateRow(p)]
    BY <1>1, StoppedRows, CommittedEvidence
  <1>4. issuesOf' = [i \in Pairs \X Indices |->
                        IF i[1][1] \in set /\ issuesOf[i] # Absent /\ issuesOf[i].status = "ACTIVE"
                        THEN Halted(issuesOf[i]) ELSE issuesOf[i]]
    BY <1>2 DEF issuesOf
  <1>5. statesOf' = [p \in Pairs |-> IF p[1] \in set THEN Absent ELSE statesOf[p]]
    BY <1>3 DEF statesOf
  <1> QED BY <1>4, <1>5 DEF Lifecycle!Stop, Lifecycle!Stopped, Halted, issuesOf, statesOf

\* A version that was created.
LEMMA CommitDrafts ==
    ASSUME SInv, NEW r \in Requests, Commit(r), me[r].op = "create"
    PROVE  \E v \in Versions : Lifecycle!Draft(v)
  <1>1. IInv /\ \A p \in Pairs : p[1] \in Versions
    BY DEF SInv, Pairs
  <1>2. PICK v \in Versions : DOMAIN tx[r] = {VersionRow(v)} /\ Created(r, v)
    BY DEF SInv, Purpose, Commit
  <1>3. ASSUME NEW u \in Versions, u # v PROVE db'[VersionRow(u)] = db[VersionRow(u)]
    BY <1>1, <1>2, <1>3, RowNames, CommittedVersions
  <1>4. /\ db[VersionRow(v)] = Absent /\ db'[VersionRow(v)] # Absent
        /\ db'[VersionRow(v)].status = "DRAFT" /\ db'[VersionRow(v)].number = v
    BY <1>1, <1>2, CommittedVersions DEF Created, Exists
  <1>5. ASSUME NEW u \in Versions, u # v, db[VersionRow(u)] # Absent
        PROVE  db[VersionRow(u)].number < v
    <2>1. db[VersionRow(u)].number = u /\ \A w \in 1 .. u - 1 : Exists(w)
      BY <1>1, <1>5 DEF IInv, Numbered, Exists
    <2>2. v \notin 1 .. u - 1
      BY <1>4, <2>1 DEF Exists
    <2> QED BY <1>5, <2>1, <2>2, BoundsAssumption DEF Versions
  <1>6. \A p \in Pairs : ~Stopped(r, p[1])
    BY <1>2, <1>1, RowNames DEF Stopped, Created
  <1>7. issuesOf' = issuesOf /\ statesOf' = statesOf
    <2>1. \A i \in Pairs \X Indices :
            db'[IssueRow(i[1], i[2])] = db[IssueRow(i[1], i[2])]
      BY <1>1, <1>6, CommittedEvidence
    <2>2. \A p \in Pairs : db'[StateRow(p)] = db[StateRow(p)]
      BY <1>1, <1>6, CommittedEvidence
    <2> QED BY <2>1, <2>2 DEF issuesOf, statesOf
  <1>8. /\ versionsOf[v] = Absent
        /\ versionsOf'[v] # Absent /\ versionsOf'[v].status = "DRAFT"
        /\ \A u \in Versions \ {v} :
              /\ versionsOf'[u] = versionsOf[u]
              /\ versionsOf[u] # Absent => versionsOf[u].number < versionsOf'[v].number
    BY <1>3, <1>4, <1>5 DEF versionsOf
  <1>9. Lifecycle!Draft(v)
    BY <1>7, <1>8 DEF Lifecycle!Draft, versionsOf, issuesOf, statesOf
  <1> QED BY <1>9

\* A version that was disabled.
LEMMA CommitDisables ==
    ASSUME SInv, NEW r \in Requests, Commit(r), me[r].op = "disable"
    PROVE  \E v \in Versions : Lifecycle!Disable(v)
  <1>1. IInv /\ me[r].pc = "commit" /\ Purpose(r)
    BY DEF SInv, Commit
  <1>2. PICK v \in Versions : v = me[r].target
    BY <1>1 DEF IInv, RequestInv, Place
  <1>3. \A u \in Versions : VersionRow(u) \in DOMAIN tx[r] <=> u = v
    BY <1>1, <1>2 DEF Purpose
  <1>4. \A u \in Versions : Stopped(r, u) <=> u = v
    <2>1. Stopped(r, v)
      BY <1>1, <1>3, CommittedStatus DEF Activated
    <2> QED BY <1>3, <2>1 DEF Stopped
  <1>5. Lifecycle!Stop({v})
    BY <1>4, CommitStops
  <1>6. versionsOf' = [versionsOf EXCEPT ![v].status = "DISABLED"]
    <2>1. ASSUME NEW u \in Versions
          PROVE  db'[VersionRow(u)] =
                   IF u = v THEN [db[VersionRow(u)] EXCEPT !.status = "DISABLED"]
                   ELSE db[VersionRow(u)]
      BY <1>1, <1>3, <1>4, CommittedStatus, CommittedVersions
    <2>2. versionsOf' = [u \in Versions |->
                           IF u = v THEN [db[VersionRow(u)] EXCEPT !.status = "DISABLED"]
                           ELSE db[VersionRow(u)]]
      BY <2>1 DEF versionsOf
    <2> QED BY <2>2 DEF versionsOf
  <1>7. versionsOf[v] # Absent
    BY <1>4 DEF Stopped, Exists, versionsOf
  <1>8. Lifecycle!Disable(v)
    BY <1>5, <1>6, <1>7 DEF Lifecycle!Disable, versionsOf
  <1> QED BY <1>8

\* A version that was activated, with the one in service before.
LEMMA CommitActivates ==
    ASSUME SInv, NEW r \in Requests, Commit(r), me[r].op = "activate"
    PROVE  \E v \in Versions : Lifecycle!Activate(v)
  <1>1. IInv /\ me[r].pc = "commit" /\ Purpose(r) /\ Holds(r) /\ Activates(r)
    BY DEF SInv, Commit, Holds, IInv, RequestInv
  <1>2. PICK v \in Versions : v = me[r].target
    BY <1>1 DEF IInv, RequestInv, Place
  <1>3. /\ Has(v, "DRAFT") /\ VersionRow(v) \in DOMAIN tx[r]
        /\ \A u \in Versions : VersionRow(u) \in DOMAIN tx[r] => u = v \/ Has(u, "ACTIVE")
        /\ \A u \in Versions : Has(u, "ACTIVE") => VersionRow(u) \in DOMAIN tx[r]
    BY <1>1, <1>2 DEF Purpose, Activates
  <1>4. \A u \in Versions : Stopped(r, u) <=> Has(u, "ACTIVE")
    <2>1. ASSUME NEW u \in Versions, Stopped(r, u) PROVE Has(u, "ACTIVE")
      BY <1>1, <1>2, <1>3, <2>1 DEF Stopped
    <2>2. ASSUME NEW u \in Versions, Has(u, "ACTIVE") PROVE Stopped(r, u)
      <3>1. u # v /\ VersionRow(u) \in DOMAIN tx[r]
        BY <1>3, <2>2 DEF Has
      <3> QED BY <1>1, <1>2, <3>1, CommittedStatus DEF Activated
    <2> QED BY <2>1, <2>2
  <1>5. Activated(r, v)
    <2>1. ~Stopped(r, v)
      BY <1>3, <1>4 DEF Has
    <2> QED BY <1>1, <1>3, <2>1, CommittedStatus
  <1> DEFINE others == {u \in Versions : versionsOf[u] # Absent /\ versionsOf[u].status = "ACTIVE"}
  <1>6. \A u \in Versions : u \in others <=> Has(u, "ACTIVE")
    BY DEF versionsOf, Has
  <1> HIDE DEF others
  <1>7. Lifecycle!Stop(others)
    BY <1>4, <1>6, CommitStops
  <1>8. versionsOf' =
          [u \in Versions |->
             IF u = v THEN [versionsOf[u] EXCEPT !.status = "ACTIVE"]
             ELSE IF u \in others THEN [versionsOf[u] EXCEPT !.status = "DISABLED"]
             ELSE versionsOf[u]]
    <2>1. ASSUME NEW u \in Versions
          PROVE  db'[VersionRow(u)] =
                   IF u = v THEN [db[VersionRow(u)] EXCEPT !.status = "ACTIVE"]
                   ELSE IF u \in others THEN [db[VersionRow(u)] EXCEPT !.status = "DISABLED"]
                   ELSE db[VersionRow(u)]
      <3>1. CASE u = v
        BY <1>3, <1>5, <3>1, CommittedStatus
      <3>2. CASE u # v /\ u \in others
        BY <1>4, <1>6, <3>2, CommittedStatus
      <3>3. CASE u # v /\ u \notin others
        BY <1>1, <1>3, <1>6, <3>3, CommittedVersions
      <3> QED BY <3>1, <3>2, <3>3
    <2> QED BY <2>1 DEF versionsOf
  <1>9. versionsOf[v] # Absent /\ versionsOf[v].status = "DRAFT"
    BY <1>3 DEF Has, versionsOf
  <1>10. Lifecycle!Activate(v)
    BY <1>7, <1>8, <1>9 DEF Lifecycle!Activate, Lifecycle!Has, versionsOf, others
  <1> QED BY <1>10

\* A drain.
LEMMA DrainEvaluates ==
    ASSUME SInv, IInv', NEW e \in Evaluators, FinishDrain(e)
    PROVE  Lifecycle!Evaluate
  <1>1. IInv /\ \A p \in Pairs : p[1] \in Versions
    BY DEF SInv, Pairs
  <1>2. versionsOf' = versionsOf
    BY <1>1, Drained DEF versionsOf
  <1>3. \A p \in Pairs : versionsOf[p[1]] = db[VersionRow(p[1])]
    BY <1>1 DEF versionsOf
  <1>4. ASSUME NEW p \in Pairs, Has(p[1], "ACTIVE"), NEW n \in Indices, db'[IssueRow(p, n)] # Absent
        PROVE  db'[IssueRow(p, n)].status = "ACTIVE"
                 <=> db'[StateRow(p)] # Absent /\ db'[StateRow(p)].issue = n
    <2>1. Has(p[1], "ACTIVE")'
      BY <1>1, <1>4, Drained DEF Has
    <2> QED BY <1>4, <2>1 DEF IInv, OpenIssueInState, Open
  <1>5. ASSUME NEW p \in Pairs, NEW n \in Indices
        PROVE  \/ db'[IssueRow(p, n)] = db[IssueRow(p, n)]
               \/ /\ Has(p[1], "ACTIVE")
                  /\ db[IssueRow(p, n)] = Absent \/ db[IssueRow(p, n)].status = "ACTIVE"
                  /\ db'[IssueRow(p, n)] \in [status : {"ACTIVE", "RECOVERED"},
                                              recovered : BOOLEAN, stopped : {FALSE}]
                  /\ db'[IssueRow(p, n)].recovered <=> db'[IssueRow(p, n)].status = "RECOVERED"
    BY DrainedIssue DEF Issue
  <1>6. \A p \in Pairs : \A n \in Indices :
          /\ <<p, n>> \in Pairs \X Indices
          /\ issuesOf[p, n] = db[IssueRow(p, n)] /\ issuesOf'[p, n] = db'[IssueRow(p, n)]
    BY DEF issuesOf
  <1>7. \A p \in Pairs : statesOf[p] = db[StateRow(p)] /\ statesOf'[p] = db'[StateRow(p)]
    BY DEF statesOf
  <1>8. ASSUME NEW p \in Pairs
        PROVE  IF versionsOf[p[1]] # Absent /\ versionsOf[p[1]].status = "ACTIVE"
               THEN \A n \in Indices : issuesOf'[p, n] # Absent =>
                      (issuesOf'[p, n].status = "ACTIVE"
                         <=> statesOf'[p] # Absent /\ statesOf'[p].issue = n)
               ELSE statesOf'[p] = statesOf[p]
    <2>1. /\ versionsOf[p[1]] = db[VersionRow(p[1])]
          /\ statesOf[p] = db[StateRow(p)] /\ statesOf'[p] = db'[StateRow(p)]
          /\ \A n \in Indices : issuesOf'[p, n] = db'[IssueRow(p, n)]
      BY <1>3, <1>6, <1>7, <1>8, Zenon
    <2>2. CASE Has(p[1], "ACTIVE")
      <3>1. ASSUME NEW n \in Indices, issuesOf'[p, n] # Absent
            PROVE  issuesOf'[p, n].status = "ACTIVE"
                     <=> statesOf'[p] # Absent /\ statesOf'[p].issue = n
        <4>1. issuesOf'[p, n] = db'[IssueRow(p, n)]
          BY <2>1, <3>1, Zenon
        <4>2. db'[IssueRow(p, n)] # Absent
          BY <4>1, <3>1, Zenon
        <4>3. db'[IssueRow(p, n)].status = "ACTIVE"
                <=> db'[StateRow(p)] # Absent /\ db'[StateRow(p)].issue = n
          BY <1>4, <1>8, <2>2, <3>1, <4>2, Zenon
        <4> QED BY <2>1, <4>1, <4>3, Zenon
      <3> QED BY <2>1, <2>2, <3>1, Zenon DEF Has
    <2>3. CASE ~Has(p[1], "ACTIVE")
      <3>1. statesOf'[p] = statesOf[p]
        BY <1>8, <2>1, <2>3, DrainedIssue, Zenon
      <3> QED BY <2>1, <2>3, <3>1, Zenon DEF Has
    <2> QED BY <2>2, <2>3, Zenon
  <1>9. ASSUME NEW p \in Pairs, NEW n \in Indices
        PROVE  \/ issuesOf'[p, n] = issuesOf[p, n]
               \/ /\ versionsOf[p[1]] # Absent /\ versionsOf[p[1]].status = "ACTIVE"
                  /\ issuesOf[p, n] = Absent \/ issuesOf[p, n].status = "ACTIVE"
                  /\ issuesOf'[p, n] \in [status : {"ACTIVE", "RECOVERED"},
                                          recovered : BOOLEAN, stopped : {FALSE}]
                  /\ issuesOf'[p, n].recovered <=> issuesOf'[p, n].status = "RECOVERED"
    <2>1. /\ versionsOf[p[1]] = db[VersionRow(p[1])]
          /\ issuesOf[p, n] = db[IssueRow(p, n)]
          /\ issuesOf'[p, n] = db'[IssueRow(p, n)]
      BY <1>3, <1>6, <1>9, Zenon
    <2>2. \/ db'[IssueRow(p, n)] = db[IssueRow(p, n)]
          \/ /\ Has(p[1], "ACTIVE")
             /\ db[IssueRow(p, n)] = Absent \/ db[IssueRow(p, n)].status = "ACTIVE"
             /\ db'[IssueRow(p, n)] \in [status : {"ACTIVE", "RECOVERED"},
                                         recovered : BOOLEAN, stopped : {FALSE}]
             /\ db'[IssueRow(p, n)].recovered <=> db'[IssueRow(p, n)].status = "RECOVERED"
      BY <1>5, <1>9, Zenon
    <2> QED BY <2>1, <2>2, Zenon DEF Has
  <1> QED
    BY <1>2, <1>8, <1>9
    DEF Lifecycle!Evaluate, Lifecycle!Consistent, Lifecycle!Has, versionsOf, issuesOf, statesOf

\* Where transactions are serial, the requests and the drains that run statement
\* by statement implement the lifecycle in which drafting, activating, disabling
\* and evaluating are single steps.
THEOREM ImplementsLifecycle ==
    ASSUME Dialect = "sqlite"
    PROVE  Spec => LifecycleSpec
  <1>1. Init => Lifecycle!Init
    <2> SUFFICES ASSUME Init PROVE Lifecycle!Init
      OBVIOUS
    <2>1. /\ \A v \in Versions : db[VersionRow(v)] = Absent
          /\ \A p \in Pairs : db[StateRow(p)] = Absent
          /\ \A i \in Pairs \X Indices : db[IssueRow(i[1], i[2])] = Absent
      BY RowsOfPairs DEF Init
    <2> QED BY <2>1 DEF Lifecycle!Init
  <1>2. ASSUME SInv, [Next]_vars PROVE [Lifecycle!Next]_(Lifecycle!vars)
    <2>1. CASE db' = db
      BY <2>1 DEF Lifecycle!vars
    <2>2. CASE db' # db
      <3>1. ASSUME NEW r \in Requests, Commit(r) PROVE Lifecycle!Next
        <4>1. me[r].op \in {"create", "activate", "disable"}
          BY <1>2, <3>1, ProcessesSplit, CommittedTarget DEF SInv, IInv, TypeOK, RequestTyped
        <4> QED
          BY <1>2, <3>1, <4>1, CommitDrafts, CommitDisables, CommitActivates DEF Lifecycle!Next
      <3>2. ASSUME NEW e \in Evaluators, FinishDrain(e) PROVE Lifecycle!Next
        <4>1. IInv'
          BY <1>2, EveryStepKeeps DEF SInv
        <4> QED BY <1>2, <3>2, <4>1, DrainEvaluates DEF Lifecycle!Next
      <3> QED BY <1>2, <2>2, <3>1, <3>2, OnlyCommitsWrite
    <2> QED BY <2>1, <2>2
  <1> QED BY <1>1, <1>2, SerialInvariant, PTL DEF Spec, LifecycleSpec, Lifecycle!Spec
==============================================================================
