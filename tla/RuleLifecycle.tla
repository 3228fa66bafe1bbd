---------------------------- MODULE RuleLifecycle ----------------------------
(***************************************************************************)
(* What the reviewer of one rule relies on: a version is drafted,          *)
(* activated and disabled in single steps.  Activating one takes the       *)
(* version in service out of service with everything it has open; the      *)
(* evaluator touches only the version in service; what is closed stays as  *)
(* it was closed.                                                          *)
(***************************************************************************)
EXTENDS Integers

CONSTANTS
    Versions,  \* natural numbers
    Pairs,     \* <<version, equipment>>
    Indices,   \* 1 .. n, the issues of a pair in order
    Absent     \* no row

VARIABLES
    versions,  \* version -> Absent or [status, number]
    issues,    \* <<pair, index>> -> Absent or [status, recovered, stopped]
    states     \* pair -> Absent or [issue], 0 when no issue is open

vars == <<versions, issues, states>>

Has(v, status) == versions[v] # Absent /\ versions[v].status = status

Init ==
    /\ versions = [v \in Versions |-> Absent]
    /\ issues = [i \in Pairs \X Indices |-> Absent]
    /\ states = [p \in Pairs |-> Absent]

\* A new version has a number above every other.
Draft(v) ==
    /\ versions[v] = Absent
    /\ versions'[v] # Absent /\ versions'[v].status = "DRAFT"
    /\ \A u \in Versions \ {v} :
          /\ versions'[u] = versions[u]
          /\ versions[u] # Absent => versions[u].number < versions'[v].number
    /\ UNCHANGED <<issues, states>>

Stopped(issue) == [issue EXCEPT !.status = "STOPPED", !.stopped = TRUE]

\* The versions of a set leave service: their open issues stop, their states go.
Stop(set) ==
    /\ issues' = [i \in Pairs \X Indices |->
                    IF /\ i[1][1] \in set
                       /\ issues[i] # Absent
                       /\ issues[i].status = "ACTIVE"
                    THEN Stopped(issues[i]) ELSE issues[i]]
    /\ states' = [p \in Pairs |-> IF p[1] \in set THEN Absent ELSE states[p]]

Disable(v) ==
    /\ versions[v] # Absent
    /\ versions' = [versions EXCEPT ![v].status = "DISABLED"]
    /\ Stop({v})

Activate(v) ==
    LET others == {u \in Versions : Has(u, "ACTIVE")}
    IN  /\ Has(v, "DRAFT")
        /\ versions' =
             [u \in Versions |->
                IF u = v THEN [versions[u] EXCEPT !.status = "ACTIVE"]
                ELSE IF u \in others THEN [versions[u] EXCEPT !.status = "DISABLED"]
                ELSE versions[u]]
        /\ Stop(others)

\* The state of a pair refers to its open issue, the only one it has.
Consistent(p, row) ==
    \A n \in Indices :
        issues'[p, n] # Absent =>
            (issues'[p, n].status = "ACTIVE" <=> row # Absent /\ row.issue = n)

\* Issues of versions in service open and recover.
Evaluate ==
    /\ UNCHANGED versions
    /\ \A p \in Pairs :
          IF Has(p[1], "ACTIVE")
          THEN Consistent(p, states'[p])
          ELSE states'[p] = states[p]
    /\ \A p \in Pairs, n \in Indices :
          \/ issues'[p, n] = issues[p, n]
          \/ /\ Has(p[1], "ACTIVE")
             /\ issues[p, n] = Absent \/ issues[p, n].status = "ACTIVE"
             /\ issues'[p, n] \in [status : {"ACTIVE", "RECOVERED"},
                                   recovered : BOOLEAN, stopped : {FALSE}]
             /\ issues'[p, n].recovered <=> issues'[p, n].status = "RECOVERED"

Next ==
    \/ \E v \in Versions : Draft(v) \/ Disable(v) \/ Activate(v)
    \/ Evaluate

Spec == Init /\ [][Next]_vars
==============================================================================
