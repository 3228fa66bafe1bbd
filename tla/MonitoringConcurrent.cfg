SPECIFICATION Spec
CONSTANTS
    Requests = {r1, r2}
    Evaluators = {e1, e2}
    Equipment = {q1}
    Dialect = "postgresql"
    Absent = Absent
    MaxVersions = 2
    MaxIssues = 2
    MaxPending = 1
INVARIANTS TypeOK OneVersionInService OpenIssueInState
SYMMETRY ProcessSymmetry
