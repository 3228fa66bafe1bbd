SPECIFICATION Spec
CONSTANTS
    Requests = {r1}
    Evaluators = {e1}
    Equipment = {q1}
    Dialect = "postgresql"
    Absent = Absent
    MaxVersions = 2
    MaxIssues = 2
    MaxPending = 1
PROPERTY ClosedStaysClosed
