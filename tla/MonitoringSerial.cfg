SPECIFICATION Spec
CONSTANTS
    Requests = {r1}
    Evaluators = {e1}
    Equipment = {q1, q2}
    Dialect = "sqlite"
    Absent = Absent
    MaxVersions = 2
    MaxIssues = 2
    MaxPending = 2
INVARIANTS OutOfServiceIsQuiet
PROPERTIES ClosedStaysClosed OnlyDraftsActivated LifecycleSpec
