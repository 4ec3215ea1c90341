\* Two workers and two requests over statements of overlapping periods:
\* redelivery, crashes, failures and deletes in the middle of an import.
SPECIFICATION Spec
CONSTANTS
    s1 = s1  s2 = s2  s3 = s3  j1 = j1  j2 = j2
    f1 = f1  f2 = f2  f3 = f3  jan = jan  feb = feb
    c1 = c1  c2 = c2  w1 = w1  w2 = w2
    NoStatement = NoStatement  NoJob = NoJob
    Statements = {s1, s2}
    Jobs = {j1, j2}
    Docs = {jan, feb}
    Fps = {f1, f2, f3}
    DocOf <- OneOfEach
    RowsOf <- Overlapping
    VerdictOf <- OneUntrusted
    Doubtful = {f1}
    Protected = {}
    Hostile = {}
    MaxUnlockAttempts = 1
    MaxRetries = 0
    FaultKinds = {"error", "lost", "connection", "abort", "invalid", "time_limit", "bookkeeping", "storage", "api"}
    MaxFaults = 1
    Clients = {c1, c2}
    Workers = {w1, w2}
SYMMETRY Symmetric
INVARIANTS
    TypeOK
    NoDoubleCount
    RowsCarryVerdict
    ImportsStayComplete
    DoneMeansImported
PROPERTIES
    RowsLeaveOnlyWithTheirStatement
    ImplementsContract
\* Requests stop coming and every message is consumed in the end.
CHECK_DEADLOCK FALSE
