\* Liveness: one protected statement is uploaded, unlocked and deleted while two
\* workers run its job; three failures: exceptions, lost workers, connections.
SPECIFICATION FairSpec
CONSTANTS
    s1 = s1  s2 = s2  s3 = s3  j1 = j1  j2 = j2
    f1 = f1  f2 = f2  f3 = f3  jan = jan  feb = feb
    c1 = c1  c2 = c2  w1 = w1  w2 = w2
    NoStatement = NoStatement  NoJob = NoJob
    Statements = {s1}
    Jobs = {j1}
    Docs = {jan, feb}
    Fps = {f1, f2, f3}
    DocOf <- SameDocument
    RowsOf <- Overlapping
    VerdictOf <- OneUntrusted
    Doubtful = {f1}
    Protected = {jan}
    Hostile = {}
    MaxUnlockAttempts = 1
    MaxRetries = 1
    FaultKinds = {"error", "lost", "connection", "invalid", "abort"}
    MaxFaults = 3
    Clients = {c1}
    Workers = {w1, w2}
PROPERTIES
    EveryJobSettles
\* Requests stop coming and every message is consumed in the end.
CHECK_DEADLOCK FALSE
