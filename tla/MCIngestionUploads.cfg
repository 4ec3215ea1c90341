\* Two uploads of one protected document and one of a document that fails its
\* scan once it is open, racing each other, unlocks and deletes.
SPECIFICATION Spec
CONSTANTS
    s1 = s1  s2 = s2  s3 = s3  j1 = j1  j2 = j2
    f1 = f1  f2 = f2  f3 = f3  jan = jan  feb = feb
    c1 = c1  c2 = c2  w1 = w1  w2 = w2
    NoStatement = NoStatement  NoJob = NoJob
    Statements = {s1, s2, s3}
    Jobs = {j1, j2}
    Docs = {jan, feb}
    Fps = {f1, f2, f3}
    DocOf <- TwoOfOne
    RowsOf <- Overlapping
    VerdictOf <- OneUntrusted
    Doubtful = {f1}
    Protected = {jan, feb}
    Hostile = {feb}
    MaxUnlockAttempts = 1
    MaxRetries = 0
    FaultKinds = {}
    MaxFaults = 1
    Clients = {c1, c2}
    Workers = {w1}
SYMMETRY SymmetricUploads
INVARIANTS
    OneLivePerDocument
    OnlyOpenedFilesAreQueued
\* Requests stop coming and every message is consumed in the end.
CHECK_DEADLOCK FALSE
