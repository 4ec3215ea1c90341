SPECIFICATION LedgerSpec
CONSTANTS
 Contents = {c1, c2}
 MaxStatements = 3
 Populations <- MCPopulations
 Imports <- MCImports
 Row <- MCRow
 Header <- MCHeader
 MaxAborts = 1
 MaxRemovals = 1
 ReviewRows = {"r1", "r2"}
 Unknown = {}
 OtherScore <- MCOtherScore
 Preset = {}
 Categories = {"food", "travel"}
 OldConfirmed <- MCOldConfirmed
 Scores = {99}
 UserRequests = {q1, q2}
 Figures = {"f1"}
 MaxCascades = 1
 Amounts <- OneEachWay
 Opening = 5
 MaxRows = 3
 MaxPages = 3
 swiggy = swiggy
 salary = salary
 Kinds = {swiggy, salary}
 Days = {1, 2, 3}
 MaxHistory = 6
SYMMETRY LedgerSymmetric
INVARIANTS
 LedgerTypeOK
 InsertsAreComplete
 OnlyReuploadsStop
 ErasureIsWhole
 MovementIsNotSpending
 BalanceIsLatest
 TrailEndsAtTheRow
 ReadingIsJudged
 LedgerIsExact
PROPERTIES
 HumanDecisionStands
\* Statements end, and so does a schema's history.
CHECK_DEADLOCK FALSE
