SPECIFICATION IntelligenceSpec
CONSTANTS
 Askers = {"c1", "n1", "a1"}
 Errand <- MCErrand
 MaxRows = 2
 MaxMonths = 2
 MonthEnd = 2
 MaxTurns = 2
 Budget = 2
 Prices = {1}
 Merchants <- MCMerchants
 Responses <- MCResponses
 MaxAttempts = 1
 Categories = {"home", "food", "travel"}
 SpikeMinimum = 20
 Horizon = 8
 Workers = {"w1", "w2"}
 Opening <- MCOpening
 Batches <- MCBatches
 Recategorised <- MCRecategorised
 BudgetAmounts = {50}
 Roles = {"expense_app", "superuser"}
 Day = 100
 SnapshotMonths = 2
 NarrativeMonths = 1
 MaxChanges = 2
 MaxNights = 1
 MaxDeaths = 1
INVARIANTS
 IntelligenceTypeOK
 OverspendIsBounded
 CountersAgree
 ToldOnceInTurn
 SurfacesAgreeAtRest
PROPERTIES
 RefreshedIsExact
\* Questions end, and so do the nights.
CHECK_DEADLOCK FALSE
