\* The role the workers connect with: row-level security binds it.
SPECIFICATION DerivedSpec
CONSTANTS
  Categories = {"home", "food", "travel"}
  SpikeMinimum = 20
  Horizon = 8
  Workers = {"w1", "w2"}
  Opening <- MCOpening
  Batches <- MCBatches
  Recategorised <- MCRecategorised
  BudgetAmounts = {50}
  Roles = {"expense_app"}
  Day = 100
  SnapshotMonths = 2
  NarrativeMonths = 1
  MaxChanges = 2
  MaxNights = 1
  MaxDeaths = 1
PROPERTY NightReachesAll
CHECK_DEADLOCK FALSE
