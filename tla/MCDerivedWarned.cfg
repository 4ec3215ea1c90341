\* One worker refreshes again and again; nothing fails.
SPECIFICATION DerivedSpec
CONSTANTS
  Categories = {"home", "food", "travel"}
  SpikeMinimum = 20
  Horizon = 8
  Workers = {"w1"}
  Opening <- MCOpening
  Batches <- MCBatches
  Recategorised <- MCRecategorised
  BudgetAmounts = {50}
  Roles = {"expense_app", "superuser"}
  Day = 100
  SnapshotMonths = 2
  NarrativeMonths = 1
  MaxChanges = 2
  MaxNights = 2
  MaxDeaths = 0
INVARIANT WarnedOnce
CHECK_DEADLOCK FALSE
