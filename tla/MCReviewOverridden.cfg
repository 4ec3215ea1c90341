\* A correction made while the cascade holds its list of rows.
SPECIFICATION ReviewSpec
CONSTANTS
  ReviewRows = {"r1", "r2"}
  Unknown = {}
  OtherScore <- MCOtherScore
  Preset = {}
  Categories = {"food", "travel"}
  OldConfirmed <- MCOldConfirmed
  Scores = {99}
  UserRequests = {"q1", "q2"}
  Figures = {"f1"}
  MaxCascades = 1
PROPERTY AiNeverOverridesAHuman
CHECK_DEADLOCK FALSE
