SPECIFICATION Spec
CONSTANTS
  Findings = {startup}
  MaxRuns = 2
  MaxRestores = 1
  MaxChanges = 1
  MaxOthers = 1
CHECK_DEADLOCK FALSE
PROPERTY NextScanUsesSettings
