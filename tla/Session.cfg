SPECIFICATION Spec
CONSTANTS
  Findings = {startup}
  MaxRuns = 2
  MaxRestores = 2
  MaxChanges = 1
  MaxOthers = 1
CHECK_DEADLOCK FALSE
INVARIANTS TypeOK OneInstall
PROPERTIES OnlyWhenIdle UpdateIsStarted
