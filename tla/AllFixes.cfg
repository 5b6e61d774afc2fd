SPECIFICATION Spec
CONSTANTS
  Configs <- Config
  Lapses = {}
  MaxRepairs = 2
  Looked <- Parts
CHECK_DEADLOCK FALSE
INVARIANTS RepairedStaysRepaired BackedUpFirst
PROPERTIES OnlyWhatWasReported PutRightIsLeftAlone ReportsAreTrue
