SPECIFICATION LiveSpec
CONSTANTS
  Issues = {sfc, netsh, gone}
  NeedsRestart = {netsh}
  Orphans = {gone}
  MaxLines = 1
  LineCap = 1
  FixCap = 1
  EventCap = 1
  NoIssue = NoIssue
PROPERTY LeftoverDoesNotHoldTheRun
