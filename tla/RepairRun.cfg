SPECIFICATION LiveSpec
CONSTANTS
  Issues = {sfc, netsh, gone}
  NeedsRestart = {netsh}
  Orphans = {gone}
  MaxLines = 2
  LineCap = 1
  FixCap = 1
  EventCap = 2
  NoIssue = NoIssue
INVARIANTS EventsInOrder WindowTellsTheOutcome SimulationChangesNothing
PROPERTIES ImplementsContract EveryRunEnds
