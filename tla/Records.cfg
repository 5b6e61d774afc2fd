SPECIFICATION Spec
CONSTANTS
  Subjects = {"backups", "saves", "audit", "crashes", "releases", "output", "servicing", "disks", "pages", "series"}
  Lapses = {}
  Values = {"first", "second"}
  MaxSeconds = 2
  MaxRepairs = 2
  MaxRollbacks = 2
  Processes = {window, helper}
  MaxSaves = 3
  MaxEdits = 1
  Writers = {window, helper}
  Full = 2
  MaxRotated = 2
  Tears = {}
  MaxEntries = 9
  MaxKept = 1
  Second = 2
  FirstLookBack = 2
  LookBack = 3
  MaxTime = 6
  MaxCrashes = 3
  MaxUnsaved = 1
  Slips = {}
  MaxReleases = 2
  MaxChecks = 2
  MaxText = 4
  MaxPiece = 3
  Scripts = {}
  Installers = {g1, g2}
  TailLines = 4
  Mishaps = {}
  MaxLines = 10
  Limit = 2
  Days = 1
  LogSize = 4
  MaxEvents = 5
  MaxDay = 2
  MaxScans = 2
  Same = 1
  Week = 2
  Series = 4
  MaxChanges = 2
  Installs = {"update", "driver", "program"}
  Cleared = {"system"}
  MaxDate = 5
  MaxHappenings = 4
CHECK_DEADLOCK FALSE
INVARIANTS RollsBack NothingIsLost LinesHoweverCut PagesAgree
PROPERTIES UpdatesGoForward TellsTheTruth
