SPECIFICATION Spec
CONSTANTS
  winsock = winsock
  startup = startup
  pendingRestart = pendingRestart
  network = network
  system = system
  Modules = {network, system}
  Ids = {winsock, pendingRestart}
  ModuleOf <- OwnerOf
  NeedsRestart = {winsock}
  Notices = {pendingRestart}
  Overdue = {}
  Worlds <- EverySession
  MaxBoot = 1
  MaxScans = 3
CHECK_DEADLOCK FALSE
INVARIANTS TypeOK ArchiveIsSortedOut DecisionsHold NothingWaitsForAPastRestart
PROPERTIES WaitsUntilRestart
