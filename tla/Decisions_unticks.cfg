SPECIFICATION Spec
CONSTANTS
  winsock = winsock
  startup = startup
  pendingRestart = pendingRestart
  network = network
  system = system
  Modules = {network, system}
  Ids = {winsock, startup}
  ModuleOf <- OwnerOf
  NeedsRestart = {winsock}
  Notices = {}
  Overdue = {}
  Worlds <- CutScans
  MaxBoot = 1
  MaxScans = 3
INVARIANT LeftOutIsNotRepaired
