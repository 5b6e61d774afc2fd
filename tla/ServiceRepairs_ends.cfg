SPECIFICATION Spec
CONSTANTS
  wuauserv = wuauserv  cryptsvc = cryptsvc  appidsvc = appidsvc  spooler = spooler
  SoftwareDistribution = SoftwareDistribution  catroot2 = catroot2
  Services <- MCServices
  Needs <- MCNeeds
  UpdateServices <- MCUpdateServices
  Spooler = spooler
  Folders <- MCFolders
  Worlds <- Ending
  MaxRepairs = 2
CHECK_DEADLOCK FALSE
INVARIANT RunsAgainAfterEveryRun
