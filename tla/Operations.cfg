SPECIFICATION Spec
CONSTANTS
  Subjects = {"run", "task", "restore point", "chains", "commands", "update"}
  Problems = {p1, p2}
  Exes = {here, there}
  Frequencies = {1, 24}
  Slips = {}
  MaxChanges = 4
  Requesters = {window, headless}
  MaxPoints = 3
  MaxRequests = 2
  Services = {s1, s2, s3}
  Driver = driver
  MaxDepth = 3
  MaxDependencies = 2
  Queries = {query}
  Heavy = {dism}
  Plain = {}
  Slots = 2
  Gaps = {}
  Windows = {window}
  Lapses = {}
  Attempts = 2
  MaxInstalls = 2
  MaxStarts = 2
CHECK_DEADLOCK FALSE
INVARIANTS RunIsToldTruly ProtectedMeansNew
PROPERTIES TaskFollowsSetting EveryCauseIsTold NothingLeftBehind UpdateIsSafe WhatIsBegunEnds
