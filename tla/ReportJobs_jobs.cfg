\* One job and a work folder through a restart, a refusing database and the sweep.
SPECIFICATION FairSpec
CONSTANTS
  Jobs = {j1}
  Shots = {s1}
  Expired = 2
  DbMayFail = TRUE
  MaxDownloads = 1
  MaxCrashes = 1
INVARIANT ReportInv
INVARIANT DoneHasWorkbook
PROPERTY NothingStays
PROPERTY PageIsAnswered
