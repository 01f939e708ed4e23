\* Accounts, settings, recent files, a tool tab, run folders and updates, one after the other.
SPECIFICATION MCSpec
CONSTANTS
  Typed = {"Amit", "amit", "bela", ".x"}
  Names = {"amit", "bela", ".x"}
  Normal <- NormalNames
  Addr <- OneAddress
  BadNames = {".x"}
  EnvName = "amit"
  Passwords = {"short", "p1", "p2"}
  EnvPassword = "p1"
  Browsers = {"b1", "b2"}
  Window = 2
  MaxAttempts = 2
  MaxAge = 2
  MaxRestarts = 1
  People = {"u1", "u2"}
  Setting = "out_path"
  Values = {1, 2}
  Callers = {"t1", "t2"}
  Paths = {"f1", "f2", "f3"}
  MaxRecent = 2
  MaxFails = 1
  MaxReopens = 1
  Tools = {"merge", "flatten", "report", "rebuild"}
  Sources = {"a", "b"}
  MaxRuns = 2
  MaxCloses = 1
  Overlap = FALSE
  Workbooks = {"w", "x"}
  Branches = {"a", "b"}
  MaxBatch = 2
  MaxStarts = 2
  MaxClock = 1
  MaxRelease = 2
  MaxFaults = 2
  MaxQuits = 1
  Apart = TRUE
INVARIANT AccountsInv
INVARIANT SettingsInv
INVARIANT ToolInv
INVARIANT FoldersInv
INVARIANT UpdaterInv
PROPERTY LockoutEnds
PROPERTY FlagComesDown
PROPERTY FoldersKeep
PROPERTY UpdateArrives
\* A program that lost its file cannot be started again; runs are counted.
CHECK_DEADLOCK FALSE
