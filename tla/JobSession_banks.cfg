\* The desktop, one request at a time: every bank, to the end of its batch.
SPECIFICATION FairSpec
CONSTANTS
  Users = {}
  Desktop = desktop
  Handlers = {h1}
  Threads = {t1, t2}
  WebMode = FALSE
  Banks = {"IDFC", "EQUITAS1", "EQUITAS2", "ARVOG"}
  Files = 2
  Branches = 3
  MaxRuns = 2
INVARIANT JobInv
INVARIANT CancelStopsTheRun
INVARIANT SuccessIsRecorded
PROPERTY ProgressIsMonotone
PROPERTY RunsEnd
