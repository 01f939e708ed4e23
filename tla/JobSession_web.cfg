\* Two users of the web server, whose requests are served one at a time.
SPECIFICATION Spec
CONSTANTS
  Users = {u1, u2}
  Desktop = desktop
  Handlers = {h1}
  Threads = {t1, t2}
  WebMode = TRUE
  Banks = {"IDFC"}
  Files = 2
  Branches = 2
  MaxRuns = 2
SYMMETRY Symmetry
INVARIANT OneWorkerPerSession
INVARIANT NoStaleCancel
INVARIANT JobInv
PROPERTY OwnTrackerOnly
PROPERTY ImplementsLifecycle
