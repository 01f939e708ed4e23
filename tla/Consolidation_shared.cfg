\* Two users who poll; one tracker.
SPECIFICATION Spec
CONSTANTS
  Users = {u1, u2}
  Pollers = {u1, u2}
  Names = {x}
  MaxUploads = 2
  MaxRuns = 2
INVARIANT ProgressIsMine
