\* Two users; one parse cache.
SPECIFICATION Spec
CONSTANTS
  Users = {u1, u2}
  Pollers = {}
  Names = {x, y}
  MaxUploads = 2
  MaxRuns = 2
INVARIANT RowsAreMine
