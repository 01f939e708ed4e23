\* Two users whose runs overlap and fail; one, with more files, who waits.
SPECIFICATION MCSpec
CONSTANTS
  Users = {u1, u2}
  Pollers = {u1}
  Names = {x, y}
  MaxUploads = 3
  MaxRuns = 2
  Lone = u1
  FewUploads = 2
INVARIANT SeparateOutputs
INVARIANT MergesWhatWasGiven
INVARIANT OutcomeWhenDown
PROPERTY RunsEnd
