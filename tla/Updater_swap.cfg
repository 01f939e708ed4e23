\* The swap under a running program, as comment and tests say it does not happen.
SPECIFICATION Spec
CONSTANTS
  MaxRelease = 1
  MaxFaults = 0
  MaxQuits = 0
  Apart = TRUE
PROPERTY SwapWaitsForRestart
CHECK_DEADLOCK FALSE
