\* A batch packed as ZIPs; does a later workbook take an earlier one's place?
SPECIFICATION FoldersSpec
CONSTANTS
  Workbooks = {w, x}
  Branches = {a, b}
  MaxBatch = 2
  MaxStarts = 2
  MaxClock = 1
PROPERTY ZipsKeep
CHECK_DEADLOCK FALSE
