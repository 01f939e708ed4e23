SPECIFICATION Spec
CONSTANT ROWS_PER_PAGE = 2
CONSTANT Inputs <- MCInputs
INVARIANT PdfsKept
INVARIANT OrnamentsKept
INVARIANT FoldedBack
INVARIANT ColumnsKept
INVARIANT ReportsComplete
INVARIANT AuditReported
INVARIANT SheetKept
INVARIANT RowsSettle
INVARIANT TrackerAddsUp
CHECK_DEADLOCK FALSE
