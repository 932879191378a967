SPECIFICATION FairSpec
CONSTANTS
  Null = Null
  Never = Never
  None = None
  Tables <- TwoTables
  Columns <- ColumnNames
  Keys <- TableKeys
  Rows <- TableRows
  InitDb <- OneOrder
  Requests <- SomeRequests
  Flashbacks <- SomeFlashbacks
  Cap = 1
  Quiet = {"orders"}
  MaxTime = 2
  MaxChanges = 2
  MaxFiles = 2
  DefaultPreview = 3
  Kinds <- TxKinds
  Callers = {"stream", "flashback"}
  Faults = {"cancel", "corrupt", "open", "schema", "savepoint"}
INVARIANTS TypeOK ScanIsFaithful Restored
PROPERTIES ScanEnds
CHECK_DEADLOCK FALSE
