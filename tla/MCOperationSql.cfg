SPECIFICATION Spec
CONSTANTS
  None = None
  Requests = {"start", "select", "execute", "cancel"}
  Kind <- KindOfName
  Txs = {t1}
  Mode = "sql"
  Batches = 1
  MaxPreview = 1
  DefaultPreview = 2
  MaxDrops = 1
  Faults = {"drop"}
INVARIANTS TypeOK TerminalAuditAgrees
PROPERTIES TransitionsValid
CHECK_DEADLOCK FALSE
