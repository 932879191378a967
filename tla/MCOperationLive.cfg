SPECIFICATION FairSpec
CONSTANTS
  None = None
  Requests = {"start", "select", "execute"}
  Kind <- KindOfName
  Txs = {t1}
  Mode = "sql"
  Batches = 1
  MaxPreview = 1
  DefaultPreview = 2
  MaxDrops = 1
  Faults = {"drop", "timeout"}
PROPERTIES ScanSettles ExecuteSettles
CHECK_DEADLOCK FALSE
