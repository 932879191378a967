SPECIFICATION Spec
CONSTANTS
  None = None
  Requests = {"start", "select", "execute", "pause", "resume"}
  Kind <- KindOfName
  Txs = {t1, t2}
  Mode = "sql"
  Batches = 1
  MaxPreview = 2
  DefaultPreview = 1
  MaxDrops = 1
  Faults = {"reject", "fail"}
INVARIANTS DoneMeansExecuted PlanIsASelection
SYMMETRY TxSymmetry
CHECK_DEADLOCK FALSE
