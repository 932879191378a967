SPECIFICATION Spec
CONSTANTS
  None = None
  Requests = {"start", "select"}
  Kind <- KindOfName
  Txs = {t1, t2}
  Mode = "selected"
  Batches = 1
  MaxPreview = 2
  DefaultPreview = 1
  MaxDrops = 1
  Faults = {"restart", "timeout"}
INVARIANTS OnlySelectedStored PreviewBounded
SYMMETRY TxSymmetry
CHECK_DEADLOCK FALSE
