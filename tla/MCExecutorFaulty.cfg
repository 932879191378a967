\* Everything the executor has to survive, with two invocations.
SPECIFICATION Spec
CONSTANTS
  N = 3
  BatchSize = 2
  Empty = {1}
  Runs = {r1, r2}
  Faults = {"crash", "overlap", "save", "lost", "victim"}
SYMMETRY Invocations
INVARIANTS TypeOK CheckpointAccounts ReportAccounts
