\* One invocation at a time, in an agent that does not die.
SPECIFICATION FairSpec
CONSTANTS
  N = 4
  BatchSize = 3
  Empty = {1}
  Runs = {r1, r2, r3}
  Faults = {}
INVARIANTS AppliedExactlyOnce
PROPERTIES BatchesAreAtomic PausedAtCheckpoint RunEnds
