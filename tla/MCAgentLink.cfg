\* A duration has five bits: the backoff is 4, 8, and -16 at the third attempt.
SPECIFICATION FairSpec
CONSTANTS
  Conns = {1, 2}
  None = None
  Calls = {k1}
  Faults = {"cut", "revoked", "shut", "close", "refuse"}
  Width = 5
  ReconnectMinWait = 4
  ReconnectMaxWait = 8
  MaxAttempts = 2
  MaxFaults = 2
INVARIANTS TypeOK EntryHasPump PumpHasEntry WaitersAreWoken
PROPERTIES CallsReturn ReconnectsUnless CloseReturns
CHECK_DEADLOCK FALSE
