SPECIFICATION Spec
CONSTANTS
  None = None
  CertValidity = 3
  RenewBelow = 2
  MaxSerial = 3
  MaxRoots = 2
  Faults = {"crash", "restart", "cut", "read", "write", "revoke"}
INVARIANTS TypeOK RevokedRefused NeverLockedOut
CHECK_DEADLOCK FALSE
