\* The agent is restarted, and nothing else goes wrong.
SPECIFICATION Spec
CONSTANTS
  MaxFiles = 3
  MaxEvents = 3
  Faults = {"crash"}
INVARIANTS NoEventTwice
CHECK_DEADLOCK FALSE
