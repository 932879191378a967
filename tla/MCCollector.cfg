\* Everything but a first run that MySQL or a restart disturbs.
SPECIFICATION Spec
CONSTANTS
  MaxFiles = 3
  MaxEvents = 3
  Faults = {"crash", "query", "stream", "reconnect", "seal", "copy", "save", "purge", "prune"}
INVARIANTS TypeOK NoGapBehindState CopyIsPrefix EventsUnderOwnFile
CHECK_DEADLOCK FALSE
