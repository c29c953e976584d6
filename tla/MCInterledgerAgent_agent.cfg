SPECIFICATION FairSpec
CONSTANTS
  MaxEvents = 2
  MaxHeight = 2
  MaxTransfers = 3
  MaxListeners = 2
  MaxRestarts = 1
  Faults = {"listen", "send", "answer", "stop", "kill"}
CHECK_DEADLOCK FALSE
INVARIANTS
  TypeOK
  PendingCountsSent
  CommitMeansAccepted
  LastBlockDividesEvents
PROPERTIES
  EventsAreAnswered
