\* Two starts of the worker; two checks of a posting's board; two passes over a radar
\* record; two scorers; one answer at a time.
CONSTANTS
  Workers = {1, 2}
  None = None
  MaxFaults = 1
  Checks = {"check1", "check2"}
  MaxBusy = 2
  MaxChanges = 1
  Passes = {"pass1", "pass2"}
  MAX_ATTEMPTS = 3
  NoRecord = NoRecord
  MaxDeaths = 1
  Scorers = {"scorer1", "scorer2"}
  MaxRequests = 2
  MaxScorerFaults = 2
SPECIFICATION LiveServices
INVARIANTS
  TypesOK
  
  QueuedOnce
  OneScorer
PROPERTIES
  OnePoller
  
  
  
CHECK_DEADLOCK FALSE
