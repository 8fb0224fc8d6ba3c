\* One run at a time, which may be out of time; two signals, the newer of which is looked at.
CONSTANTS
  Runs = {r1}
  MaxSignals = 2
  Limit = 1
  Concurrency = 1
  MaxFaded = 0
  MaxFaults = 0
  None = None
SPECIFICATION Spec
PROPERTIES
  PickedUpLater
CHECK_DEADLOCK FALSE
