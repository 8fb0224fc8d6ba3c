\* A worker restarts while two accounts have a run on one posting.
CONSTANTS
  alice = alice
  bob = bob
  opening = opening
  Users = {alice, bob}
  Jobs = {opening}
  Requests = {r1}
  Nobody = Nobody
  NoKey = NoKey
  WorkerUser = alice
  LegacyTables <- NoLegacy
  MaxRuns = 2
  MaxAttempts = 2
  MaxFaults = 1
  MaxLost = 0
SPECIFICATION Spec
PROPERTIES
  SupersededForOwnRun
CHECK_DEADLOCK FALSE
