\* One account, two requests in flight, a worker that crashes once.
CONSTANTS
  alice = alice
  bob = bob
  opening = opening
  Users = {alice}
  Jobs = {opening}
  Requests = {r1, r2}
  Nobody = Nobody
  NoKey = NoKey
  WorkerUser = alice
  LegacyTables <- LegacySuperseded
  MaxRuns = 2
  MaxAttempts = 2
  MaxFaults = 1
  MaxLost = 0
SPECIFICATION Spec
SYMMETRY RequestSymmetry
VIEW WithoutTracker
INVARIANTS
  TypeOK
  AttemptsMatchFailures
PROPERTIES
  HandedBackRunsRest
CHECK_DEADLOCK FALSE
