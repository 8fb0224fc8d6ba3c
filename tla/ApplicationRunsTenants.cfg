\* Two accounts on one posting, one request in flight, a worker that crashes once.
CONSTANTS
  alice = alice
  bob = bob
  opening = opening
  Users = {alice, bob}
  Jobs = {opening}
  Requests = {r1}
  Nobody = Nobody
  NoKey = NoKey
  WorkerUser = alice
  LegacyTables <- NoLegacy
  MaxRuns = 3
  MaxAttempts = 2
  MaxFaults = 1
  MaxLost = 0
SPECIFICATION Spec
VIEW WithoutHistory
INVARIANTS
  ActiveRunsAreGuarded
PROPERTIES
  RequestsTouchOwnRuns
  SupersededIsFinal
CHECK_DEADLOCK FALSE
