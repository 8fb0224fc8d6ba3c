\* Two requests and a pause in between.
CONSTANTS
  alice = alice
  bob = bob
  opening = opening
  Users = {alice}
  Jobs = {opening}
  Requests = {r1, r2}
  Nobody = Nobody
  NoKey = NoKey
  WorkerUser = alice
  LegacyTables <- NoLegacy
  MaxRuns = 2
  MaxAttempts = 2
  MaxFaults = 0
  MaxLost = 0
SPECIFICATION Spec
INVARIANTS
  OneActiveRunPerOwnerAndJob
CHECK_DEADLOCK FALSE
