\* One account, one request in flight, old and new tables, a worker that crashes
\* twice and swallows one failure.
CONSTANTS
  alice = alice
  bob = bob
  opening = opening
  Users = {alice}
  Jobs = {opening}
  Requests = {r1}
  Nobody = Nobody
  NoKey = NoKey
  WorkerUser = alice
  LegacyTables <- LegacyActive
  MaxRuns = 2
  MaxAttempts = 2
  MaxFaults = 2
  MaxLost = 1
SPECIFICATION FairSpec
INVARIANTS
  RepairLeavesOneActive
  OrphansNeedALostWrite
PROPERTIES
  RunningEnds
  QueueDrains
CHECK_DEADLOCK FALSE
