\* The standard lane, whose lease lives as long as its functions, with the shortest
\* Stale that is safe; three signals of the feed; the services.  A form has two steps,
\* the label on the second of which is its own normal form.
CONSTANTS
  Invocations = {1, 2, 3}
  Free = Free
  Budget = 1
  Grace = 1
  StepNeed = 1
  MaxDuration = 2
  Stale = 2
  MaxTime = 4
  FeedSignals = {1, 2, 4}
  Overlap = 1
  Categories = {"engineering", "data"}
  CategoryOf <- PageOf
  Passes = {"pass1", "pass2"}
  None = None
  Foreign = Foreign
  FastInvocations = {1, 2}
  FastMaxDuration = 3
  FastStale = 4
  FastMaxTime = 7
  BrowserRuns = {"run1", "run2"}
  MaxLaunches = 3
  Workers = {1, 2, 3}
  MaxLockFaults = 1
  MaxTicks = 3
  MaxGenerations = 2
  MaxOthers = 1
  FormSteps = 2
  PlainSteps = {2}
  Requests = {"r1", "r2"}
  MaxAnswerFaults = 1
  MaxSyncs = 2
  MaxMails = 3
  PageSize = 2
  Supervisors = {"s1", "s2"}
  MaxRestarts = 1
  MaxCrashes = 1
  MaxForeign = 1
  Sightings <- SevenSightings
  Official = {"board"}
  Ingests = {"i1", "i2"}
  MaxSightings = 4
  FreshRuns = {"run1", "run2"}
  MaxSignals = 1
  SignalLimit = 1
  SignalConcurrency = 1
  MaxFaded = 1
  MaxFreshFaults = 1
  BoardTasks = {1, 2}
  BoardRunOf <- EachItsRun
  MaxBoards = 2
  MaxBoardFaults = 1
  Companies = {"c"}
  Sweeps = {"sweep"}
  Polls = {"poll"}
  TiersOf <- FirstTier
  CheckConcurrency = 1
  MaxPollFaults = 1
  MaxEdits = 1
  MaxPageChanges = 1
SPECIFICATION Services
INVARIANTS
  TypesOK
  HoldersHoldOrExpired
  RecoveryTouchesOnlyDead
  NothingSkipped
  DocumentsAreKept
  TicksAreRecorded
  
  StackIsSupervised
PROPERTIES
  Exclusive
  RefusalsNeedALease
  MailIsTracked
  OneBrowserIsOwned
  OneOfThreePolls
  PostingsKeepTheirIdentity
  SettledStays
CHECK_DEADLOCK FALSE
