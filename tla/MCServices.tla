------------------------------- MODULE MCServices -------------------------------
(***************************************************************************)
(* The standard cron lane, the fresh one, and the services of which the    *)
(* safety is checked, side by side.  They share no state: `focus` picks    *)
(* one in the initial state, and only that one moves, so that one run      *)
(* explores each of them.                                                  *)
(***************************************************************************)
EXTENDS StandardLane, RadarCursor, TLC

CONSTANTS None, Foreign,
  FastInvocations, FastMaxDuration, FastStale, FastMaxTime, \* of the fresh lane
  BrowserRuns, MaxLaunches,                             \* of the browser
  Workers, MaxLockFaults,                               \* of the worker's lock
  MaxTicks,                                             \* of the scheduler
  MaxGenerations, MaxOthers,                            \* of the documents
  FormSteps, PlainSteps, Requests, MaxAnswerFaults,     \* of the answers of a run
  MaxSyncs, MaxMails, PageSize,                         \* of the mailbox
  Supervisors, MaxRestarts, MaxCrashes, MaxForeign,     \* of the local stack
  Sightings, Official, Ingests, MaxSightings,           \* of the ingests
  FreshRuns, MaxSignals, SignalLimit, SignalConcurrency, MaxFaded,
    MaxFreshFaults,                                     \* of the fresh radar
  BoardTasks, BoardRunOf, MaxBoards, MaxBoardFaults,    \* of an employer's board
  Companies, Sweeps, Polls, TiersOf, CheckConcurrency, MaxPollFaults, MaxEdits,
    MaxPageChanges                                      \* of the company checks

VARIABLES focus,
  overClock, overLease, overStep, overStartedAt, overNow, overRead, overLog, overLogStart,
  overWon,
  docs, pdf, agent, profile, gen, sender, reader, others, overlapped,
  arrived, lastSyncAt, tracked, status, entries, sync, unread, broken, crossed,
  live, closings, context, contextClosed, browserState, generation, stale,
  pausedPages, at, run, resuming, page, retrying, abandoned,
  row, paused, running, tick, ticksCrossed, recorded, frozen,
  runStatus, stopped, answers, bank, form, filler, formStep, collected, hasPaused, request,
  faults, given, forgotten, requestsCrossed,
  file, port, lockStep, attempt, seen, hung, told, lockFaults, rival,
  sup, toldTo, child, webPort, lock, looked, stop, targets, crashes, foreigners,
  beside, lost, changed, hurt,
  jobs, ingest, sighted, ingestsCrossed, unresolved,
  published, faded, signals, radar, promoted, runsCrossed, radarFaults,
  home, open, boardRow, task, shared, promise, lists, tasksCrossed, boardFaults,
  siteOf, openings, pageChanges, companyRow, order, approved, taken, poll, check, resolving,
  checksCrossed, pollFaults, edits

overVars == <<overClock, overLease, overStep, overStartedAt, overNow, overRead, overLog,
  overLogStart, overWon>>
documentVars == <<docs, pdf, agent, profile, gen, sender, reader, others, overlapped>>
gmailVars == <<arrived, lastSyncAt, tracked, status, entries, sync, unread, broken, crossed>>
managerVars == <<live, closings, context, contextClosed, browserState, generation,
  stale, pausedPages, at, run, resuming, page, retrying, abandoned>>
tickVars == <<row, paused, running, tick, ticksCrossed, recorded, frozen>>
answersVars == <<runStatus, stopped, answers, bank, form, filler, formStep, collected,
  hasPaused, request, faults, given, forgotten, requestsCrossed>>
lockVars == <<file, port, lockStep, attempt, seen, hung, told, lockFaults, rival>>
supervisorVars == <<sup, toldTo, child, webPort, lock, looked, stop, targets, crashes,
  foreigners, beside, lost, changed, hurt>>
identityVars == <<jobs, ingest, sighted, ingestsCrossed, unresolved>>
freshVars == <<published, faded, signals, radar, promoted, runsCrossed, radarFaults>>
boardVars == <<home, open, boardRow, task, shared, promise, lists, tasksCrossed, boardFaults>>
companyVars == <<siteOf, openings, pageChanges, companyRow, order, approved, taken, poll, check,
  resolving, checksCrossed, pollFaults, edits>>
servicesVars == <<focus, vars, overVars, cursorVars, documentVars, gmailVars, managerVars,
  tickVars, answersVars, lockVars, supervisorVars, identityVars, freshVars, boardVars,
  companyVars>>

\* The lease of the fresh lane is shorter than its functions may live.
Fast == INSTANCE CronLane WITH
  Invocations <- FastInvocations, MaxDuration <- FastMaxDuration, Stale <- FastStale,
  MaxTime <- FastMaxTime,
  clock <- overClock, lease <- overLease, step <- overStep, startedAt <- overStartedAt,
  now <- overNow, read <- overRead, log <- overLog, logStart <- overLogStart, won <- overWon

\* The second of three signals is on a page of its own.
PageOf == [s \in FeedSignals |-> IF s = 2 THEN "data" ELSE "engineering"]

Papers == INSTANCE Documents

Mailbox == INSTANCE GmailRadar

Browser == INSTANCE BrowserManager WITH Runs <- BrowserRuns

Ticker == INSTANCE Scheduler WITH crossed <- ticksCrossed

Answers == INSTANCE RunAnswers WITH
  Steps <- FormSteps, Plain <- PlainSteps, MaxFaults <- MaxAnswerFaults,
  status <- runStatus, at <- filler, step <- formStep, crossed <- requestsCrossed

Lock == INSTANCE WorkerLock WITH
  MaxFaults <- MaxLockFaults, step <- lockStep, faults <- lockFaults

Local == INSTANCE LocalSupervisor WITH
  told <- toldTo, port <- webPort, seen <- looked

See(of, source, id, req, site, listing, role) ==
  [of |-> of, source |-> source, id |-> id, req |-> req, site |-> site,
   listing |-> listing, role |-> role]

\* Posting a is on a list and on the board, b on a scanned page with a link of its own;
\* b and d share a requisition, a and c a role; e has the role of c, not its requisition.
SevenSightings ==
  {See("a", "list", "l1", None, "la", "fa", "x"),
   See("a", "board", "b1", None, "la", "la", "x"),
   See("b", "board", "b2", "R", "lb", "lb", "y"),
   See("b", "scan", "s2", "R", "sb", "sb", "y"),
   See("c", "board", "b3", None, "lc", "lc", "x"),
   See("d", "board", "b4", "R", "ld", "ld", "z"),
   See("e", "board", "b5", "Q", "le", "le", "x")}
Identity == INSTANCE PostingIdentity WITH
  rows <- jobs, overlapped <- ingestsCrossed

\* Two runs on one signal (more signals are in MCLiveServices).
Fresh == INSTANCE FreshRadar WITH
  Runs <- FreshRuns, Limit <- SignalLimit, Concurrency <- SignalConcurrency,
  MaxFaults <- MaxFreshFaults,
  rows <- signals, run <- radar, overlapped <- runsCrossed, faults <- radarFaults

\* A signal of the employer in each of two runs (two in one run are in MCLiveServices).
EachItsRun == <<"run1", "run2">>
Boards == INSTANCE EmployerBoards WITH
  Tasks <- BoardTasks, RunOf <- BoardRunOf, MaxFaults <- MaxBoardFaults,
  row <- boardRow, crossed <- tasksCrossed, faults <- boardFaults

\* A sweep beside a poll of the first tier, on one company of either kind (two companies
\* are in MCLiveServices).
FirstTier == [poll |-> {"A"}]
Polling == INSTANCE CompanyPolls WITH
  Concurrency <- CheckConcurrency, MaxFaults <- MaxPollFaults, MaxChanges <- MaxPageChanges,
  site <- siteOf, page <- openings, changes <- pageChanges, company <- companyRow,
  run <- poll, crossed <- checksCrossed, faults <- pollFaults

\* Generations that overlap are explored without the resends and the profile's change.
OverlapAlone == overlapped => others = 0 /\ profile = "old"

\* Syncs that cross are explored on one mail.
CrossOnOneMail == crossed => arrived < 2

\* Answer requests are interchangeable: it is enough that the second one starts beside
\* the first.
SecondBesideFirst ==
  Answers!Pending("r2")' => Answers!Pending("r2") \/ Answers!Pending("r1")

\* So are workers: it is enough that they start in their order.
StartsInOrder ==
  \A v, w \in Workers : v < w /\ lockStep[w] # "off" => lockStep[v] # "off"

\* So are supervisors.  One child is restarted; a crash, a foreign process, and startups
\* or looks that cross are explored apart; local:stop meets one supervisor that runs.
OneTroubleAtATime ==
  /\ sup["s2"] # "off" => sup["s1"] # "off"
  /\ Cardinality({x \in {"s1", "s2"} \X Local!Kinds :
       child[x[1]][x[2]].n > 1 \/ child[x[1]][x[2]].state = "pending"}) <= 1
  /\ crashes + foreigners <= 1
  /\ beside \/ lost \/ changed => crashes = 0 /\ stop = "off" /\ (foreigners = 0 \/ changed)
  /\ stop # "off" => foreigners = 0 /\ ~(Local!Running("s1") /\ Local!Running("s2"))

\* Ingests are interchangeable: it is enough that the second one starts beside the first.
\* Those that cross are explored on three sightings.
CrossOnFewSightings ==
  /\ ingest'["i2"] # ingest["i2"] => ingest["i2"] # Identity!Idle \/ ingest["i1"] # Identity!Idle
  /\ ingestsCrossed' => sighted' < 4

\* Invocations are interchangeable, too, and run once; nothing happens before the first.
InvokedInOrder(steps, time) ==
  /\ \A i, j \in DOMAIN steps : i < j /\ steps[j] # "idle" => steps[i] # "idle"
  /\ steps[1] = "idle" => time = 0

\* Three invocations of the standard lane: a dead holder and two that reclaim.
ThirdReclaims ==
  /\ Cardinality({i \in Invocations : Live(i)}') < 3
  /\ step[3] = "idle" /\ step'[3] # "idle" => lease # Free /\ ~Live(lease.holder)

ServicesInit ==
  /\ focus \in {"standard", "fast", "cursor", "documents", "gmail", "browser", "scheduler",
               "answers", "lock", "local", "identity", "fresh", "boards", "companies"}
  /\ Init /\ Fast!Init /\ CursorInit /\ Papers!Init /\ Mailbox!Init /\ Browser!Init /\ Ticker!Init
  /\ Answers!Init /\ Lock!Init /\ Local!Init /\ Identity!Init /\ Fresh!Init
  /\ Boards!Init
  /\ IF focus = "companies" THEN Polling!Init
     ELSE Polling!Init /\ \A c \in Companies : siteOf[c] = "page" /\ openings[c] = "shell"

\* Service f moves, and the others do not.
Only(f) ==
  /\ focus = f /\ UNCHANGED focus
  /\ IF f = "standard" THEN TRUE ELSE UNCHANGED vars
  /\ IF f = "fast" THEN TRUE ELSE UNCHANGED overVars
  /\ IF f = "cursor" THEN TRUE ELSE UNCHANGED cursorVars
  /\ IF f = "documents" THEN TRUE ELSE UNCHANGED documentVars
  /\ IF f = "gmail" THEN TRUE ELSE UNCHANGED gmailVars
  /\ IF f = "browser" THEN TRUE ELSE UNCHANGED managerVars
  /\ IF f = "scheduler" THEN TRUE ELSE UNCHANGED tickVars
  /\ IF f = "answers" THEN TRUE ELSE UNCHANGED answersVars
  /\ IF f = "lock" THEN TRUE ELSE UNCHANGED lockVars
  /\ IF f = "local" THEN TRUE ELSE UNCHANGED supervisorVars
  /\ IF f = "identity" THEN TRUE ELSE UNCHANGED identityVars
  /\ IF f = "fresh" THEN TRUE ELSE UNCHANGED freshVars
  /\ IF f = "boards" THEN TRUE ELSE UNCHANGED boardVars
  /\ IF f = "companies" THEN TRUE ELSE UNCHANGED companyVars

ServicesNext ==
  \/ Only("standard") /\ Next /\ InvokedInOrder(step', clock') /\ ThirdReclaims
  \/ Only("fast") /\ Fast!Next /\ InvokedInOrder(overStep', overClock')
  \/ Only("cursor") /\ CursorNext
  \/ Only("documents") /\ Papers!Next /\ OverlapAlone'
  \/ Only("gmail") /\ Mailbox!Next /\ CrossOnOneMail'
  \/ Only("browser") /\ Browser!Next
  \/ Only("scheduler") /\ Ticker!Next
  \/ Only("answers") /\ Answers!Next /\ SecondBesideFirst
  \/ Only("lock") /\ Lock!Next /\ StartsInOrder'
  \/ Only("local") /\ Local!Next /\ OneTroubleAtATime'
  \/ Only("identity") /\ Identity!Next /\ CrossOnFewSightings
  \/ Only("fresh") /\ Fresh!Next
  \/ Only("boards") /\ Boards!Next
  \/ Only("companies") /\ Polling!Next

Services == ServicesInit /\ [][ServicesNext]_servicesVars

-----------------------------------------------------------------------------
(* Properties.  The standard lane and the cursor keep theirs when they do    *)
(* not move; the others are asked for theirs when they do.                   *)

\* Every variable has its type.
TypesOK ==
  /\ TypeOK /\ CursorTypeOK
  /\ focus = "fast" => Fast!TypeOK
  /\ focus = "documents" => Papers!DocumentsTypeOK
  /\ focus = "gmail" => Mailbox!GmailTypeOK
  /\ focus = "browser" => Browser!BrowserTypeOK
  /\ focus = "scheduler" => Ticker!SchedulerTypeOK
  /\ focus = "answers" => Answers!AnswersTypeOK
  /\ focus = "lock" => Lock!LockTypeOK
  /\ focus = "local" => Local!SupervisorTypeOK
  /\ focus = "identity" => Identity!IdentityTypeOK
  /\ focus = "fresh" => Fresh!FreshTypeOK
  /\ focus = "boards" => Boards!BoardsTypeOK
  /\ focus = "companies" => Polling!CompaniesTypeOK

\* Refusals need a lease.  On the standard lane nobody is turned away but for a
\* lease that another one won and that had not expired, be its winner alive or
\* not: what a dead one left behind refuses nobody after its time to live.  On
\* the fresh lane, whose lease may expire under its holder, a holder holds it or
\* it expired, recovery spares the rows of live functions, and a release removes
\* no lease but its own.
RefusalsNeedALease ==
  /\ []RefusedForALease
  /\ [](focus = "fast" => Fast!HoldersHoldOrExpired /\ Fast!RecoveryTouchesOnlyDead)
  /\ Fast!ReleaseRemovesOwnLease

\* An existing version of a document stays as it was checked, the agent holds
\* passed files only, and the extension is handed one that passed and carries
\* the profile's identity.
DocumentsAreKept ==
  focus = "documents" =>
    Papers!KeptAsChecked /\ Papers!AgentHoldsPassed /\ Papers!HandedOverIsTheirs

\* No mail falls between two syncs, an assessment is tracked once, and no sync
\* takes a job back to an earlier stage.
MailIsTracked ==
  /\ [](focus = "gmail" => Mailbox!NothingUnread /\ Mailbox!OneEntryPerAssessment)
  /\ Mailbox!NeverTakenBack

\* The browser in use is one that lives and the only one: retained pages are its
\* own, none is left running beside it, and late events of a replaced one do not
\* take it for dead.
OneBrowserIsOwned ==
  /\ [](focus = "browser" =>
          Browser!RetainedAreCurrent /\ Browser!UsableIsLive /\ Browser!NoStrayBrowser)
  /\ Browser!LateEventsSpareTheNew

\* Ticks that overlap start one pass at a time, the totals of their reports add
\* up, and a tick that has seen nothing but a pause does no work.
TicksAreRecorded ==
  focus = "scheduler" => Ticker!GuardFollowsThePass /\ Ticker!TotalsAddUp /\ Ticker!PauseHolds

\* A question that was answered is not asked again.
NotAskedAgain == focus = "answers" => Answers!NotAskedAgain

\* Three starts of the worker: one polls at a time, who is refused had a living
\* rival, and contenders do not all turn each other away.
OneOfThreePolls ==
  /\ Lock!OnePoller
  /\ [](focus = "lock" => Lock!RefusedForALiveWorker /\ Lock!NotAllTurnedAway)

\* Supervisors spare what they did not start, run one stack, leave no child
\* behind, and stop the stack when they are told.
StackIsSupervised ==
  focus = "local" =>
    /\ Local!ForeignIsSpared /\ Local!OneStack
    /\ Local!NoneIsLeftBehind /\ Local!StopEndsTheStack

\* Ingests that do not cross keep one row per posting and per id of a source,
\* merge only what shares a key, and never demote an official row.
PostingsKeepTheirIdentity ==
  /\ [](focus = "identity" => Identity!MergedShareAKey /\ Identity!OneRowPerSourceId
                              /\ Identity!OneRowPerPosting)
  /\ Identity!OfficialStaysOfficial

\* What a run of the fresh radar settled stays settled while runs do not cross: a
\* resolved signal has its posting and is not searched again, and a board that
\* was not found is not looked for before its time.  So does what a check found out
\* of a company: its board, its openings in the past, the page that was ingested.
SettledStays ==
  /\ [](focus = "fresh" => Fresh!ResolvedHasPosting)
  /\ Fresh!ResolvedStays
  /\ Boards!SettledMissStays
  /\ [](focus = "companies" => Polling!UnchangedIsIngested /\ Polling!TierRemembers)
  /\ Polling!KnownBoardStays
=============================================================================
